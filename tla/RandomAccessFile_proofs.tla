----------------------- MODULE RandomAccessFile_proofs -----------------------
(***************************************************************************)
(* Proofs about RandomAccessFile, for every number of files, pages, page   *)
(* contents, segment size and cache size: first of what the files hold, in *)
(* the environment in which setLength works (files grow while the          *)
(* descriptor is at their end), then of the page cache, in any.            *)
(***************************************************************************)
EXTENDS RandomAccessFile, DataLemmas, FiniteSetTheorems, TLAPS

-----------------------------------------------------------------------------
(* The inductive invariant.  The order of the cache list, the removeList   *)
(* and the sizes play no part in it: no eviction policy can break it.      *)

FileTypes ==
  /\ disk \in [Files -> [Pages -> Values]]
  /\ diskLen \in [Files -> 0 .. MaxPages]
  /\ opened \in [Files -> BOOLEAN]
  /\ fileSize \in [Files -> 0 .. MaxPages]
  /\ buffer \in [Files -> [Pages -> Values \cup {Null}]]
  /\ dirty \in [Files -> SUBSET SegmentNos]
  /\ call \in Calls \cup {NoCall}
  /\ buff \in [Pages -> Values]
  /\ pending \in [Files -> [Pages -> SUBSET Values]]

(* Only an open file has pages in memory, and then fileSize is its length. *)
LengthsAgree ==
  \A f \in Files :
    /\ opened[f] => fileSize[f] = diskLen[f] /\ diskLen[f] > 0
    /\ ~opened[f] => \A p \in Pages : buffer[f][p] = Null

(* Pages past the end of a file are zero and not in memory.                *)
BeyondEnd ==
  \A f \in Files, p \in Pages :
    p >= diskLen[f] => disk[f][p] = Zero /\ buffer[f][p] = Null

(* A segment in memory maps every page it has in the file.                 *)
WholeSegments ==
  \A f \in Files, p, q \in Pages :
    SegmentOf(p) = SegmentOf(q) /\ buffer[f][p] # Null /\ q < diskLen[f]
      => buffer[f][q] # Null

(* A write under way needs at most one extension, at once, while the       *)
(* descriptor is at the end of the file.                                   *)
CallFits ==
  call \in Calls =>
    /\ opened[call.file]
    /\ call.pos + call.remain <= MaxPages
    /\ call.kind = "copy" => call.pos + call.remain < diskLen[call.file]
    /\ call.kind = "write" =>
         \/ call.pos + call.remain < diskLen[call.file]
         \/ /\ position[call.file] = diskLen[call.file]
            /\ call.pos + call.remain < diskLen[call.file] + SegmentPages
            /\ diskLen[call.file] + SegmentPages <= MaxPages

FileInv ==
  /\ FileTypes /\ CleanMatchesDisk /\ DiskIsPending
  /\ LengthsAgree /\ BeyondEnd /\ WholeSegments /\ CallFits

-----------------------------------------------------------------------------
(* Arithmetic of segments.                                                 *)

LEMMA SegmentOfType ==
  ASSUME NEW p \in Pages
  PROVE  SegmentOf(p) \in SegmentNos
<1>1. SegmentPages \in Nat /\ SegmentPages >= 1 /\ MaxPages \in Nat BY FileAssumption
<1>2. p \in Nat /\ p <= MaxPages - 1 BY <1>1 DEF Pages
<1>3. p \div SegmentPages \in Nat /\ p \div SegmentPages <= p
  BY <1>1, <1>2, SMTT(20)
<1> QED BY <1>1, <1>2, <1>3 DEF SegmentOf, SegmentNos

LEMMA NumSegmentsMonotone ==
  ASSUME NEW m \in Nat, NEW n \in Nat, m <= n
  PROVE  ~ (NumSegments(n) < NumSegments(m))
<1>1. SegmentPages \in Nat /\ SegmentPages >= 1 BY FileAssumption
<1> QED BY <1>1, SMTT(30) DEF NumSegments

(* A segment that has pages on both sides of length n is the last one of a *)
(* file of length n.                                                       *)
LEMMA StraddlingSegment ==
  ASSUME NEW p \in Nat, NEW q \in Nat, NEW n \in Nat,
         p < n, n <= q, SegmentOf(p) = SegmentOf(q)
  PROVE  SegmentOf(p) = NumSegments(n) - 1
<1>1. SegmentPages \in Nat /\ SegmentPages >= 1 BY FileAssumption
<1> DEFINE i == p \div SegmentPages
<1>2. i \in Nat /\ i * SegmentPages <= p /\ p < i * SegmentPages + SegmentPages
  BY <1>1, SMTT(20)
<1>3. q \div SegmentPages = i BY DEF SegmentOf
<1>4. i * SegmentPages <= q /\ q < i * SegmentPages + SegmentPages
  BY <1>1, <1>2, <1>3, SMTT(20)
<1>5. n + SegmentPages - 1 >= i * SegmentPages + SegmentPages
      /\ n + SegmentPages - 1 < i * SegmentPages + SegmentPages + SegmentPages
  BY <1>1, <1>2, <1>4
<1>6. (n + SegmentPages - 1) \div SegmentPages = i + 1
  BY <1>1, <1>2, <1>5, SMTT(30)
<1> QED BY <1>2, <1>6 DEF NumSegments, SegmentOf

-----------------------------------------------------------------------------
(* Writing segments back changes a page of the file to what is in memory,  *)
(* and every page of the segments written back is what a read returns.     *)
LEMMA FlushedFacts ==
  ASSUME FileTypes, CleanMatchesDisk, NEW f \in Files, NEW S
  PROVE  /\ Flushed(f, S, disk[f]) \in [Pages -> Values]
         /\ \A p \in Pages :
              /\ Flushed(f, S, disk[f])[p] \in {disk[f][p], View(f)[p]}
              /\ SegmentOf(p) \in S => Flushed(f, S, disk[f])[p] = View(f)[p]
              /\ SegmentOf(p) \notin S => Flushed(f, S, disk[f])[p] = disk[f][p]
<1>1. ASSUME NEW p \in Pages
      PROVE  /\ disk[f][p] \in Values
             /\ buffer[f][p] \in Values \cup {Null}
             /\ buffer[f][p] # Null /\ SegmentOf(p) \notin dirty[f]
                  => buffer[f][p] = disk[f][p]
  BY <1>1 DEF FileTypes, CleanMatchesDisk
<1> QED BY <1>1 DEF Flushed, View

LEMMA ViewType ==
  ASSUME FileTypes, NEW f \in Files
  PROVE  View(f) \in [Pages -> Values]
BY DEF FileTypes, View

-----------------------------------------------------------------------------
(* What every step does to the file f it works on: from now on the pages   *)
(* of W read as v and every other page as before, what is in memory and    *)
(* clean is what the file holds, and of the n pages of the file a segment  *)
(* has all in memory or none.                                              *)
FileStep(f, W, v, n) ==
  /\ disk' \in [Files -> [Pages -> Values]]
  /\ buffer' \in [Files -> [Pages -> Values \cup {Null}]]
  /\ dirty' \in [Files -> SUBSET SegmentNos]
  /\ \A g \in Files : g # f => /\ disk'[g] = disk[g]
                               /\ buffer'[g] = buffer[g]
                               /\ dirty'[g] = dirty[g]
  /\ \A p \in Pages :
       /\ disk'[f][p] \in {disk[f][p], View(f)[p]}
       /\ View(f)'[p] = IF p \in W THEN v ELSE View(f)[p]
       /\ buffer'[f][p] # Null /\ SegmentOf(p) \notin dirty'[f]
            => buffer'[f][p] = disk'[f][p]
       /\ p >= n => buffer'[f][p] = Null /\ p \notin W
  /\ \A p, q \in Pages :
       SegmentOf(p) = SegmentOf(q) /\ buffer'[f][p] # Null /\ q < n
         => buffer'[f][q] # Null

(* What getSegment and the caller's use of it do to the file: the pages of *)
(* W read as v from now on, every other page as before; what was evicted   *)
(* reaches the file; and the segment it returns is whole.                  *)
LEMMA GetSegmentFacts ==
  ASSUME FileTypes, CleanMatchesDisk, LengthsAgree, BeyondEnd, WholeSegments,
         NEW f \in Files, NEW i \in SegmentNos, NEW v \in Values, opened[f],
         NEW W \in SUBSET {p \in PagesOf(i) :
                IF i \in InIndex(f) \ Evicted(f) THEN buffer[f][p] # Null
                ELSE p < fileSize[f]},
         GetSegment(f, i, W, v)
  PROVE  /\ FileStep(f, W, v, diskLen[f])
         /\ \A p \in PagesOf(i) :
              (IF i \in InIndex(f) \ Evicted(f) THEN buffer[f][p] # Null
               ELSE p < fileSize[f]) => buffer'[f][p] # Null
<1> DEFINE out == Evicted(f)
           disk1 == Flushed(f, out, disk[f])
           hit == i \in InIndex(f) \ out
           mapped == {p \in PagesOf(i) : p < fileSize[f]}
<1>1. /\ disk' = [disk EXCEPT ![f] = disk1]
      /\ buffer' = [buffer EXCEPT ![f] = [p \in Pages |->
                      IF p \in W THEN v
                      ELSE IF ~hit /\ p \in mapped THEN disk1[p]
                      ELSE Dropped(f, out)[p]]]
      /\ dirty' = [dirty EXCEPT ![f] = DirtyAfter(f, i, W)]
  BY DEF GetSegment
<1>2. /\ disk1 \in [Pages -> Values]
      /\ \A p \in Pages :
           /\ disk1[p] \in {disk[f][p], View(f)[p]}
           /\ SegmentOf(p) \in out => disk1[p] = View(f)[p]
           /\ SegmentOf(p) \notin out => disk1[p] = disk[f][p]
  BY FlushedFacts
<1>3. /\ disk \in [Files -> [Pages -> Values]]
      /\ buffer \in [Files -> [Pages -> Values \cup {Null}]]
      /\ dirty \in [Files -> SUBSET SegmentNos]
      /\ Null \notin Values
      /\ fileSize[f] = diskLen[f] /\ diskLen[f] \in Nat
      /\ MaxPages \in Nat
  BY FileAssumption DEF FileTypes, LengthsAgree
<1>4. \A p \in Pages : SegmentOf(p) \in SegmentNos BY SegmentOfType
<1>5. \A p \in PagesOf(i) : p \in Pages /\ SegmentOf(p) = i BY DEF PagesOf
<1>6. \A p \in Pages : Dropped(f, out)[p] = IF SegmentOf(p) \in out THEN Null ELSE buffer[f][p]
  BY DEF Dropped
<1>7. \A p \in PagesOf(i) : hit => i \notin out
  OBVIOUS
<1>8. \A p \in PagesOf(i) : ~hit /\ i \notin out => buffer[f][p] = Null
  BY <1>5 DEF InIndex, MappedPages
<1>9. \A p \in Pages : buffer'[f][p] = IF p \in W THEN v
                      ELSE IF ~hit /\ p \in mapped THEN disk1[p]
                      ELSE IF SegmentOf(p) \in out THEN Null ELSE buffer[f][p]
  BY <1>1, <1>3, <1>6
<1>10. disk'[f] = disk1 /\ dirty'[f] = DirtyAfter(f, i, W) BY <1>1, <1>3
<1>11. \A p \in W : /\ p \in PagesOf(i)
                    /\ IF hit THEN buffer[f][p] # Null ELSE p \in mapped
  OBVIOUS
<1> HIDE DEF out, disk1, hit, mapped
<1>20. disk' \in [Files -> [Pages -> Values]] BY <1>1, <1>2, <1>3
<1>21. buffer' \in [Files -> [Pages -> Values \cup {Null}]]
  <2>1. \A p \in Pages : Dropped(f, out)[p] \in Values \cup {Null} BY <1>3, <1>6
  <2> QED BY <1>1, <1>2, <1>3, <2>1
<1>22. dirty' \in [Files -> SUBSET SegmentNos] BY <1>1, <1>3 DEF DirtyAfter
<1>23. \A g \in Files : g # f => /\ disk'[g] = disk[g]
                                 /\ buffer'[g] = buffer[g]
                                 /\ dirty'[g] = dirty[g]
  BY <1>1, <1>3
<1>24. \A p \in Pages : disk'[f][p] \in {disk[f][p], View(f)[p]} BY <1>2, <1>10
<1>25. ASSUME NEW p \in Pages
       PROVE  View(f)'[p] = IF p \in W THEN v ELSE View(f)[p]
  <2>1. View(f)'[p] = IF buffer'[f][p] # Null THEN buffer'[f][p] ELSE disk'[f][p]
    BY DEF View
  <2>2. View(f)[p] = IF buffer[f][p] # Null THEN buffer[f][p] ELSE disk[f][p]
    BY DEF View
  <2>3. CASE p \in W BY <2>1, <2>3, <1>9, <1>3
  <2>4. CASE p \notin W /\ ~hit /\ p \in mapped
    <3>1. View(f)'[p] = disk1[p] BY <2>1, <2>4, <1>9, <1>10, <1>2, <1>3
    <3>2. p \in PagesOf(i) BY <2>4 DEF mapped
    <3>3. SegmentOf(p) \notin out => buffer[f][p] = Null BY <3>2, <1>5, <1>8, <2>4
    <3> QED BY <3>1, <3>3, <2>2, <2>4, <1>2
  <2>5. CASE p \notin W /\ ~(~hit /\ p \in mapped)
    BY <2>1, <2>2, <2>5, <1>9, <1>10, <1>2
  <2> QED BY <2>3, <2>4, <2>5
<1>26. ASSUME NEW p \in Pages, buffer'[f][p] # Null, SegmentOf(p) \notin dirty'[f]
       PROVE  buffer'[f][p] = disk'[f][p]
  <2>1. p \notin W BY <1>26, <1>10, <1>11, <1>5 DEF DirtyAfter
  <2>2. CASE ~hit /\ p \in mapped BY <2>1, <2>2, <1>9, <1>10
  <2>3. CASE ~(~hit /\ p \in mapped)
    <3>1. SegmentOf(p) \notin out /\ buffer'[f][p] = buffer[f][p]
      BY <2>1, <2>3, <1>9, <1>26
    <3>2. SegmentOf(p) \notin dirty[f] BY <3>1, <1>26, <1>10 DEF DirtyAfter, out
    <3> QED BY <3>1, <3>2, <1>26, <1>2, <1>10 DEF CleanMatchesDisk
  <2> QED BY <2>2, <2>3
<1>27. ASSUME NEW p \in Pages, p >= diskLen[f]
       PROVE  buffer'[f][p] = Null /\ p \notin W
  <2>1. p \in Nat BY <1>3 DEF Pages
  <2>2. buffer[f][p] = Null BY <1>27 DEF BeyondEnd
  <2>3. p \notin mapped BY <2>1, <1>27, <1>3 DEF mapped
  <2>4. p \notin W BY <2>2, <2>3, <1>11
  <2> QED BY <2>2, <2>3, <2>4, <1>9
<1>28. ASSUME NEW p \in Pages, NEW q \in Pages, SegmentOf(p) = SegmentOf(q),
              buffer'[f][p] # Null, q < diskLen[f]
       PROVE  buffer'[f][q] # Null
  <2>1. CASE SegmentOf(p) = i
    <3>1. p \in PagesOf(i) /\ q \in PagesOf(i) BY <2>1, <1>28 DEF PagesOf
    <3>2. CASE hit
      <4>1. buffer[f][p] # Null BY <1>9, <1>11, <1>28, <3>2
      <4>2. buffer[f][q] # Null BY <4>1, <1>28 DEF WholeSegments
      <4>3. SegmentOf(q) \notin out BY <3>1, <1>5, <1>7, <3>2
      <4> QED BY <4>2, <4>3, <1>9, <1>3, <3>2
    <3>3. CASE ~hit
      <4>1. q \in mapped BY <3>1, <1>28, <1>3 DEF mapped
      <4> QED BY <4>1, <3>3, <1>9, <1>2, <1>3
    <3> QED BY <3>2, <3>3
  <2>2. CASE SegmentOf(p) # i
    <3>1. p \notin W /\ q \notin W /\ p \notin mapped /\ q \notin mapped
      BY <2>2, <1>28, <1>5, <1>11 DEF mapped
    <3>2. buffer[f][p] # Null /\ SegmentOf(p) \notin out BY <3>1, <1>9, <1>28
    <3>3. buffer[f][q] # Null BY <3>2, <1>28 DEF WholeSegments
    <3> QED BY <3>1, <3>2, <3>3, <1>9, <1>28
  <2> QED BY <2>1, <2>2
<1>29. ASSUME NEW p \in PagesOf(i),
              IF hit THEN buffer[f][p] # Null ELSE p < fileSize[f]
       PROVE  buffer'[f][p] # Null
  <2>1. CASE hit BY <2>1, <1>29, <1>5, <1>7, <1>9, <1>3
  <2>2. CASE ~hit
    <3>1. p \in mapped BY <2>2, <1>29 DEF mapped
    <3> QED BY <3>1, <2>2, <1>5, <1>9, <1>2, <1>3
  <2> QED BY <2>1, <2>2
<1> QED BY <1>20, <1>21, <1>22, <1>23, <1>24, <1>25, <1>26, <1>27, <1>28, <1>29 DEF hit, out, FileStep

-----------------------------------------------------------------------------
(* Growing a file whose descriptor is at its end: the zeros land on pages  *)
(* that were zero already, and the one segment that the new pages would    *)
(* leave partly in memory, the last one, is dropped.                       *)
LEMMA ResizeFacts ==
  ASSUME FileTypes, CleanMatchesDisk, LengthsAgree, BeyondEnd, WholeSegments,
         NEW f \in Files, NEW n \in Nat, NEW next, NEW v, opened[f],
         position[f] = diskLen[f], n > fileSize[f], Resize(f, n, next)
  PROVE  /\ n <= MaxPages
         /\ diskLen' = [diskLen EXCEPT ![f] = n]
         /\ fileSize' = [fileSize EXCEPT ![f] = n]
         /\ opened' = opened /\ call' = next
         /\ FileStep(f, {}, v, n)
<1> DEFINE last == NumSegments(fileSize[f]) - 1
           drops == last \in InIndex(f) \ Evicted(f)
           gone == Evicted(f) \cup (IF drops THEN {last} ELSE {})
<1>1. /\ disk \in [Files -> [Pages -> Values]]
      /\ buffer \in [Files -> [Pages -> Values \cup {Null}]]
      /\ dirty \in [Files -> SUBSET SegmentNos]
      /\ diskLen \in [Files -> 0 .. MaxPages]
      /\ fileSize \in [Files -> 0 .. MaxPages]
      /\ Null \notin Values
      /\ fileSize[f] = diskLen[f] /\ diskLen[f] \in Nat
      /\ MaxPages \in Nat
  BY FileAssumption DEF FileTypes, LengthsAgree
<1>2. position[f] + (n - fileSize[f]) = n BY <1>1
<1>3. ~(NumSegments(n) < NumSegments(fileSize[f])) BY <1>1, NumSegmentsMonotone
<1>4. [p \in Pages |-> IF position[f] <= p /\ p < n THEN Zero ELSE disk[f][p]] = disk[f]
  <2>1. \A p \in Pages : p \in Nat BY DEF Pages
  <2>2. \A p \in Pages : position[f] <= p => disk[f][p] = Zero
    BY <2>1, <1>1 DEF BeyondEnd
  <2> QED BY <2>2, <1>1
<1>5. /\ n <= MaxPages
      /\ diskLen' = [diskLen EXCEPT ![f] = n]
      /\ fileSize' = [fileSize EXCEPT ![f] = n]
      /\ opened' = opened /\ call' = next
      /\ disk' = [disk EXCEPT ![f] = Flushed(f, gone, disk[f])]
      /\ buffer' = [buffer EXCEPT ![f] = Dropped(f, gone)]
      /\ dirty' = [dirty EXCEPT ![f] = @ \ gone]
  BY <1>1, <1>2, <1>3, <1>4 DEF Resize
<1>6. /\ Flushed(f, gone, disk[f]) \in [Pages -> Values]
      /\ \A p \in Pages :
           /\ Flushed(f, gone, disk[f])[p] \in {disk[f][p], View(f)[p]}
           /\ SegmentOf(p) \in gone => Flushed(f, gone, disk[f])[p] = View(f)[p]
           /\ SegmentOf(p) \notin gone => Flushed(f, gone, disk[f])[p] = disk[f][p]
  BY FlushedFacts
<1>7. \A p \in Pages : buffer'[f][p] = IF SegmentOf(p) \in gone THEN Null ELSE buffer[f][p]
  BY <1>1, <1>5 DEF Dropped
<1>8. disk'[f] = Flushed(f, gone, disk[f]) /\ dirty'[f] = dirty[f] \ gone
  BY <1>1, <1>5
<1>9. \A p \in Pages : SegmentOf(p) \in SegmentNos /\ p \in Nat
  BY SegmentOfType DEF Pages
<1>10. Dropped(f, gone) \in [Pages -> Values \cup {Null}] BY <1>1 DEF Dropped
<1>11. ASSUME NEW p \in Pages, NEW q \in Pages, SegmentOf(p) = SegmentOf(q),
              buffer'[f][p] # Null, q < n
       PROVE  buffer'[f][q] # Null
  <2>1. buffer[f][p] # Null /\ SegmentOf(p) \notin gone BY <1>7, <1>11
  <2>2. p < diskLen[f] BY <2>1, <1>1, <1>9 DEF BeyondEnd
  <2>3. CASE q < diskLen[f]
    BY <2>1, <2>3, <1>7, <1>11 DEF WholeSegments
  <2>4. CASE diskLen[f] <= q
    <3>1. SegmentOf(p) = last
      BY <2>2, <2>4, <1>1, <1>9, <1>11, StraddlingSegment
    <3>2. SegmentOf(p) \in InIndex(f)
      BY <2>1, <1>9 DEF InIndex, MappedPages, PagesOf
    <3> QED BY <3>1, <3>2, <2>1
  <2> QED BY <2>3, <2>4, <1>1, <1>9
<1>12. ASSUME NEW p \in Pages
       PROVE  /\ disk'[f][p] \in {disk[f][p], View(f)[p]}
              /\ View(f)'[p] = View(f)[p]
              /\ buffer'[f][p] # Null /\ SegmentOf(p) \notin dirty'[f]
                   => buffer'[f][p] = disk'[f][p]
              /\ p >= n => buffer'[f][p] = Null
  <2>1. /\ View(f)'[p] = IF buffer'[f][p] # Null THEN buffer'[f][p] ELSE disk'[f][p]
        /\ View(f)[p] = IF buffer[f][p] # Null THEN buffer[f][p] ELSE disk[f][p]
    BY DEF View
  <2>2. buffer[f][p] # Null /\ SegmentOf(p) \notin dirty[f] => buffer[f][p] = disk[f][p]
    BY DEF CleanMatchesDisk
  <2>3. p >= n => buffer[f][p] = Null BY <1>1, <1>9 DEF BeyondEnd
  <2> HIDE DEF gone
  <2> QED BY <2>1, <2>2, <2>3, <1>6, <1>7, <1>8
<1>13. /\ disk' \in [Files -> [Pages -> Values]]
       /\ buffer' \in [Files -> [Pages -> Values \cup {Null}]]
       /\ dirty' \in [Files -> SUBSET SegmentNos]
       /\ \A g \in Files : g # f => /\ disk'[g] = disk[g]
                                    /\ buffer'[g] = buffer[g]
                                    /\ dirty'[g] = dirty[g]
  <2> HIDE DEF gone
  <2> QED BY <1>1, <1>5, <1>6, <1>10
<1> QED BY <1>5, <1>11, <1>12, <1>13 DEF FileStep

(* Such a step keeps the invariant's conjuncts about segments and pages.   *)
LEMMA FileStepInv ==
  ASSUME FileInv, NEW f \in Files, NEW v \in Values, NEW W \in SUBSET Pages,
         NEW n \in 0 .. MaxPages, n >= diskLen[f],
         FileStep(f, W, v, n), diskLen' = [diskLen EXCEPT ![f] = n]
  PROVE  /\ diskLen' \in [Files -> 0 .. MaxPages]
         /\ CleanMatchesDisk' /\ BeyondEnd' /\ WholeSegments'
<1>1. /\ diskLen \in [Files -> 0 .. MaxPages]
      /\ MaxPages \in Nat
      /\ \A g \in Files : diskLen[g] \in Nat
      /\ \A p \in Pages : p \in Nat
  BY FileAssumption DEF FileInv, FileTypes, Pages
<1>2. \A g \in Files : diskLen'[g] = IF g = f THEN n ELSE diskLen[g] BY <1>1
<1>5. \A g \in Files, p \in Pages :
        View(g)'[p] = IF g = f /\ p \in W THEN v ELSE View(g)[p]
  BY DEF FileStep, View
<1>6. diskLen' \in [Files -> 0 .. MaxPages] BY <1>1
<1>8. CleanMatchesDisk'
  <2>1. ASSUME NEW g \in Files, NEW p \in Pages,
               buffer'[g][p] # Null, SegmentOf(p) \notin dirty'[g]
        PROVE  buffer'[g][p] = disk'[g][p]
    <3>1. CASE g = f BY <3>1, <2>1 DEF FileStep
    <3>2. CASE g # f BY <3>2, <2>1 DEF FileInv, CleanMatchesDisk, FileStep
    <3> QED BY <3>1, <3>2
  <2> QED BY <2>1 DEF CleanMatchesDisk
<1>11. BeyondEnd'
  <2>1. ASSUME NEW g \in Files, NEW p \in Pages, p >= diskLen'[g]
        PROVE  disk'[g][p] = Zero /\ buffer'[g][p] = Null
    <3>1. p >= diskLen[g] BY <2>1, <1>1, <1>2
    <3>2. disk[g][p] = Zero /\ buffer[g][p] = Null BY <3>1 DEF FileInv, BeyondEnd
    <3>3. View(g)[p] = Zero BY <3>2 DEF View
    <3>4. disk'[g][p] \in {disk[g][p], View(g)[p]} BY DEF FileStep
    <3>5. buffer'[g][p] = Null BY <3>2, <2>1, <1>2 DEF FileStep
    <3> QED BY <3>2, <3>3, <3>4, <3>5
  <2> QED BY <2>1 DEF BeyondEnd
<1>12. WholeSegments'
  <2>1. ASSUME NEW g \in Files, NEW p \in Pages, NEW q \in Pages,
               SegmentOf(p) = SegmentOf(q), buffer'[g][p] # Null, q < diskLen'[g]
        PROVE  buffer'[g][q] # Null
    <3>1. CASE g = f BY <3>1, <2>1, <1>2 DEF FileStep
    <3>2. CASE g # f BY <3>2, <2>1, <1>2 DEF FileInv, WholeSegments, FileStep
    <3> QED BY <3>1, <3>2
  <2> QED BY <2>1 DEF WholeSegments
<1> QED BY <1>6, <1>8, <1>11, <1>12

(* In a step of an open file that remembers what it writes as pending, so  *)
(* do the conjuncts about lengths and pending values.                      *)
LEMMA OpenFileStepInv ==
  ASSUME FileInv, NEW f \in Files, NEW v \in Values, NEW W \in SUBSET Pages,
         NEW n \in 0 .. MaxPages, n >= diskLen[f], opened[f],
         FileStep(f, W, v, n), opened' = opened,
         diskLen' = [diskLen EXCEPT ![f] = n],
         fileSize' = [fileSize EXCEPT ![f] = n],
         pending' = [pending EXCEPT ![f] =
                       [p \in Pages |-> IF p \in W THEN @[p] \cup {v} ELSE @[p]]]
  PROVE  /\ fileSize' \in [Files -> 0 .. MaxPages]
         /\ pending' \in [Files -> [Pages -> SUBSET Values]]
         /\ DiskIsPending' /\ LengthsAgree'
<1>1. /\ diskLen \in [Files -> 0 .. MaxPages]
      /\ fileSize \in [Files -> 0 .. MaxPages]
      /\ pending \in [Files -> [Pages -> SUBSET Values]]
      /\ MaxPages \in Nat
      /\ \A g \in Files : diskLen[g] \in Nat
  BY FileAssumption DEF FileInv, FileTypes
<1>2. \A g \in Files : diskLen'[g] = IF g = f THEN n ELSE diskLen[g] BY <1>1
<1>3. \A g \in Files : fileSize'[g] = IF g = f THEN n ELSE fileSize[g] BY <1>1
<1>4. \A g \in Files, p \in Pages :
        pending'[g][p] = IF g = f /\ p \in W THEN pending[g][p] \cup {v} ELSE pending[g][p]
  BY <1>1
<1>5. \A g \in Files, p \in Pages :
        View(g)'[p] = IF g = f /\ p \in W THEN v ELSE View(g)[p]
  BY DEF FileStep, View
<1>6. fileSize' \in [Files -> 0 .. MaxPages] BY <1>1
<1>7. pending' \in [Files -> [Pages -> SUBSET Values]] BY <1>1
<1>9. DiskIsPending'
  <2>1. ASSUME NEW g \in Files, NEW p \in Pages
        PROVE  disk'[g][p] \in pending'[g][p] /\ View(g)'[p] \in pending'[g][p]
    <3>1. disk[g][p] \in pending[g][p] /\ View(g)[p] \in pending[g][p]
      BY DEF FileInv, DiskIsPending
    <3>2. disk'[g][p] \in {disk[g][p], View(g)[p]} BY DEF FileStep
    <3> QED BY <3>1, <3>2, <1>4, <1>5
  <2> QED BY <2>1 DEF DiskIsPending
<1>10. LengthsAgree'
  <2>1. ASSUME NEW g \in Files
        PROVE  /\ opened'[g] => fileSize'[g] = diskLen'[g] /\ diskLen'[g] > 0
               /\ ~opened'[g] => \A p \in Pages : buffer'[g][p] = Null
    <3>1. CASE g = f BY <3>1, <1>1, <1>2, <1>3 DEF FileInv, LengthsAgree
    <3>2. CASE g # f BY <3>2, <1>2, <1>3 DEF FileInv, LengthsAgree, FileStep
    <3> QED BY <3>1, <3>2
  <2> QED BY <2>1 DEF LengthsAgree
<1> QED BY <1>6, <1>7, <1>9, <1>10

(* Writing every dirty segment of a file back, as sync() and close() do,   *)
(* leaves on disk what a read returned; some segments may stay in memory.  *)
LEMMA WriteBackFacts ==
  ASSUME FileInv, NEW f \in Files, NEW S,
         disk' = [disk EXCEPT ![f] = Flushed(f, SegmentNos, disk[f])],
         buffer' = [buffer EXCEPT ![f] = Dropped(f, S)],
         dirty' = [dirty EXCEPT ![f] = {}]
  PROVE  /\ FileStep(f, {}, Zero, diskLen[f])
         /\ \A p \in Pages : disk'[f][p] = View(f)[p]
<1>1. /\ disk \in [Files -> [Pages -> Values]]
      /\ buffer \in [Files -> [Pages -> Values \cup {Null}]]
      /\ dirty \in [Files -> SUBSET SegmentNos]
  BY DEF FileInv, FileTypes
<1>2. /\ Flushed(f, SegmentNos, disk[f]) \in [Pages -> Values]
      /\ \A p \in Pages : Flushed(f, SegmentNos, disk[f])[p] = View(f)[p]
  BY FlushedFacts, SegmentOfType DEF FileInv
<1>3. \A p \in Pages : disk'[f][p] = View(f)[p] BY <1>1, <1>2
<1>4. \A p \in Pages : buffer'[f][p] = IF SegmentOf(p) \in S THEN Null ELSE buffer[f][p]
  BY <1>1 DEF Dropped
<1>5. dirty'[f] = {} BY <1>1
<1>6. Dropped(f, S) \in [Pages -> Values \cup {Null}] BY <1>1 DEF Dropped
<1>7. ASSUME NEW p \in Pages
      PROVE  /\ View(f)'[p] = View(f)[p]
             /\ buffer'[f][p] # Null => buffer'[f][p] = disk'[f][p]
             /\ p >= diskLen[f] => buffer'[f][p] = Null
  BY <1>3, <1>4 DEF View, FileInv, BeyondEnd
<1>8. ASSUME NEW p \in Pages, NEW q \in Pages, SegmentOf(p) = SegmentOf(q),
             buffer'[f][p] # Null, q < diskLen[f]
      PROVE  buffer'[f][q] # Null
  BY <1>4, <1>8 DEF FileInv, WholeSegments
<1> QED BY <1>1, <1>2, <1>3, <1>5, <1>6, <1>7, <1>8 DEF FileStep

-----------------------------------------------------------------------------
(* One iteration of a transfer loop makes progress: the page it starts at  *)
(* is in the chunk, the chunk is no longer than what remains, and so the   *)
(* call ends or goes on with fewer pages.                                  *)
LEMMA AdvanceFacts ==
  ASSUME FileInv, call \in Calls, NEW kind \in {"read", "write", "copy"},
         call.pos < fileSize[call.file], call.pos + call.remain <= MaxPages,
         opened[call.file]
  PROVE  LET next == Advance(Chunk(call.file, call.pos, call.remain), kind) IN
         \/ next = NoCall
         \/ /\ next \in Calls
            /\ next.kind = kind /\ next.file = call.file
            /\ next.pos + next.remain = call.pos + call.remain
<1> DEFINE f == call.file
           P == Chunk(f, call.pos, call.remain)
<1>1. /\ f \in Files /\ call.pos \in 0 .. MaxPages /\ call.remain \in 1 .. MaxPages
      /\ call.val \in Values /\ MaxPages \in Nat
      /\ fileSize[f] = diskLen[f] /\ diskLen[f] \in 0 .. MaxPages
  BY FileAssumption DEF Calls, FileInv, FileTypes, LengthsAgree
<1>2. call.pos \in Pages BY <1>1 DEF Pages
<1>3. call.pos \in P
  <2>1. call.pos \in PagesOf(SegmentOf(call.pos)) BY <1>2 DEF PagesOf
  <2>2. ASSUME SegmentOf(call.pos) \in InIndex(f)
        PROVE  buffer[f][call.pos] # Null
    <3>1. PICK q \in Pages : SegmentOf(q) = SegmentOf(call.pos) /\ buffer[f][q] # Null
      BY <2>2 DEF InIndex, MappedPages, PagesOf
    <3> QED BY <3>1, <1>1, <1>2 DEF FileInv, WholeSegments
  <2> QED BY <2>1, <2>2, <1>1 DEF Chunk
<1>4. P \subseteq call.pos .. (call.pos + call.remain - 1)
  BY <1>1 DEF Chunk, PagesOf, Pages
<1>5. /\ IsFiniteSet(P) /\ Cardinality(P) \in Nat
      /\ Cardinality(P) <= call.remain /\ Cardinality(P) # 0
  <2> DEFINE a == call.pos
             b == call.pos + call.remain - 1
  <2>1. a \in Int /\ b \in Int /\ ~(a > b) /\ b - a + 1 = call.remain BY <1>1
  <2>2. P \subseteq a .. b BY <1>4
  <2> HIDE DEF a, b
  <2>3. IsFiniteSet(a .. b) /\ Cardinality(a .. b) = call.remain
    BY <2>1, FS_Interval
  <2>4. IsFiniteSet(P) /\ Cardinality(P) <= call.remain
    BY <2>2, <2>3, FS_Subset
  <2>5. Cardinality(P) \in Nat /\ Cardinality(P) # 0
    BY <2>4, <1>3, FS_CardinalityType, FS_EmptySet
  <2> QED BY <2>4, <2>5
<1> DEFINE n == Cardinality(P)
<1> HIDE DEF P, n
<1>6. /\ P # {} /\ n \in Nat /\ n <= call.remain /\ n # 0
      /\ Advance(P, kind) = IF n = call.remain THEN NoCall
                            ELSE [call EXCEPT !.kind = kind, !.pos = @ + n, !.remain = @ - n]
  BY <1>3, <1>5 DEF Advance, n
<1>7. CASE n # call.remain
  <2>1. Advance(P, kind) = [kind |-> kind, file |-> f, pos |-> call.pos + n,
                            remain |-> call.remain - n, val |-> call.val]
    <3>1. call = [kind |-> call.kind, file |-> f, pos |-> call.pos,
                  remain |-> call.remain, val |-> call.val]
      BY DEF Calls
    <3> QED BY <3>1, <1>6, <1>7, Zenon
  <2>2. call.pos + n \in 0 .. MaxPages /\ call.remain - n \in 1 .. MaxPages
    BY <1>1, <1>6, <1>7
  <2>3. Advance(P, kind) \in Calls BY <2>1, <2>2, <1>1 DEF Calls
  <2> QED BY <2>1, <2>3, <1>1, <1>6 DEF P
<1> QED BY <1>6, <1>7 DEF P

-----------------------------------------------------------------------------
(* Each action preserves FileInv and is a step, or a stutter, of PagedFile. *)
AbstractStep == [Abstract!Next]_(Abstract!vars)

LEMMA AbstractPages == Abstract!Pages = Pages
BY DEF Abstract!Pages, Pages

LEMMA NoCallNotCalls == NoCall \notin Calls /\ NoCall.kind = "none"
BY DEF NoCall, Calls

(* A step that writes no page leaves content and pending as they are.      *)
Content == [g \in Files |-> View(g)]

LEMMA NothingPending ==
  ASSUME FileTypes, NEW f \in Files, NEW v
  PROVE  pending = [pending EXCEPT ![f] =
                      [p \in Pages |-> IF p \in {} THEN @[p] \cup {v} ELSE @[p]]]
<1>1. pending[f] = [p \in Pages |-> pending[f][p]] BY DEF FileTypes
<1>2. [p \in Pages |-> IF p \in {} THEN pending[f][p] \cup {v} ELSE pending[f][p]] = pending[f]
  BY <1>1
<1>3. pending \in [Files -> [Pages -> SUBSET Values]] BY DEF FileTypes
<1> QED BY <1>2, <1>3

LEMMA FileStepNothing ==
  ASSUME FileInv, NEW f \in Files, NEW n \in 0 .. MaxPages, n >= diskLen[f],
         FileStep(f, {}, Zero, n), diskLen' = [diskLen EXCEPT ![f] = n]
  PROVE  /\ diskLen' \in [Files -> 0 .. MaxPages]
         /\ CleanMatchesDisk' /\ BeyondEnd' /\ WholeSegments'
         /\ Content' = Content
<1>1. Zero \in Values /\ {} \in SUBSET Pages BY FileAssumption
<1>2. /\ diskLen' \in [Files -> 0 .. MaxPages]
      /\ CleanMatchesDisk' /\ BeyondEnd' /\ WholeSegments'
  BY <1>1, FileStepInv
<1>3. \A g \in Files : View(g) = [p \in Pages |-> View(g)[p]]
                     /\ View(g)' = [p \in Pages |-> View(g)'[p]]
  BY DEF View
<1>4. \A g \in Files, p \in Pages : View(g)'[p] = View(g)[p]
  BY DEF FileStep, View
<1>5. \A g \in Files : View(g)' = View(g) BY <1>3, <1>4
<1> QED BY <1>2, <1>5 DEF Content

LEMMA OpenStep ==
  ASSUME FileInv, NEW f \in Files, Open(f)
  PROVE  FileInv' /\ AbstractStep
<1> DEFINE n == IF diskLen[f] = 0 THEN SegmentPages ELSE diskLen[f]
<1>1. /\ FileTypes /\ CleanMatchesDisk /\ DiskIsPending /\ LengthsAgree
      /\ BeyondEnd /\ WholeSegments
      /\ SegmentPages \in 1 .. MaxPages /\ MaxPages \in Nat
  BY FileAssumption DEF FileInv
<1>2. n \in 1 .. MaxPages /\ (diskLen[f] # 0 => n = diskLen[f])
  BY <1>1 DEF FileTypes
<1>3. n >= diskLen[f] BY <1>1, <1>2 DEF FileTypes
<1>4. /\ call = NoCall /\ ~opened[f]
      /\ opened' = [opened EXCEPT ![f] = TRUE]
      /\ diskLen' = [diskLen EXCEPT ![f] = n]
      /\ fileSize' = [fileSize EXCEPT ![f] = n]
      /\ buffer' = [buffer EXCEPT ![f] = [p \in Pages |-> Null]]
      /\ dirty' = [dirty EXCEPT ![f] = {}]
      /\ UNCHANGED <<disk, call, buff, pending>>
  BY DEF Open, Idle
<1>5. FileStep(f, {}, Zero, n)
  <2>1. \A p \in Pages : buffer[f][p] = Null /\ buffer'[f][p] = Null
    BY <1>1, <1>4 DEF LengthsAgree, FileTypes
  <2>2. \A p \in Pages : View(f)[p] = disk[f][p] /\ View(f)'[p] = disk[f][p]
    BY <2>1, <1>4 DEF View
  <2> QED BY <1>1, <1>4, <2>1, <2>2 DEF FileStep, FileTypes
<1>6. /\ diskLen' \in [Files -> 0 .. MaxPages]
      /\ CleanMatchesDisk' /\ BeyondEnd' /\ WholeSegments'
      /\ Content' = Content
  <2>1. n \in 0 .. MaxPages BY <1>1, <1>2
  <2> QED BY <2>1, <1>3, <1>4, <1>5, FileStepNothing
<1>7. FileTypes'
  BY <1>1, <1>2, <1>4, <1>5, <1>6 DEF FileTypes, FileStep
<1>8. DiskIsPending'
  <2>1. \A g \in Files : Content[g] = View(g) /\ Content'[g] = View(g)'
    BY DEF Content
  <2> QED BY <1>1, <1>4, <1>6, <2>1 DEF DiskIsPending
<1>9. LengthsAgree'
  <2>1. ASSUME NEW g \in Files
        PROVE  /\ opened'[g] => fileSize'[g] = diskLen'[g] /\ diskLen'[g] > 0
               /\ ~opened'[g] => \A p \in Pages : buffer'[g][p] = Null
    <3>1. CASE g = f BY <3>1, <1>1, <1>2, <1>4 DEF FileTypes
    <3>2. CASE g # f BY <3>2, <1>1, <1>4 DEF FileTypes, LengthsAgree
    <3> QED BY <3>1, <3>2
  <2> QED BY <2>1 DEF LengthsAgree
<1>10. CallFits' BY <1>4, NoCallNotCalls DEF CallFits
<1>11. Abstract!Open(f)
  <2>1. UNCHANGED <<[g \in Files |-> View(g)], pending, buff>>
    BY <1>4, <1>6 DEF Content
  <2> HIDE DEF n
  <2> QED BY <2>1, <1>2, <1>4 DEF Abstract!Open
<1> QED BY <1>6, <1>7, <1>8, <1>9, <1>10, <1>11
        DEF FileInv, AbstractStep, Abstract!Next

(* Growth, by setLength or inside write().                                 *)
LEMMA ResizeStep ==
  ASSUME FileInv, NEW f \in Files, NEW n \in Nat, NEW next, opened[f],
         position[f] = diskLen[f], n > fileSize[f], Resize(f, n, next),
         UNCHANGED <<buff, pending>>
  PROVE  /\ CleanMatchesDisk' /\ DiskIsPending' /\ LengthsAgree'
         /\ BeyondEnd' /\ WholeSegments'
         /\ next \in Calls \cup {NoCall} => FileTypes'
         /\ Abstract!Grow(f)
         /\ call' = next /\ diskLen'[f] = n /\ opened' = opened
<1>1. /\ FileTypes /\ CleanMatchesDisk /\ LengthsAgree /\ BeyondEnd /\ WholeSegments
      /\ fileSize[f] = diskLen[f] /\ diskLen[f] \in 0 .. MaxPages
      /\ Zero \in Values /\ MaxPages \in Nat
      /\ diskLen \in [Files -> 0 .. MaxPages]
  BY FileAssumption DEF FileInv, FileTypes, LengthsAgree
<1>2. /\ n <= MaxPages
      /\ diskLen' = [diskLen EXCEPT ![f] = n]
      /\ fileSize' = [fileSize EXCEPT ![f] = n]
      /\ opened' = opened /\ call' = next
      /\ FileStep(f, {}, Zero, n)
  BY <1>1, ResizeFacts
<1>3. n \in 0 .. MaxPages /\ n >= diskLen[f] BY <1>1, <1>2
<1>4. pending' = [pending EXCEPT ![f] =
                    [p \in Pages |-> IF p \in {} THEN @[p] \cup {Zero} ELSE @[p]]]
  BY <1>1, NothingPending
<1>5. /\ diskLen' \in [Files -> 0 .. MaxPages]
      /\ CleanMatchesDisk' /\ BeyondEnd' /\ WholeSegments'
      /\ Content' = Content
  BY <1>1, <1>2, <1>3, FileStepNothing
<1>6. /\ fileSize' \in [Files -> 0 .. MaxPages]
      /\ pending' \in [Files -> [Pages -> SUBSET Values]]
      /\ DiskIsPending' /\ LengthsAgree'
  BY <1>1, <1>2, <1>3, <1>4, OpenFileStepInv
<1>7. next \in Calls \cup {NoCall} => FileTypes'
  BY <1>1, <1>2, <1>5, <1>6 DEF FileTypes, FileStep
<1>8. Abstract!Grow(f)
  <2>1. n \in 1 .. MaxPages /\ n > diskLen[f] BY <1>1, <1>2
  <2> QED BY <2>1, <1>2, <1>5 DEF Abstract!Grow, Content
<1>9. diskLen'[f] = n BY <1>1, <1>2
<1> QED BY <1>2, <1>5, <1>6, <1>7, <1>8, <1>9

LEMMA SetLengthStep ==
  ASSUME GrowthAtEnd, FileInv, NEW f \in Files, NEW n \in 1 .. MaxPages, SetLength(f, n)
  PROVE  FileInv' /\ AbstractStep
<1>1. n \in Nat BY FileAssumption
<1>2. /\ opened[f] /\ n > fileSize[f] /\ position[f] = diskLen[f]
      /\ Resize(f, n, NoCall) /\ UNCHANGED <<buff, pending>>
  BY DEF SetLength
<1>3. /\ CleanMatchesDisk' /\ DiskIsPending' /\ LengthsAgree'
      /\ BeyondEnd' /\ WholeSegments' /\ FileTypes'
      /\ Abstract!Grow(f) /\ call' = NoCall
  BY <1>1, <1>2, ResizeStep
<1>4. CallFits' BY <1>3, NoCallNotCalls DEF CallFits
<1> QED BY <1>3, <1>4 DEF FileInv, AbstractStep, Abstract!Next

(* Steps that only start or end a call.                                    *)
LEMMA FilesUnchanged ==
  ASSUME FileInv, UNCHANGED <<fileVars, segVars, pending>>,
         call' \in Calls \cup {NoCall}, buff' \in [Pages -> Values], CallFits'
  PROVE  FileInv' /\ Content' = Content
<1>1. /\ UNCHANGED <<disk, diskLen, opened, fileSize, position, buffer, dirty, pending>>
  BY DEF fileVars, segVars
<1>2. \A g \in Files : View(g)' = View(g) BY <1>1 DEF View
<1>3. FileTypes' BY <1>1 DEF FileInv, FileTypes
<1>4. CleanMatchesDisk' BY <1>1 DEF FileInv, CleanMatchesDisk
<1>5. DiskIsPending' BY <1>1, <1>2 DEF FileInv, DiskIsPending
<1>6. LengthsAgree' BY <1>1 DEF FileInv, LengthsAgree
<1>7. BeyondEnd' BY <1>1 DEF FileInv, BeyondEnd
<1>8. WholeSegments' BY <1>1 DEF FileInv, WholeSegments
<1> QED BY <1>2, <1>3, <1>4, <1>5, <1>6, <1>7, <1>8 DEF FileInv, Content

LEMMA BeginReadStep ==
  ASSUME FileInv, NEW f \in Files, NEW pos \in Pages, NEW n \in 1 .. MaxCount,
         BeginRead(f, pos, n)
  PROVE  FileInv' /\ AbstractStep
<1>1. /\ Zero \in Values /\ MaxPages \in Nat /\ MaxCount \in 1 .. MaxPages
  BY FileAssumption
<1>2. /\ opened[f] /\ pos + n <= MaxPages
      /\ call' = [kind |-> "read", file |-> f, pos |-> pos, remain |-> n, val |-> Zero]
      /\ buff' = [p \in Pages |-> Zero]
      /\ UNCHANGED <<fileVars, segVars, pending>>
  BY DEF BeginRead
<1>3. pos \in 0 .. MaxPages /\ n \in 1 .. MaxPages BY <1>1 DEF Pages
<1>4. call' \in Calls BY <1>1, <1>2, <1>3 DEF Calls
<1>5. CallFits' BY <1>2 DEF CallFits, fileVars
<1>6. FileInv' /\ Content' = Content BY <1>1, <1>2, <1>4, <1>5, FilesUnchanged
<1>7. UNCHANGED <<opened, diskLen, [g \in Files |-> View(g)], pending>>
  BY <1>2, <1>6 DEF fileVars, Content
<1>8. Abstract!NewBuffer BY <1>2, <1>7, AbstractPages DEF Abstract!NewBuffer
<1> QED BY <1>6, <1>8 DEF AbstractStep, Abstract!Next

LEMMA BeginWriteStep ==
  ASSUME GrowthAtEnd, FileInv, NEW f \in Files, NEW pos \in Pages,
         NEW n \in 1 .. MaxCount, NEW v \in Values, BeginWrite(f, pos, n, v)
  PROVE  FileInv' /\ AbstractStep
<1>1. /\ MaxPages \in Nat /\ MaxCount \in 1 .. MaxPages BY FileAssumption
<1>2. /\ opened[f] /\ pos + n <= MaxPages
      /\ \/ pos + n < fileSize[f]
         \/ /\ position[f] = diskLen[f]
            /\ pos + n < fileSize[f] + SegmentPages
            /\ fileSize[f] + SegmentPages <= MaxPages
      /\ call' = [kind |-> "write", file |-> f, pos |-> pos, remain |-> n, val |-> v]
      /\ UNCHANGED <<fileVars, segVars, buff, pending>>
  BY DEF BeginWrite
<1>3. pos \in 0 .. MaxPages /\ n \in 1 .. MaxPages BY <1>1 DEF Pages
<1>4. call' \in Calls BY <1>2, <1>3 DEF Calls
<1>5. fileSize[f] = diskLen[f] BY <1>2 DEF FileInv, LengthsAgree
<1>6. CallFits' BY <1>2, <1>5 DEF CallFits, fileVars
<1>7. buff' \in [Pages -> Values] BY <1>2 DEF FileInv, FileTypes
<1>8. FileInv' /\ Content' = Content BY <1>2, <1>4, <1>6, <1>7, FilesUnchanged
<1>9. UNCHANGED Abstract!vars
  BY <1>2, <1>8 DEF fileVars, Content, Abstract!vars
<1> QED BY <1>8, <1>9 DEF AbstractStep

(* getSegment past the end of the file throws, and the call is over.       *)
LEMMA PastEndStep ==
  ASSUME FileInv, call' = NoCall, UNCHANGED <<fileVars, segVars, buff, pending>>
  PROVE  FileInv' /\ AbstractStep
<1>1. buff' \in [Pages -> Values] BY DEF FileInv, FileTypes
<1>2. CallFits' BY NoCallNotCalls DEF CallFits
<1>3. FileInv' /\ Content' = Content BY <1>1, <1>2, FilesUnchanged
<1>4. UNCHANGED Abstract!vars BY <1>3 DEF fileVars, Content, Abstract!vars
<1> QED BY <1>3, <1>4 DEF AbstractStep

LEMMA CallFacts ==
  ASSUME FileInv, call.kind \in {"read", "write", "copy"}
  PROVE  /\ call \in Calls /\ call.file \in Files /\ opened[call.file]
         /\ call.val \in Values /\ call.pos \in Nat /\ call.remain \in Nat
         /\ call.pos + call.remain <= MaxPages
         /\ fileSize[call.file] = diskLen[call.file]
         /\ diskLen[call.file] \in 0 .. MaxPages
         /\ call.pos < fileSize[call.file] =>
              call.pos \in Pages /\ SegmentOf(call.pos) \in SegmentNos
<1>1. call \in Calls BY NoCallNotCalls DEF FileInv, FileTypes
<1>2. /\ call.file \in Files /\ call.pos \in 0 .. MaxPages
      /\ call.remain \in 1 .. MaxPages /\ call.val \in Values
  BY <1>1 DEF Calls
<1>3. opened[call.file] /\ call.pos + call.remain <= MaxPages
  BY <1>1 DEF FileInv, CallFits
<1>4. fileSize[call.file] = diskLen[call.file] /\ diskLen[call.file] \in 0 .. MaxPages
  BY <1>2, <1>3 DEF FileInv, LengthsAgree, FileTypes
<1>5. call.pos < fileSize[call.file] =>
        call.pos \in Pages /\ SegmentOf(call.pos) \in SegmentNos
  BY <1>2, <1>4, FileAssumption, SegmentOfType DEF Pages
<1> QED BY <1>1, <1>2, <1>3, <1>4, <1>5, FileAssumption

LEMMA ReadStepStep ==
  ASSUME FileInv, ReadStep
  PROVE  FileInv' /\ AbstractStep
<1>0. call.kind = "read" BY DEF ReadStep
<1>f. PICK f \in Files : f = call.file BY <1>0, CallFacts
<1>P. PICK P \in SUBSET Pages : P = Chunk(f, call.pos, call.remain)
  BY DEF Chunk, PagesOf
<1>i. PICK i : i = SegmentOf(call.pos) OBVIOUS
<1>1. /\ UNCHANGED pending
      /\ \/ /\ call' = NoCall
            /\ UNCHANGED <<fileVars, segVars, buff>>
         \/ /\ call.pos < fileSize[f]
            /\ GetSegment(f, i, {}, Zero)
            /\ buff' = [p \in Pages |-> IF p \in P THEN buffer'[f][p] ELSE buff[p]]
            /\ call' = Advance(P, "read")
  BY <1>f, <1>P, <1>i DEF ReadStep
<1>2. CASE call' = NoCall /\ UNCHANGED <<fileVars, segVars, buff>>
  BY <1>1, <1>2, PastEndStep
<1>3. CASE /\ call.pos < fileSize[f]
           /\ GetSegment(f, i, {}, Zero)
           /\ buff' = [p \in Pages |-> IF p \in P THEN buffer'[f][p] ELSE buff[p]]
           /\ call' = Advance(P, "read")
  <2>1. /\ call \in Calls /\ f \in Files /\ opened[f] /\ i \in SegmentNos
        /\ call.pos + call.remain <= MaxPages
        /\ fileSize[f] = diskLen[f] /\ diskLen[f] \in 0 .. MaxPages
        /\ diskLen[f] >= diskLen[f]
    BY <1>0, <1>f, <1>i, <1>3, CallFacts, FileAssumption
  <2>2. UNCHANGED <<opened, diskLen, fileSize>> BY <1>3 DEF GetSegment
  <2>3. \A p \in P : /\ p \in PagesOf(i)
                     /\ IF i \in InIndex(f) \ Evicted(f) THEN buffer[f][p] # Null
                        ELSE p < fileSize[f]
    BY <1>P, <1>i DEF Chunk
  <2>4. /\ FileStep(f, {}, Zero, diskLen[f])
        /\ \A p \in PagesOf(i) :
              (IF i \in InIndex(f) \ Evicted(f) THEN buffer[f][p] # Null
               ELSE p < fileSize[f]) => buffer'[f][p] # Null
    BY <1>3, <2>1, GetSegmentFacts, FileAssumption DEF FileInv
  <2>5. diskLen' = [diskLen EXCEPT ![f] = diskLen[f]]
        /\ fileSize' = [fileSize EXCEPT ![f] = diskLen[f]]
    BY <2>1, <2>2 DEF FileInv, FileTypes
  <2>6. /\ diskLen' \in [Files -> 0 .. MaxPages]
        /\ CleanMatchesDisk' /\ BeyondEnd' /\ WholeSegments'
        /\ Content' = Content
    BY <2>1, <2>4, <2>5, FileStepNothing
  <2>7. pending' = [pending EXCEPT ![f] =
                      [p \in Pages |-> IF p \in {} THEN @[p] \cup {Zero} ELSE @[p]]]
    BY <1>1, <2>1, NothingPending DEF FileInv
  <2>8. /\ fileSize' \in [Files -> 0 .. MaxPages]
        /\ pending' \in [Files -> [Pages -> SUBSET Values]]
        /\ DiskIsPending' /\ LengthsAgree'
    BY <2>1, <2>2, <2>4, <2>5, <2>7, OpenFileStepInv, FileAssumption
  <2>9. \A p \in P : /\ p \in Pages /\ buffer'[f][p] = View(f)[p]
                     /\ p < diskLen[f]
    <3>1. \A p \in P : p \in Pages /\ p \in Nat /\ buffer'[f][p] # Null
      BY <2>3, <2>4 DEF PagesOf, Pages
    <3>2. \A p \in P : View(f)'[p] = View(f)[p] BY <3>1, <2>4 DEF FileStep
    <3>3. \A p \in P : View(f)'[p] = buffer'[f][p] BY <3>1 DEF View
    <3>4. \A p \in P : ~(p >= diskLen[f]) BY <3>1, <2>4 DEF FileStep
    <3> QED BY <2>1, <3>1, <3>2, <3>3, <3>4
  <2>10. buff' = [p \in Pages |-> IF p \in P THEN Content[f][p] ELSE buff[p]]
    BY <1>3, <2>1, <2>9 DEF Content
  <2>11. buff' \in [Pages -> Values]
    BY <2>1, <2>10, ViewType DEF Content, FileInv, FileTypes
  <2>12. \/ call' = NoCall
         \/ /\ call' \in Calls /\ call'.kind = "read" /\ call'.file = f
            /\ call'.pos + call'.remain = call.pos + call.remain
    BY <1>f, <1>P, <1>3, <2>1, AdvanceFacts
  <2>13. FileTypes' BY <2>2, <2>4, <2>6, <2>8, <2>11, <2>12
                    DEF FileInv, FileTypes, FileStep
  <2>14. CallFits' BY <2>1, <2>2, <2>12, NoCallNotCalls DEF CallFits
  <2>15. Abstract!Read(f, P)
    <3>1. UNCHANGED <<opened, diskLen, [g \in Files |-> View(g)], pending>>
      BY <1>1, <2>2, <2>6 DEF Content
    <3>2. P \subseteq {p \in Pages : p < diskLen[f]} BY <2>9
    <3> QED BY <2>1, <2>10, <3>1, <3>2, AbstractPages DEF Abstract!Read, Content
  <2>16. P \in SUBSET Abstract!Pages BY <2>9, AbstractPages
  <2> QED BY <2>1, <2>6, <2>8, <2>13, <2>14, <2>15, <2>16
          DEF FileInv, AbstractStep, Abstract!Next
<1> QED BY <1>1, <1>2, <1>3

LEMMA WriteCheckStep ==
  ASSUME FileInv, WriteCheck
  PROVE  FileInv' /\ AbstractStep
<1>0. call.kind = "write" BY DEF WriteCheck
<1>f. PICK f \in Files : f = call.file BY <1>0, CallFacts
<1>n. PICK n : n = fileSize[f] + SegmentPages OBVIOUS
<1>c. PICK next : next = [call EXCEPT !.kind = "copy"] OBVIOUS
<1>1. /\ UNCHANGED <<buff, pending>>
      /\ \/ /\ call.pos + call.remain >= fileSize[f]
            /\ Resize(f, n, next)
         \/ /\ call.pos + call.remain < fileSize[f]
            /\ call' = next
            /\ UNCHANGED <<fileVars, segVars>>
  BY <1>f, <1>n, <1>c DEF WriteCheck
<1>2. /\ call \in Calls /\ f \in Files /\ opened[f]
      /\ call.pos \in Nat /\ call.remain \in Nat
      /\ call.pos + call.remain <= MaxPages
      /\ fileSize[f] = diskLen[f] /\ diskLen[f] \in 0 .. MaxPages
      /\ SegmentPages \in Nat \ {0} /\ MaxPages \in Nat
  BY <1>0, <1>f, CallFacts, FileAssumption
<1>3. /\ next \in Calls /\ next.kind = "copy" /\ next.file = f
      /\ next.pos = call.pos /\ next.remain = call.remain
  BY <1>f, <1>c, <1>2 DEF Calls
<1>4. CASE call.pos + call.remain >= fileSize[f] /\ Resize(f, n, next)
  <2>1. /\ position[f] = diskLen[f]
        /\ call.pos + call.remain < diskLen[f] + SegmentPages
    BY <1>0, <1>f, <1>2, <1>4 DEF FileInv, CallFits
  <2>2. n \in Nat /\ n > fileSize[f] BY <1>n, <1>2
  <2>3. /\ CleanMatchesDisk' /\ DiskIsPending' /\ LengthsAgree'
        /\ BeyondEnd' /\ WholeSegments' /\ FileTypes'
        /\ Abstract!Grow(f)
        /\ call' = next /\ diskLen'[f] = n /\ opened' = opened
    BY <1>1, <1>2, <1>3, <1>4, <2>1, <2>2, ResizeStep
  <2>4. CallFits' BY <1>n, <1>2, <1>3, <2>1, <2>3 DEF CallFits
  <2> QED BY <1>2, <2>3, <2>4 DEF FileInv, AbstractStep, Abstract!Next
<1>5. CASE /\ call.pos + call.remain < fileSize[f]
           /\ call' = next
           /\ UNCHANGED <<fileVars, segVars>>
  <2>1. CallFits' BY <1>2, <1>3, <1>5 DEF CallFits, fileVars
  <2>2. buff' \in [Pages -> Values] BY <1>1 DEF FileInv, FileTypes
  <2>3. FileInv' /\ Content' = Content
    BY <1>1, <1>3, <1>5, <2>1, <2>2, FilesUnchanged
  <2>4. UNCHANGED Abstract!vars
    BY <1>1, <1>5, <2>3 DEF fileVars, Content, Abstract!vars
  <2> QED BY <2>3, <2>4 DEF AbstractStep
<1> QED BY <1>1, <1>4, <1>5

LEMMA WriteCopyStep ==
  ASSUME FileInv, WriteCopy
  PROVE  FileInv' /\ AbstractStep
<1>0. call.kind = "copy" BY DEF WriteCopy
<1>f. PICK f \in Files : f = call.file BY <1>0, CallFacts
<1>v. PICK v \in Values : v = call.val BY <1>0, CallFacts
<1>P. PICK P \in SUBSET Pages : P = Chunk(f, call.pos, call.remain)
  BY DEF Chunk, PagesOf
<1>i. PICK i : i = SegmentOf(call.pos) OBVIOUS
<1>1. /\ UNCHANGED buff
      /\ \/ /\ call' = NoCall
            /\ UNCHANGED <<fileVars, segVars, pending>>
         \/ /\ call.pos < fileSize[f]
            /\ GetSegment(f, i, P, v)
            /\ pending' = [pending EXCEPT ![f] = [p \in Pages |->
                             IF p \in P THEN @[p] \cup {v} ELSE @[p]]]
            /\ call' = Advance(P, "write")
  BY <1>f, <1>v, <1>P, <1>i DEF WriteCopy
<1>2. CASE call' = NoCall /\ UNCHANGED <<fileVars, segVars, pending>>
  BY <1>1, <1>2, PastEndStep
<1>3. CASE /\ call.pos < fileSize[f]
           /\ GetSegment(f, i, P, v)
           /\ pending' = [pending EXCEPT ![f] = [p \in Pages |->
                            IF p \in P THEN @[p] \cup {v} ELSE @[p]]]
           /\ call' = Advance(P, "write")
  <2>1. /\ call \in Calls /\ opened[f] /\ i \in SegmentNos
        /\ call.pos + call.remain <= MaxPages
        /\ call.pos + call.remain < diskLen[f]
        /\ fileSize[f] = diskLen[f] /\ diskLen[f] \in 0 .. MaxPages
        /\ diskLen[f] >= diskLen[f]
    BY <1>0, <1>f, <1>i, <1>3, CallFacts, FileAssumption DEF FileInv, CallFits
  <2>2. UNCHANGED <<opened, diskLen, fileSize>> BY <1>3 DEF GetSegment
  <2>3. P \in SUBSET {p \in PagesOf(i) :
               IF i \in InIndex(f) \ Evicted(f) THEN buffer[f][p] # Null
               ELSE p < fileSize[f]}
    BY <1>P, <1>i DEF Chunk
  <2>4. FileStep(f, P, v, diskLen[f])
    BY <1>3, <2>1, <2>3, GetSegmentFacts DEF FileInv
  <2>5. diskLen' = [diskLen EXCEPT ![f] = diskLen[f]]
        /\ fileSize' = [fileSize EXCEPT ![f] = diskLen[f]]
    BY <2>1, <2>2 DEF FileInv, FileTypes
  <2>6. /\ diskLen' \in [Files -> 0 .. MaxPages]
        /\ CleanMatchesDisk' /\ BeyondEnd' /\ WholeSegments'
    BY <2>1, <2>4, <2>5, FileStepInv
  <2>8. /\ fileSize' \in [Files -> 0 .. MaxPages]
        /\ pending' \in [Files -> [Pages -> SUBSET Values]]
        /\ DiskIsPending' /\ LengthsAgree'
    BY <1>3, <2>1, <2>2, <2>4, <2>5, OpenFileStepInv
  <2>9. P \subseteq {p \in Pages : p < diskLen[f]}
    <3>1. \A p \in P : p \in Pages /\ ~(p >= diskLen[f])
      BY <2>4 DEF FileStep
    <3> QED BY <2>1, <3>1, FileAssumption DEF Pages
  <2>10. Content' = [Content EXCEPT ![f] = [p \in Pages |-> IF p \in P THEN v ELSE @[p]]]
    <3>1. \A g \in Files : /\ View(g) = [p \in Pages |-> View(g)[p]]
                           /\ View(g)' = [p \in Pages |-> View(g)'[p]]
      BY DEF View
    <3>2. \A g \in Files, p \in Pages :
            View(g)'[p] = IF g = f /\ p \in P THEN v ELSE View(g)[p]
      BY <2>4 DEF FileStep, View
    <3>3. \A g \in Files : g # f => View(g)' = View(g) BY <3>1, <3>2
    <3>4. View(f)' = [p \in Pages |-> IF p \in P THEN v ELSE View(f)[p]]
      BY <3>1, <3>2
    <3> QED BY <3>3, <3>4 DEF Content
  <2>11. buff' \in [Pages -> Values] BY <1>1 DEF FileInv, FileTypes
  <2>12. \/ call' = NoCall
         \/ /\ call' \in Calls /\ call'.kind = "write" /\ call'.file = f
            /\ call'.pos + call'.remain = call.pos + call.remain
    BY <1>f, <1>P, <1>3, <2>1, AdvanceFacts
  <2>13. FileTypes' BY <2>2, <2>4, <2>6, <2>8, <2>11, <2>12
                    DEF FileInv, FileTypes, FileStep
  <2>14. CallFits' BY <2>1, <2>2, <2>12, NoCallNotCalls DEF CallFits
  <2>15. Abstract!Write(f, P, v)
    BY <1>1, <1>3, <2>1, <2>2, <2>9, <2>10, AbstractPages DEF Abstract!Write, Content
  <2> QED BY <2>6, <2>8, <2>13, <2>14, <2>15, AbstractPages
          DEF FileInv, AbstractStep, Abstract!Next
<1> QED BY <1>1, <1>2, <1>3

(* sync() and close().                                                     *)
LEMMA WriteBackStep ==
  ASSUME FileInv, NEW f \in Files, NEW S, opened[f],
         disk' = [disk EXCEPT ![f] = Flushed(f, SegmentNos, disk[f])],
         buffer' = [buffer EXCEPT ![f] = Dropped(f, S)],
         dirty' = [dirty EXCEPT ![f] = {}],
         pending' = [pending EXCEPT ![f] = [p \in Pages |-> {View(f)[p]}]],
         UNCHANGED <<diskLen, call, buff>>
  PROVE  /\ disk' \in [Files -> [Pages -> Values]]
         /\ buffer' \in [Files -> [Pages -> Values \cup {Null}]]
         /\ dirty' \in [Files -> SUBSET SegmentNos]
         /\ pending' \in [Files -> [Pages -> SUBSET Values]]
         /\ CleanMatchesDisk' /\ BeyondEnd' /\ WholeSegments' /\ DiskIsPending'
         /\ Content' = Content
         /\ pending' = [pending EXCEPT ![f] = [p \in Pages |-> {Content[f][p]}]]
<1>1. /\ FileStep(f, {}, Zero, diskLen[f])
      /\ \A p \in Pages : disk'[f][p] = View(f)[p]
  BY WriteBackFacts
<1>2. /\ diskLen[f] \in 0 .. MaxPages /\ diskLen[f] >= diskLen[f]
      /\ diskLen' = [diskLen EXCEPT ![f] = diskLen[f]]
  BY FileAssumption DEF FileInv, FileTypes
<1>3. /\ CleanMatchesDisk' /\ BeyondEnd' /\ WholeSegments'
      /\ Content' = Content
  BY <1>1, <1>2, FileStepNothing
<1>4. /\ \A g \in Files : Content[g] = View(g) /\ Content'[g] = View(g)'
      /\ View(f) \in [Pages -> Values]
  BY ViewType DEF Content, FileInv
<1>5. pending \in [Files -> [Pages -> SUBSET Values]] BY DEF FileInv, FileTypes
<1>6. pending' \in [Files -> [Pages -> SUBSET Values]] BY <1>4, <1>5
<1>7. DiskIsPending'
  <2>1. ASSUME NEW g \in Files, NEW p \in Pages
        PROVE  disk'[g][p] \in pending'[g][p] /\ View(g)'[p] \in pending'[g][p]
    <3>1. View(g)'[p] = View(g)[p] BY <1>3, <1>4
    <3>2. CASE g = f BY <3>1, <3>2, <1>1, <1>5
    <3>3. CASE g # f
      <4>1. disk'[g] = disk[g] /\ pending'[g] = pending[g]
        BY <3>3, <1>1, <1>5 DEF FileStep
      <4> QED BY <3>1, <4>1 DEF FileInv, DiskIsPending
    <3> QED BY <3>2, <3>3
  <2> QED BY <2>1 DEF DiskIsPending
<1> QED BY <1>1, <1>3, <1>4, <1>6, <1>7 DEF FileStep

LEMMA SyncStep ==
  ASSUME FileInv, NEW f \in Files, Sync(f)
  PROVE  FileInv' /\ AbstractStep
<1>1. /\ call = NoCall /\ opened[f]
      /\ disk' = [disk EXCEPT ![f] = Flushed(f, SegmentNos, disk[f])]
      /\ buffer' = [buffer EXCEPT ![f] = Dropped(f, Evicted(f))]
      /\ dirty' = [dirty EXCEPT ![f] = {}]
      /\ pending' = [pending EXCEPT ![f] = [p \in Pages |-> {View(f)[p]}]]
      /\ UNCHANGED <<diskLen, opened, fileSize, call, buff>>
  BY DEF Sync, Idle
<1>2. /\ disk' \in [Files -> [Pages -> Values]]
      /\ buffer' \in [Files -> [Pages -> Values \cup {Null}]]
      /\ dirty' \in [Files -> SUBSET SegmentNos]
      /\ pending' \in [Files -> [Pages -> SUBSET Values]]
      /\ CleanMatchesDisk' /\ BeyondEnd' /\ WholeSegments' /\ DiskIsPending'
      /\ Content' = Content
      /\ pending' = [pending EXCEPT ![f] = [p \in Pages |-> {Content[f][p]}]]
  BY <1>1, WriteBackStep
<1>3. FileTypes' BY <1>1, <1>2 DEF FileInv, FileTypes
<1>4. LengthsAgree'
  BY <1>1, WriteBackFacts DEF FileInv, LengthsAgree, FileStep
<1>5. CallFits' BY <1>1, NoCallNotCalls DEF CallFits
<1>6. Abstract!Sync(f)
  BY <1>1, <1>2, AbstractPages DEF Abstract!Sync, Content
<1> QED BY <1>2, <1>3, <1>4, <1>5, <1>6 DEF FileInv, AbstractStep, Abstract!Next

LEMMA CloseStep ==
  ASSUME FileInv, NEW f \in Files, Close(f)
  PROVE  FileInv' /\ AbstractStep
<1>1. /\ call = NoCall /\ opened[f]
      /\ disk' = [disk EXCEPT ![f] = Flushed(f, SegmentNos, disk[f])]
      /\ opened' = [opened EXCEPT ![f] = FALSE]
      /\ fileSize' = [fileSize EXCEPT ![f] = 0]
      /\ buffer' = [buffer EXCEPT ![f] = [p \in Pages |-> Null]]
      /\ dirty' = [dirty EXCEPT ![f] = {}]
      /\ pending' = [pending EXCEPT ![f] = [p \in Pages |-> {View(f)[p]}]]
      /\ UNCHANGED <<diskLen, call, buff>>
  BY DEF Close, Idle
<1>2. Dropped(f, SegmentNos) = [p \in Pages |-> Null]
  BY SegmentOfType DEF Dropped
<1>3. buffer' = [buffer EXCEPT ![f] = Dropped(f, SegmentNos)] BY <1>1, <1>2
<1>4. /\ disk' \in [Files -> [Pages -> Values]]
      /\ buffer' \in [Files -> [Pages -> Values \cup {Null}]]
      /\ dirty' \in [Files -> SUBSET SegmentNos]
      /\ pending' \in [Files -> [Pages -> SUBSET Values]]
      /\ CleanMatchesDisk' /\ BeyondEnd' /\ WholeSegments' /\ DiskIsPending'
      /\ Content' = Content
      /\ pending' = [pending EXCEPT ![f] = [p \in Pages |-> {Content[f][p]}]]
  BY <1>1, <1>3, WriteBackStep
<1>5. FileTypes' BY <1>1, <1>4, FileAssumption DEF FileInv, FileTypes
<1>6. LengthsAgree'
  <2>1. ASSUME NEW g \in Files
        PROVE  /\ opened'[g] => fileSize'[g] = diskLen'[g] /\ diskLen'[g] > 0
               /\ ~opened'[g] => \A p \in Pages : buffer'[g][p] = Null
    <3>1. CASE g = f BY <3>1, <1>1 DEF FileInv, FileTypes
    <3>2. CASE g # f BY <3>2, <1>1 DEF FileInv, FileTypes, LengthsAgree
    <3> QED BY <3>1, <3>2
  <2> QED BY <2>1 DEF LengthsAgree
<1>7. CallFits' BY <1>1, NoCallNotCalls DEF CallFits
<1>8. Abstract!Close(f)
  BY <1>1, <1>4, AbstractPages DEF Abstract!Close, Content
<1> QED BY <1>4, <1>5, <1>6, <1>7, <1>8 DEF FileInv, AbstractStep, Abstract!Next

LEMMA CrashStep ==
  ASSUME FileInv, NEW f \in Files, NEW k \in 0 .. MaxPages, Crash(f, k)
  PROVE  FileInv' /\ AbstractStep
<1> DEFINE S == {i \in SegmentNos : i < k}
<1>1. /\ disk' = [disk EXCEPT ![f] = Flushed(f, S, disk[f])]
      /\ opened' = [g \in Files |-> FALSE]
      /\ fileSize' = [g \in Files |-> 0]
      /\ buffer' = [g \in Files |-> [p \in Pages |-> Null]]
      /\ dirty' = [g \in Files |-> {}]
      /\ call' = NoCall
      /\ pending' = [g \in Files |-> [p \in Pages |-> {disk'[g][p]}]]
      /\ UNCHANGED <<diskLen, buff>>
  BY DEF Crash
<1> HIDE DEF S
<1>2. /\ disk \in [Files -> [Pages -> Values]]
      /\ \A g \in Files : diskLen[g] \in Nat
      /\ MaxPages \in Nat
  BY FileAssumption DEF FileInv, FileTypes
<1>3. /\ Flushed(f, S, disk[f]) \in [Pages -> Values]
      /\ \A p \in Pages : Flushed(f, S, disk[f])[p] \in {disk[f][p], View(f)[p]}
  BY FlushedFacts DEF FileInv
<1>4. disk' \in [Files -> [Pages -> Values]] BY <1>1, <1>2, <1>3
<1>5. \A g \in Files, p \in Pages : disk'[g][p] \in {disk[g][p], View(g)[p]}
  BY <1>1, <1>2, <1>3
<1>6. \A g \in Files, p \in Pages : buffer'[g][p] = Null BY <1>1
<1>7. \A g \in Files : View(g)' = disk'[g]
  <2>1. \A g \in Files : View(g)' = [p \in Pages |-> disk'[g][p]] BY <1>6 DEF View
  <2> QED BY <1>4, <2>1
<1>8. /\ FileTypes' /\ LengthsAgree'
  <2>1. 0 \in 0 .. MaxPages BY <1>2
  <2>2. pending' \in [Files -> [Pages -> SUBSET Values]] BY <1>1, <1>4
  <2>3. buffer' \in [Files -> [Pages -> Values \cup {Null}]] BY <1>1
  <2> QED BY <1>1, <1>4, <1>6, <2>1, <2>2, <2>3 DEF FileInv, FileTypes, LengthsAgree
<1>9. CleanMatchesDisk' BY <1>6 DEF CleanMatchesDisk
<1>10. DiskIsPending' BY <1>1, <1>7 DEF DiskIsPending
<1>11. BeyondEnd'
  <2>1. ASSUME NEW g \in Files, NEW p \in Pages, p >= diskLen[g]
        PROVE  disk'[g][p] = Zero
    <3>1. disk[g][p] = Zero /\ buffer[g][p] = Null
      BY <2>1 DEF FileInv, BeyondEnd
    <3> QED BY <3>1, <1>5 DEF View
  <2> QED BY <2>1, <1>1, <1>6 DEF BeyondEnd
<1>12. WholeSegments' BY <1>6 DEF WholeSegments
<1>13. CallFits' BY <1>1, NoCallNotCalls DEF CallFits
<1>14. Abstract!Crash
  <2>1. Content' = disk'
    <3>1. disk' = [g \in Files |-> disk'[g]] BY <1>4
    <3> QED BY <3>1, <1>7 DEF Content
  <2>2. Content' \in [Files -> [Pages -> Values]] BY <2>1, <1>4
  <2>3. \A g \in Files, p \in Pages : Content'[g][p] \in pending[g][p]
    BY <2>1, <1>5 DEF FileInv, DiskIsPending
  <2>4. pending' = [g \in Files |-> [p \in Pages |-> {Content'[g][p]}]]
    BY <2>1, <1>1
  <2> QED BY <2>2, <2>3, <2>4, <1>1, AbstractPages DEF Abstract!Crash, Content
<1> QED BY <1>8, <1>9, <1>10, <1>11, <1>12, <1>13, <1>14
        DEF FileInv, AbstractStep, Abstract!Next

-----------------------------------------------------------------------------
LEMMA InitFileInv == Init => FileInv /\ Abstract!Init
<1> SUFFICES ASSUME Init PROVE FileInv /\ Abstract!Init OBVIOUS
<1>1. /\ \A f \in Files, p \in Pages : /\ disk[f][p] = Zero /\ buffer[f][p] = Null
                                       /\ pending[f][p] = {Zero}
      /\ \A f \in Files : diskLen[f] = 0 /\ opened[f] = FALSE
      /\ call = NoCall /\ Zero \in Values /\ 0 \in 0 .. MaxPages
  BY FileAssumption DEF Init
<1>2. \A f \in Files : View(f) = [p \in Pages |-> Zero] BY <1>1 DEF View
<1>3. FileTypes BY <1>1 DEF Init, FileTypes
<1>4. CleanMatchesDisk /\ LengthsAgree /\ BeyondEnd /\ WholeSegments
  BY <1>1 DEF CleanMatchesDisk, LengthsAgree, BeyondEnd, WholeSegments
<1>5. DiskIsPending BY <1>1, <1>2 DEF DiskIsPending
<1>6. CallFits BY <1>1, NoCallNotCalls DEF CallFits
<1>7. Abstract!Init BY <1>2, AbstractPages DEF Init, Abstract!Init
<1> QED BY <1>3, <1>4, <1>5, <1>6, <1>7 DEF FileInv

LEMMA NextFileInv ==
  ASSUME GrowthAtEnd, FileInv, Next
  PROVE  FileInv' /\ AbstractStep
<1>1. CASE \E f \in Files : Open(f) BY <1>1, OpenStep
<1>2. CASE \E f \in Files, n \in 1 .. MaxPages : SetLength(f, n)
  BY <1>2, SetLengthStep
<1>3. CASE \E f \in Files, pos \in Pages, n \in 1 .. MaxCount : BeginRead(f, pos, n)
  BY <1>3, BeginReadStep
<1>4. CASE \E f \in Files, pos \in Pages, n \in 1 .. MaxCount, v \in Values :
             BeginWrite(f, pos, n, v)
  BY <1>4, BeginWriteStep
<1>5. CASE \E f \in Files : Sync(f) BY <1>5, SyncStep
<1>6. CASE \E f \in Files : Close(f) BY <1>6, CloseStep
<1>7. CASE \E f \in Files, k \in 0 .. MaxPages : Crash(f, k) BY <1>7, CrashStep
<1>8. CASE ReadStep BY <1>8, ReadStepStep
<1>9. CASE WriteCheck BY <1>9, WriteCheckStep
<1>10. CASE WriteCopy BY <1>10, WriteCopyStep
<1> QED BY <1>1, <1>2, <1>3, <1>4, <1>5, <1>6, <1>7, <1>8, <1>9, <1>10 DEF Next

LEMMA StutterFileInv ==
  ASSUME FileInv, UNCHANGED vars
  PROVE  FileInv' /\ AbstractStep
<1>1. UNCHANGED <<fileVars, segVars, call, buff, pending>> BY DEF vars
<1>2. UNCHANGED <<disk, diskLen, opened, fileSize, position, buffer, dirty>>
  BY <1>1 DEF fileVars, segVars
<1>3. call' \in Calls \cup {NoCall} /\ buff' \in [Pages -> Values]
  BY <1>1 DEF FileInv, FileTypes
<1>4. CallFits' BY <1>1, <1>2 DEF FileInv, CallFits
<1>5. FileInv' /\ Content' = Content BY <1>1, <1>3, <1>4, FilesUnchanged
<1>6. UNCHANGED Abstract!vars BY <1>1, <1>2, <1>5 DEF Content, Abstract!vars
<1> QED BY <1>5, <1>6 DEF AbstractStep

(* FileInv is an invariant where files grow only at the end of their       *)
(* descriptor (GrowthAtEnd).  Os.seekFile (Os.ts:96) does not ensure that: *)
(* this and the next four theorems speak of files for which it holds.      *)
THEOREM FileInvariant == ASSUME GrowthAtEnd PROVE Spec => []FileInv
<1>1. Init => FileInv BY InitFileInv
<1>2. FileInv /\ [Next]_vars => FileInv' BY NextFileInv, StutterFileInv
<1> QED BY <1>1, <1>2, PTL DEF Spec

(* With GrowthAtEnd, a clean segment in memory equals its pages in the     *)
(* file: dropping it without writing it back (onResized,                   *)
(* cacheOutSegmentIndex) loses nothing.  Growth from elsewhere would       *)
(* overwrite in the file what the segment holds.                           *)
THEOREM CleanSegments == ASSUME GrowthAtEnd PROVE Spec => []CleanMatchesDisk
<1>1. FileInv => CleanMatchesDisk BY DEF FileInv
<1> QED BY <1>1, FileInvariant, PTL

(* With GrowthAtEnd, dying loses only unsynced writes, whatever the cache  *)
(* evicts and when.  Growth from elsewhere overwrites synced pages.        *)
THEOREM CrashesLoseUnsyncedOnly == ASSUME GrowthAtEnd PROVE Spec => []DiskIsPending
<1>1. FileInv => DiskIsPending BY DEF FileInv
<1> QED BY <1>1, FileInvariant, PTL

(* With GrowthAtEnd, no transfer stops making progress, and onResized      *)
(* never spins.                                                            *)
THEOREM LoopsAdvance == ASSUME GrowthAtEnd PROVE Spec => []NeverHangs
<1>1. FileInv => NeverHangs BY DEF FileInv, FileTypes, NeverHangs, Hung, NoCall, Calls
<1> QED BY <1>1, FileInvariant, PTL

(* With GrowthAtEnd, the file layer implements the paged file.             *)
THEOREM FileLayerImplementsPagedFile ==
  ASSUME GrowthAtEnd PROVE Spec => ImplementsPagedFile
<1>1. Init => Abstract!Init BY InitFileInv
<1>2. FileInv /\ [Next]_vars => [Abstract!Next]_(Abstract!vars)
  BY NextFileInv, StutterFileInv DEF AbstractStep
<1> QED BY <1>1, <1>2, FileInvariant, PTL DEF Spec, ImplementsPagedFile, Abstract!Spec

-----------------------------------------------------------------------------
(* The page cache that the files share: its list, its currentSize and the  *)
(* removeLists of the files agree with the segments in memory, for every   *)
(* number of files, every segment and cache size and however files grow.   *)
-----------------------------------------------------------------------------
(* Lists without duplicates: their length is the number of elements, and   *)
(* what the ends of one look like when elements come and go.               *)

LEMMA InjectiveLength ==
  ASSUME NEW S, NEW s \in Seq(S), IsInjective(s)
  PROVE  IsFiniteSet(Range(s)) /\ Cardinality(Range(s)) = Len(s)
<1>1. DOMAIN s = 1 .. Len(s) /\ Len(s) \in Nat OBVIOUS
<1>2. s \in Surjection(1 .. Len(s), Range(s)) /\ s \in Injection(1 .. Len(s), Range(s))
  BY <1>1 DEF Surjection, Injection, IsInjective, Range
<1>3. IsFiniteSet(1 .. Len(s)) /\ Cardinality(1 .. Len(s)) = Len(s) BY <1>1, FS_Interval
<1> QED BY <1>2, <1>3, FS_Surjection

LEMMA InFront ==
  ASSUME NEW S, NEW s \in Seq(S), IsInjective(s), NEW x \in S, x \notin Range(s)
  PROVE  /\ <<x>> \o s \in Seq(S) /\ IsInjective(<<x>> \o s)
         /\ Range(<<x>> \o s) = Range(s) \cup {x} /\ Len(<<x>> \o s) = Len(s) + 1
<1> DEFINE t == <<x>> \o s
<1>1. /\ t \in Seq(S) /\ Len(t) = Len(s) + 1 /\ t[1] = x /\ Len(s) \in Nat
      /\ \A k \in 1 .. Len(s) : t[k + 1] = s[k]
      /\ DOMAIN t = 1 .. Len(s) + 1 /\ DOMAIN s = 1 .. Len(s)
  OBVIOUS
<1> HIDE DEF t
<1>2. \A k \in DOMAIN t : k # 1 => k - 1 \in DOMAIN s /\ t[k] = s[k - 1]
  <2>1. \A k \in DOMAIN t : k # 1 => k - 1 \in 1 .. Len(s) /\ (k - 1) + 1 = k BY <1>1
  <2> QED BY <1>1, <2>1
<1>3. \A k \in DOMAIN s : k + 1 \in DOMAIN t /\ t[k + 1] = s[k] BY <1>1
<1>4. Range(t) = Range(s) \cup {x} BY <1>1, <1>2, <1>3 DEF Range
<1>5. ASSUME NEW a \in DOMAIN t, NEW b \in DOMAIN t, t[a] = t[b] PROVE a = b
  <2>1. a # 1 /\ b # 1 => a - 1 = b - 1 BY <1>2, <1>5 DEF IsInjective
  <2>2. a = 1 <=> b = 1 BY <1>1, <1>2, <1>5 DEF Range
  <2> QED BY <1>1, <2>1, <2>2
<1> QED BY <1>1, <1>4, <1>5 DEF IsInjective, t

LEMMA AtEnd ==
  ASSUME NEW S, NEW s \in Seq(S), IsInjective(s), NEW x \in S, x \notin Range(s)
  PROVE  /\ Append(s, x) \in Seq(S) /\ IsInjective(Append(s, x))
         /\ Range(Append(s, x)) = Range(s) \cup {x}
<1> DEFINE t == Append(s, x)
<1>1. /\ t \in Seq(S) /\ t[Len(s) + 1] = x /\ Len(s) \in Nat
      /\ \A k \in 1 .. Len(s) : t[k] = s[k]
      /\ DOMAIN t = 1 .. Len(s) + 1 /\ DOMAIN s = 1 .. Len(s)
  OBVIOUS
<1> HIDE DEF t
<1>2. \A k \in DOMAIN t : k # Len(s) + 1 => k \in DOMAIN s /\ t[k] = s[k] BY <1>1
<1>3. DOMAIN s \subseteq DOMAIN t /\ Len(s) + 1 \in DOMAIN t BY <1>1
<1>4. Range(t) = Range(s) \cup {x} BY <1>1, <1>2, <1>3 DEF Range
<1>5. ASSUME NEW a \in DOMAIN t, NEW b \in DOMAIN t, t[a] = t[b] PROVE a = b
  <2>1. a = Len(s) + 1 <=> b = Len(s) + 1 BY <1>1, <1>2, <1>5 DEF Range
  <2> QED BY <1>1, <1>2, <1>5, <2>1 DEF IsInjective
<1> QED BY <1>1, <1>4, <1>5 DEF IsInjective, t

LEMMA AllButLast ==
  ASSUME NEW S, NEW s \in Seq(S), IsInjective(s), s # <<>>
  PROVE  LET t == SubSeq(s, 1, Len(s) - 1) IN
         /\ s[Len(s)] \in S /\ s[Len(s)] \in Range(s)
         /\ t \in Seq(S) /\ IsInjective(t)
         /\ Range(t) = Range(s) \ {s[Len(s)]} /\ Len(t) = Len(s) - 1
<1> DEFINE t == SubSeq(s, 1, Len(s) - 1)
<1>1. /\ t \in Seq(S) /\ Len(t) = Len(s) - 1 /\ Len(s) \in Nat /\ Len(s) >= 1
      /\ \A k \in 1 .. Len(s) - 1 : t[k] = s[k]
      /\ DOMAIN t = 1 .. Len(s) - 1 /\ DOMAIN s = 1 .. Len(s)
  <2>1. Len(s) \in Nat /\ Len(s) >= 1 /\ DOMAIN s = 1 .. Len(s) BY EmptySeq
  <2>2. /\ 1 \in 1 .. Len(s) + 1 /\ Len(s) - 1 \in 0 .. Len(s) BY <2>1
  <2>3. /\ t \in Seq(S) /\ Len(t) = Len(s) - 1 /\ \A k \in 1 .. Len(s) - 1 : t[k] = s[k]
    BY <2>1, <2>2, SubSeqProperties
  <2> QED BY <2>1, <2>3
<1> HIDE DEF t
<1>2. Len(s) \in DOMAIN s /\ s[Len(s)] \in S BY <1>1
<1>3. \A k \in DOMAIN s : k # Len(s) => k \in DOMAIN t /\ t[k] = s[k] BY <1>1
<1>4. \A k \in DOMAIN t : k # Len(s) /\ k \in DOMAIN s /\ t[k] = s[k] BY <1>1
<1>5. Range(t) = Range(s) \ {s[Len(s)]} BY <1>2, <1>3, <1>4 DEF Range, IsInjective
<1>6. IsInjective(t) BY <1>4 DEF IsInjective
<1>7. s[Len(s)] \in Range(s) BY <1>2 DEF Range
<1> QED BY <1>1, <1>2, <1>5, <1>6, <1>7 DEF t

-----------------------------------------------------------------------------
(* Taking elements out of the list: what Without(S) keeps.                 *)

(* g holds what is kept of the first elements of the list, up to n of them. *)
IsKept(g, n, S) ==
  g = [k \in 0 .. n |->
         IF k = 0 THEN <<>>
         ELSE IF lru[k] \in S THEN g[k - 1] ELSE Append(g[k - 1], lru[k])]

(* The recursion of Without is a function.                                 *)
LEMMA KeptExists ==
  ASSUME NEW S, NEW n \in Nat
  PROVE  \E g : IsKept(g, n, S)
<1> DEFINE T == {m \in Nat : \E g : IsKept(g, m, S)}
<1>1. 0 \in T
  <2>1. IsKept([k \in 0 .. 0 |-> <<>>], 0, S) BY DEF IsKept
  <2> QED BY <2>1
<1>2. ASSUME NEW m \in Nat, m \in T PROVE m + 1 \in T
  <2>1. PICK g : IsKept(g, m, S) BY <1>2
  <2> DEFINE more == IF lru[m + 1] \in S THEN g[m] ELSE Append(g[m], lru[m + 1])
             h == [k \in 0 .. m + 1 |-> IF k <= m THEN g[k] ELSE more]
             next(x, k) == IF lru[k] \in S THEN x ELSE Append(x, lru[k])
  <2>4. \A k \in 0 .. m : g[k] = IF k = 0 THEN <<>>
                                ELSE IF lru[k] \in S THEN g[k - 1] ELSE Append(g[k - 1], lru[k])
    BY <2>1 DEF IsKept
  <2>2. ASSUME NEW k \in 0 .. m + 1
        PROVE  h[k] = IF k = 0 THEN <<>> ELSE next(h[k - 1], k)
    <3>1. CASE k <= m
      <4>1. h[k] = g[k] /\ (k # 0 => h[k - 1] = g[k - 1]) BY <3>1
      <4>2. k \in 0 .. m BY <3>1
      <4>3. g[k] = IF k = 0 THEN <<>> ELSE next(g[k - 1], k) BY <2>4, <4>2
      <4> HIDE DEF h, next
      <4> QED BY <4>1, <4>3
    <3>2. CASE k = m + 1
      <4>1. k # 0 /\ k - 1 = m /\ h[k] = more /\ h[m] = g[m] BY <3>2
      <4>2. more = next(g[m], k) BY <3>2
      <4> HIDE DEF h, next, more
      <4> QED BY <4>1, <4>2
    <3> QED BY <3>1, <3>2
  <2>3. IsKept(h, m + 1, S)
    <3>1. h = [k \in 0 .. m + 1 |-> h[k]] OBVIOUS
    <3> HIDE DEF h
    <3> QED BY <2>2, <3>1 DEF IsKept
  <2> QED BY <2>3
<1>3. Nat \subseteq T
  <2> HIDE DEF T
  <2> QED BY <1>1, <1>2, NatUpwards
<1> QED BY <1>3

(* The elements outside S stay, each once.                                 *)
LEMMA WithoutIs ==
  ASSUME NEW E, lru \in Seq(E), IsInjective(lru), NEW S
  PROVE  /\ Without(S) \in Seq(E) /\ IsInjective(Without(S))
         /\ Range(Without(S)) = Range(lru) \ S
<1> DEFINE g == CHOOSE g : IsKept(g, Len(lru), S)
           n == Len(lru)
<1>1. Len(lru) \in Nat /\ DOMAIN lru = 1 .. Len(lru) OBVIOUS
<1>2. IsKept(g, n, S) BY <1>1, KeptExists
<1>3. Without(S) = g[n] BY DEF Without, IsKept
<1>4. \A k \in 1 .. n : lru[k] \in E OBVIOUS
<1> HIDE DEF g, n
<1>5. n \in Nat /\ n = Len(lru) /\ DOMAIN lru = 1 .. n BY <1>1 DEF n
<1>6. \A k \in 0 .. n :
        g[k] = IF k = 0 THEN <<>>
               ELSE IF lru[k] \in S THEN g[k - 1] ELSE Append(g[k - 1], lru[k])
  BY <1>2 DEF IsKept
<1> DEFINE R(k) == {x \in E : x \notin S /\ \E j \in 1 .. k : lru[j] = x}
           T == {k \in Nat : k <= n => /\ g[k] \in Seq(E) /\ IsInjective(g[k])
                                        /\ Range(g[k]) = R(k)}
<1>7. 0 \in T
  <2>1. g[0] = <<>> BY <1>5, <1>6
  <2>2. <<>> \in Seq(E) /\ IsInjective(<<>>) /\ Range(<<>>) = {} BY DEF IsInjective, Range
  <2>3. R(0) = {} OBVIOUS
  <2> HIDE DEF R
  <2> QED BY <2>1, <2>2, <2>3
<1>8. ASSUME NEW k \in Nat, k \in T PROVE k + 1 \in T
  <2> SUFFICES ASSUME k + 1 <= n
               PROVE  /\ g[k + 1] \in Seq(E) /\ IsInjective(g[k + 1])
                      /\ Range(g[k + 1]) = R(k + 1)
    OBVIOUS
  <2>1. /\ k + 1 \in 0 .. n /\ k + 1 # 0 /\ (k + 1) - 1 = k /\ k + 1 \in 1 .. n
        /\ g[k] \in Seq(E) /\ IsInjective(g[k]) /\ Range(g[k]) = R(k)
    BY <1>5, <1>8
  <2> DEFINE x == lru[k + 1]
  <2>2. g[k + 1] = IF x \in S THEN g[k] ELSE Append(g[k], x) BY <1>6, <2>1
  <2>3. x \in E BY <1>4, <2>1
  <2>4. \A j \in 1 .. k + 1 : j \in 1 .. k \/ j = k + 1 OBVIOUS
  <2>5. 1 .. k \subseteq 1 .. k + 1 /\ k + 1 \in 1 .. k + 1 OBVIOUS
  <2>6. CASE x \in S
    <3>1. R(k + 1) = R(k) BY <2>4, <2>5, <2>6
    <3> QED BY <2>1, <2>2, <2>6, <3>1
  <2>7. CASE x \notin S
    <3>1. R(k + 1) = R(k) \cup {x} BY <2>3, <2>4, <2>5, <2>7
    <3>2. x \notin R(k)
      <4>1. \A j \in 1 .. k : j \in DOMAIN lru /\ k + 1 \in DOMAIN lru /\ j # k + 1
        BY <1>5, <2>1
      <4> QED BY <4>1 DEF IsInjective
    <3> HIDE DEF R, x
    <3>3. /\ Append(g[k], x) \in Seq(E) /\ IsInjective(Append(g[k], x))
          /\ Range(Append(g[k], x)) = Range(g[k]) \cup {x}
      BY <2>1, <2>3, <3>2, AtEnd
    <3> QED BY <2>1, <2>2, <2>7, <3>1, <3>3
  <2> QED BY <2>6, <2>7
<1>9. Nat \subseteq T
  <2> HIDE DEF T
  <2> QED BY <1>7, <1>8, NatUpwards
<1>10. /\ g[n] \in Seq(E) /\ IsInjective(g[n]) /\ Range(g[n]) = R(n)
  <2>1. n \in T
    <3> HIDE DEF T
    <3> QED BY <1>5, <1>9
  <2>2. n <= n BY <1>5
  <2> HIDE DEF R
  <2> QED BY <2>1, <2>2
<1>11. R(n) = Range(lru) \ S BY <1>4, <1>5 DEF Range
<1> QED BY <1>3, <1>10, <1>11

-----------------------------------------------------------------------------
(* The inductive invariant.  It needs nothing of what the pages hold, and  *)
(* no condition on how the files grow.                                     *)

CacheTypes == TypeOK /\ position \in [Files -> Nat]

(* The segments on the shared list, and the pages they map.                *)
Listed == Range(lru)
CachedPages ==
  {fp \in Files \X Pages : buffer[fp[1]][fp[2]] # Null /\ <<fp[1], SegmentOf(fp[2])>> \in Listed}

(* No segment is listed twice, and none waits twice to be dropped.         *)
NoDuplicates == IsInjective(lru) /\ \A f \in Files : IsInjective(removeList[f])

(* The list holds what is in memory and not waiting to be dropped.         *)
ListedInMemory ==
  \A f \in Files, i \in SegmentNos : <<f, i>> \in Listed <=> i \in InIndex(f) \ Evicted(f)

SizeIsPages == cacheSize = Cardinality(CachedPages)

(* One segment goes for each that comes once the list is full.             *)
MostSegments == IF MaxCache = 0 THEN 1 ELSE MaxCache
FewSegments == Len(lru) <= MostSegments

(* Only an open file has pages in memory, and only an open file is read or *)
(* written.                                                                *)
OpenOnly == \A f \in Files : ~opened[f] => \A p \in Pages : buffer[f][p] = Null
CallIsOpen == call \in Calls => opened[call.file] /\ call.pos + call.remain <= MaxPages

CacheInv ==
  /\ CacheTypes /\ NoDuplicates /\ ListedInMemory /\ SizeIsPages /\ FewSegments
  /\ OpenOnly /\ CallIsOpen

-----------------------------------------------------------------------------
(* Counting pages.                                                         *)

(* The size of a set that some elements leave.                             *)
LEMMA LessCardinality ==
  ASSUME NEW S, IsFiniteSet(S), NEW A \in SUBSET S
  PROVE  /\ Cardinality(S) \in Nat /\ Cardinality(A) \in Nat
         /\ Cardinality(S \ A) = Cardinality(S) - Cardinality(A)
<1>1. IsFiniteSet(A) BY FS_Subset
<1>2. Cardinality(S \ A) = Cardinality(S) - Cardinality(S \cap A) BY FS_Difference
<1>3. S \cap A = A OBVIOUS
<1> QED BY <1>1, <1>2, <1>3, FS_CardinalityType

(* The size of a set that some elements leave and others enter.            *)
LEMMA MovedCardinality ==
  ASSUME NEW S, IsFiniteSet(S), NEW A \in SUBSET S, NEW B, IsFiniteSet(B), B \cap S = {}
  PROVE  /\ IsFiniteSet((S \ A) \cup B)
         /\ Cardinality((S \ A) \cup B) = Cardinality(S) - Cardinality(A) + Cardinality(B)
<1>1. IsFiniteSet(A) BY FS_Subset
<1>2. IsFiniteSet(S \ A) /\ Cardinality(S \ A) = Cardinality(S) - Cardinality(S \cap A)
  BY FS_Difference
<1>3. S \cap A = A /\ (S \ A) \cap B = {} OBVIOUS
<1>4. /\ IsFiniteSet((S \ A) \cup B)
      /\ Cardinality((S \ A) \cup B) =
           Cardinality(S \ A) + Cardinality(B) - Cardinality((S \ A) \cap B)
  BY <1>2, FS_Union
<1>5. Cardinality({}) = 0 BY FS_EmptySet
<1>6. /\ Cardinality(S) \in Nat /\ Cardinality(A) \in Nat /\ Cardinality(B) \in Nat
      /\ Cardinality(S \ A) \in Nat
  BY <1>1, <1>2, FS_CardinalityType
<1>7. Cardinality(S \ A) = Cardinality(S) - Cardinality(A) BY <1>2, <1>3
<1>8. Cardinality((S \ A) \cup B) = Cardinality(S \ A) + Cardinality(B) - 0 BY <1>3, <1>4, <1>5
<1> DEFINE s == Cardinality(S)
           a == Cardinality(A)
           b == Cardinality(B)
           d == Cardinality(S \ A)
<1>9. d = s - a /\ d + b - 0 = s - a + b
  <2>1. d = s - a /\ s \in Nat /\ a \in Nat /\ b \in Nat /\ d \in Nat BY <1>6, <1>7
  <2> HIDE DEF s, a, b, d
  <2> QED BY <2>1
<1> QED BY <1>4, <1>8, <1>9

(* As many pairs as second halves.                                         *)
LEMMA PairsOf ==
  ASSUME NEW x, NEW M, IsFiniteSet(M)
  PROVE  IsFiniteSet({x} \X M) /\ Cardinality({x} \X M) = Cardinality(M)
<1>1. IsFiniteSet({x}) /\ Cardinality({x}) = 1 BY FS_Singleton
<1>2. IsFiniteSet({x} \X M) /\ Cardinality({x} \X M) = Cardinality({x}) * Cardinality(M)
  BY <1>1, FS_Product
<1>3. Cardinality(M) \in Nat BY FS_CardinalityType
<1>4. 1 * Cardinality(M) = Cardinality(M) BY <1>3
<1> QED BY <1>1, <1>2, <1>4

LEMMA PagesFinite ==
  /\ IsFiniteSet(Pages) /\ \A i : IsFiniteSet(PagesOf(i))
  /\ \A f, i : IsFiniteSet(MappedPages(f, i))
<1>1. MaxPages \in Nat /\ 0 \in Int /\ MaxPages - 1 \in Int BY FileAssumption
<1>2. IsFiniteSet(Pages) BY <1>1, FS_Interval DEF Pages
<1>3. \A T \in SUBSET Pages : IsFiniteSet(T) BY <1>2, FS_Subset
<1>4. \A i : PagesOf(i) \in SUBSET Pages BY DEF PagesOf
<1>5. \A f, i : MappedPages(f, i) \in SUBSET Pages BY DEF PagesOf, MappedPages
<1> QED BY <1>2, <1>3, <1>4, <1>5

(* A page is the segment it is in and its place there.                     *)
LEMMA PlaceInSegment ==
  ASSUME NEW p \in Pages
  PROVE  /\ p % SegmentPages \in 0 .. SegmentPages - 1
         /\ p = SegmentPages * SegmentOf(p) + (p % SegmentPages)
<1>1. SegmentPages \in Nat /\ SegmentPages >= 1 /\ p \in Nat BY FileAssumption DEF Pages
<1> QED BY <1>1, SMTT(30) DEF SegmentOf

(* A listed segment has a page in memory, and no segment more than         *)
(* SegmentPages of them.                                                   *)
LEMMA CachedPagesBounds ==
  ASSUME CacheTypes, NoDuplicates, ListedInMemory
  PROVE  /\ IsFiniteSet(CachedPages) /\ Cardinality(CachedPages) \in Nat
         /\ Len(lru) <= Cardinality(CachedPages)
         /\ Cardinality(CachedPages) <= SegmentPages * Len(lru)
<1>1. lru \in Seq(Files \X SegmentNos) /\ IsInjective(lru) BY DEF CacheTypes, TypeOK, NoDuplicates
<1>2. IsFiniteSet(Listed) /\ Cardinality(Listed) = Len(lru) /\ Len(lru) \in Nat
  BY <1>1, InjectiveLength DEF Listed
<1>3. SegmentPages \in Nat /\ SegmentPages >= 1 BY FileAssumption
<1> DEFINE Places == 0 .. SegmentPages - 1
           place == [fp \in CachedPages |-> <<<<fp[1], SegmentOf(fp[2])>>, fp[2] % SegmentPages>>]
           segment == [fp \in CachedPages |-> <<fp[1], SegmentOf(fp[2])>>]
<1>4. IsFiniteSet(Places) /\ Cardinality(Places) = SegmentPages BY <1>3, FS_Interval
<1>5. place \in Injection(CachedPages, Listed \X Places)
  <2>1. ASSUME NEW fp \in CachedPages PROVE place[fp] \in Listed \X Places
    <3>1. fp[2] \in Pages /\ <<fp[1], SegmentOf(fp[2])>> \in Listed BY DEF CachedPages
    <3>2. fp[2] % SegmentPages \in Places BY <3>1, PlaceInSegment
    <3> HIDE DEF Places
    <3> QED BY <3>1, <3>2
  <2>2. ASSUME NEW x \in CachedPages, NEW y \in CachedPages, place[x] = place[y] PROVE x = y
    <3>1. /\ x \in Files \X Pages /\ y \in Files \X Pages /\ x[2] \in Pages /\ y[2] \in Pages
          /\ x = <<x[1], x[2]>> /\ y = <<y[1], y[2]>>
      BY DEF CachedPages
    <3>2. /\ x[1] = y[1] /\ SegmentOf(x[2]) = SegmentOf(y[2])
          /\ x[2] % SegmentPages = y[2] % SegmentPages
      BY <2>2
    <3>3. x[2] = y[2] BY <3>1, <3>2, PlaceInSegment
    <3> QED BY <3>1, <3>2, <3>3
  <2> HIDE DEF Places
  <2> QED BY <2>1, <2>2 DEF Injection, IsInjective
<1>6. segment \in Surjection(CachedPages, Listed)
  <2>1. \A fp \in CachedPages : segment[fp] \in Listed BY DEF CachedPages
  <2>2. ASSUME NEW x \in Listed PROVE \E fp \in CachedPages : segment[fp] = x
    <3>1. x \in Files \X SegmentNos BY <1>1 DEF Listed, Range
    <3>2. PICK f \in Files, i \in SegmentNos : x = <<f, i>> BY <3>1
    <3>3. i \in InIndex(f) BY <3>2 DEF ListedInMemory
    <3>4. PICK p \in Pages : buffer[f][p] # Null /\ SegmentOf(p) = i
      BY <3>3 DEF InIndex, MappedPages, PagesOf
    <3>5. <<f, p>> \in CachedPages BY <3>2, <3>4 DEF CachedPages
    <3> QED BY <3>2, <3>4, <3>5
  <2> QED BY <2>1, <2>2 DEF Surjection
<1> HIDE DEF Places, place, segment
<1>7. /\ IsFiniteSet(Listed \X Places)
      /\ Cardinality(Listed \X Places) = Cardinality(Listed) * Cardinality(Places)
  BY <1>2, <1>4, FS_Product
<1>8. IsFiniteSet(CachedPages) /\ Cardinality(CachedPages) <= Cardinality(Listed \X Places)
  BY <1>5, <1>7, FS_Injection
<1>9. Cardinality(Listed) <= Cardinality(CachedPages) BY <1>6, <1>8, FS_Surjection
<1>10. Len(lru) * SegmentPages = SegmentPages * Len(lru) BY <1>2, <1>3
<1>11. Cardinality(CachedPages) \in Nat BY <1>8, FS_CardinalityType
<1> QED BY <1>2, <1>4, <1>7, <1>8, <1>9, <1>10, <1>11

(* The invariant is as strong as the property.                             *)
LEMMA InvImpliesConsistent == CacheInv => CacheConsistent
<1> SUFFICES ASSUME CacheInv PROVE CacheConsistent OBVIOUS
<1>1. /\ CacheTypes /\ NoDuplicates /\ ListedInMemory /\ SizeIsPages /\ FewSegments
      /\ TypeOK /\ lru \in Seq(Files \X SegmentNos) /\ removeList \in [Files -> Seq(SegmentNos)]
  BY DEF CacheInv, CacheTypes, TypeOK
<1>2. IsInjective(lru) /\ \A f \in Files : IsInjective(removeList[f]) BY <1>1 DEF NoDuplicates
<1>3. Listed = {lru[k] : k \in DOMAIN lru} /\ \A f : Evicted(f) = Range(removeList[f])
  BY DEF Listed, Range, Evicted
<1>4. CacheAccounting
  <2>1. Listed = UNION {{f} \X (InIndex(f) \ Evicted(f)) : f \in Files}
    <3>1. Listed \subseteq Files \X SegmentNos BY <1>1 DEF Listed, Range
    <3>2. \A f \in Files : InIndex(f) \subseteq SegmentNos BY DEF InIndex
    <3> QED BY <1>1, <3>1, <3>2 DEF ListedInMemory
  <2>2. Len(lru) = Cardinality(Listed) BY <1>1, <1>2, InjectiveLength DEF Listed
  <2>3. \A f \in Files : Len(removeList[f]) = Cardinality(Evicted(f))
    <3>1. ASSUME NEW f \in Files PROVE Len(removeList[f]) = Cardinality(Evicted(f))
      <4>1. removeList[f] \in Seq(SegmentNos) /\ IsInjective(removeList[f]) BY <1>1, <1>2
      <4> QED BY <1>3, <4>1, InjectiveLength
    <3> QED BY <3>1
  <2>4. cacheSize = Cardinality({fp \in Files \X Pages :
          buffer[fp[1]][fp[2]] # Null /\ <<fp[1], SegmentOf(fp[2])>> \in {lru[k] : k \in DOMAIN lru}})
    BY <1>1, <1>3 DEF SizeIsPages, CachedPages
  <2> QED BY <1>3, <2>1, <2>2, <2>3, <2>4 DEF CacheAccounting
<1>5. CacheBounded
  <2>1. cacheSize \in Nat /\ cacheSize <= SegmentPages * Len(lru)
    BY <1>1, CachedPagesBounds DEF SizeIsPages
  <2>2. /\ Len(lru) \in Nat /\ MostSegments \in Nat /\ Len(lru) <= MostSegments
        /\ SegmentPages \in Nat
    BY <1>1, FileAssumption DEF FewSegments, MostSegments
  <2>3. SegmentPages * Len(lru) <= SegmentPages * MostSegments BY <2>2, SMTT(30)
  <2>4. cacheSize <= SegmentPages * MostSegments BY <2>1, <2>2, <2>3
  <2> QED BY <2>4 DEF CacheBounded, MostSegments
<1> QED BY <1>1, <1>4, <1>5 DEF CacheConsistent

-----------------------------------------------------------------------------
(* What a step does to the cache and the segments of the file it works on. *)
CacheParts ==
  /\ buffer \in [Files -> [Pages -> Values \cup {Null}]]
  /\ removeList \in [Files -> Seq(SegmentNos)]
  /\ lru \in Seq(Files \X SegmentNos)
  /\ NoDuplicates /\ ListedInMemory /\ SizeIsPages /\ FewSegments

(* Segments of f go, its evicted ones among them, and leave the list.      *)
LEMMA SegmentsGo ==
  ASSUME CacheInv, NEW f \in Files, NEW gone, Evicted(f) \subseteq gone,
         buffer' = [buffer EXCEPT ![f] = Dropped(f, gone)],
         removeList' = [removeList EXCEPT ![f] = <<>>],
         lru' \in Seq(Files \X SegmentNos), IsInjective(lru'),
         Range(lru') = Listed \ ({f} \X gone),
         cacheSize' = cacheSize - Cardinality({fp \in CachedPages : fp[1] = f /\ SegmentOf(fp[2]) \in gone})
  PROVE  CacheParts'
<1>1. /\ CacheTypes /\ NoDuplicates /\ ListedInMemory /\ SizeIsPages /\ FewSegments
      /\ lru \in Seq(Files \X SegmentNos) /\ IsInjective(lru)
      /\ buffer \in [Files -> [Pages -> Values \cup {Null}]]
      /\ removeList \in [Files -> Seq(SegmentNos)]
      /\ \A g \in Files : IsInjective(removeList[g])
  BY DEF CacheInv, CacheTypes, TypeOK, NoDuplicates
<1>2. Dropped(f, gone) \in [Pages -> Values \cup {Null}] BY <1>1 DEF Dropped
<1>3. /\ buffer' \in [Files -> [Pages -> Values \cup {Null}]]
      /\ \A g \in Files : g # f => buffer'[g] = buffer[g]
      /\ \A p \in Pages : buffer'[f][p] = IF SegmentOf(p) \in gone THEN Null ELSE buffer[f][p]
  BY <1>1, <1>2 DEF Dropped
<1>4. /\ removeList' \in [Files -> Seq(SegmentNos)]
      /\ \A g \in Files : removeList'[g] = IF g = f THEN <<>> ELSE removeList[g]
  BY <1>1
<1>5. NoDuplicates'
  <2>1. IsInjective(<<>>) BY DEF IsInjective
  <2> QED BY <1>1, <1>4, <2>1 DEF NoDuplicates
<1>6. /\ Listed' = Listed \ ({f} \X gone)
      /\ \A g \in Files : Evicted(g)' = IF g = f THEN {} ELSE Evicted(g)
  BY <1>4 DEF Listed, Evicted
<1>7. ListedInMemory'
  <2>1. ASSUME NEW g \in Files, NEW i \in SegmentNos
        PROVE  i \in InIndex(g)' <=> i \in InIndex(g) /\ (g = f => i \notin gone)
    BY <1>3 DEF InIndex, MappedPages, PagesOf
  <2>2. ASSUME NEW g \in Files, NEW i \in SegmentNos
        PROVE  <<g, i>> \in Listed' <=> i \in InIndex(g)' /\ i \notin Evicted(g)'
    <3>1. <<g, i>> \in Listed <=> i \in InIndex(g) /\ i \notin Evicted(g) BY <1>1 DEF ListedInMemory
    <3>2. <<g, i>> \in Listed' <=> <<g, i>> \in Listed /\ ~(g = f /\ i \in gone) BY <1>6
    <3>3. CASE g = f BY <1>6, <2>1, <3>1, <3>2, <3>3
    <3>4. CASE g # f BY <1>6, <2>1, <3>1, <3>2, <3>4
    <3> QED BY <3>3, <3>4
  <2> QED BY <2>2 DEF ListedInMemory
<1> DEFINE A == {fp \in CachedPages : fp[1] = f /\ SegmentOf(fp[2]) \in gone}
<1>8. SizeIsPages'
  <2>1. CachedPages' = CachedPages \ A
    <3>1. ASSUME NEW g \in Files, NEW p \in Pages
          PROVE  <<g, p>> \in CachedPages' <=> <<g, p>> \in CachedPages /\ <<g, p>> \notin A
      <4>1. <<g, p>> \in CachedPages' <=> buffer'[g][p] # Null /\ <<g, SegmentOf(p)>> \in Listed'
        BY DEF CachedPages
      <4>2. <<g, p>> \in CachedPages <=> buffer[g][p] # Null /\ <<g, SegmentOf(p)>> \in Listed
        BY DEF CachedPages
      <4>3. <<g, p>> \in A <=> <<g, p>> \in CachedPages /\ g = f /\ SegmentOf(p) \in gone OBVIOUS
      <4> QED BY <1>3, <1>6, <4>1, <4>2, <4>3
    <3>2. CachedPages' \subseteq Files \X Pages /\ CachedPages \subseteq Files \X Pages
      BY DEF CachedPages
    <3> QED BY <3>1, <3>2
  <2>3. IsFiniteSet(CachedPages) /\ Cardinality(CachedPages) \in Nat BY <1>1, CachedPagesBounds
  <2>4. Cardinality(CachedPages') = Cardinality(CachedPages) - Cardinality(A)
    <3>1. A \in SUBSET CachedPages OBVIOUS
    <3> HIDE DEF A
    <3> QED BY <2>1, <2>3, <3>1, LessCardinality
  <2>5. Cardinality(A) \in Nat
    <3>1. IsFiniteSet(A) BY <2>3, FS_Subset
    <3> QED BY <3>1, FS_CardinalityType
  <2> HIDE DEF A
  <2> QED BY <1>1, <2>3, <2>4, <2>5 DEF SizeIsPages, A
<1>9. FewSegments'
  <2>1. Len(lru') = Cardinality(Listed') BY InjectiveLength DEF Listed
  <2>2. Len(lru) = Cardinality(Listed) /\ IsFiniteSet(Listed) BY <1>1, InjectiveLength DEF Listed
  <2>3. Cardinality(Listed') <= Cardinality(Listed) BY <1>6, <2>2, FS_Subset
  <2>4. Len(lru) \in Nat /\ Len(lru') \in Nat /\ MostSegments \in Nat
    BY <1>1, FileAssumption DEF MostSegments
  <2>5. MostSegments' = MostSegments BY DEF MostSegments
  <2> QED BY <1>1, <2>1, <2>2, <2>3, <2>4, <2>5 DEF FewSegments
<1> QED BY <1>3, <1>4, <1>5, <1>7, <1>8, <1>9 DEF CacheParts

(* Segment i of f comes with the pages M, and the segments of X leave the  *)
(* list to wait in the removeLists of their files.                         *)
Comes(f, i, M, X) ==
  /\ <<f, i>> \notin Listed /\ M \in SUBSET PagesOf(i) /\ M # {} /\ X \in SUBSET Listed
  /\ \A g \in Files : g # f => buffer'[g] = buffer[g]
  /\ \A p \in Pages : buffer'[f][p] # Null <=>
       IF SegmentOf(p) = i THEN p \in M
       ELSE buffer[f][p] # Null /\ SegmentOf(p) \notin Evicted(f)
  /\ \A g \in Files : IsInjective(removeList'[g])
  /\ \A g \in Files, j \in SegmentNos :
       j \in Evicted(g)' <=> (g # f /\ j \in Evicted(g)) \/ <<g, j>> \in X
  /\ IsInjective(lru') /\ Range(lru') = (Listed \ X) \cup {<<f, i>>}
  /\ cacheSize' = cacheSize
       - Cardinality({fp \in CachedPages : <<fp[1], SegmentOf(fp[2])>> \in X}) + Cardinality(M)

LEMMA SegmentComes ==
  ASSUME CacheInv, NEW f \in Files, NEW i \in SegmentNos, NEW M, NEW X, Comes(f, i, M, X)
  PROVE  NoDuplicates' /\ ListedInMemory' /\ SizeIsPages'
<1>1. /\ CacheTypes /\ NoDuplicates /\ ListedInMemory /\ SizeIsPages
      /\ lru \in Seq(Files \X SegmentNos)
  BY DEF CacheInv, CacheTypes, TypeOK
<1>0. /\ <<f, i>> \notin Listed /\ M \in SUBSET PagesOf(i) /\ M # {} /\ X \in SUBSET Listed
      /\ \A g \in Files : g # f => buffer'[g] = buffer[g]
      /\ \A p \in Pages : buffer'[f][p] # Null <=>
           IF SegmentOf(p) = i THEN p \in M
           ELSE buffer[f][p] # Null /\ SegmentOf(p) \notin Evicted(f)
      /\ \A g \in Files, j \in SegmentNos :
           j \in Evicted(g)' <=> (g # f /\ j \in Evicted(g)) \/ <<g, j>> \in X
  BY DEF Comes
<1>2. NoDuplicates' BY DEF NoDuplicates, Comes
<1>3. Listed' = (Listed \ X) \cup {<<f, i>>} BY DEF Listed, Comes
<1>4. \A g \in Files, j \in SegmentNos : <<g, j>> \in Listed <=> j \in InIndex(g) /\ j \notin Evicted(g)
  BY <1>1 DEF ListedInMemory
<1>5. \A p \in M : p \in Pages /\ SegmentOf(p) = i BY <1>0 DEF PagesOf
<1>6. ListedInMemory'
  <2>1. ASSUME NEW g \in Files, NEW j \in SegmentNos
        PROVE  j \in InIndex(g)' <=> IF g = f THEN j = i \/ (j \in InIndex(g) /\ j \notin Evicted(g))
                                             ELSE j \in InIndex(g)
    <3>1. /\ j \in InIndex(g) <=> \E p \in Pages : SegmentOf(p) = j /\ buffer[g][p] # Null
          /\ j \in InIndex(g)' <=> \E p \in Pages : SegmentOf(p) = j /\ buffer'[g][p] # Null
      BY DEF InIndex, MappedPages, PagesOf
    <3>2. CASE g # f BY <1>0, <3>1, <3>2
    <3>3. CASE g = f /\ j = i BY <1>0, <1>5, <3>1, <3>3
    <3>4. CASE g = f /\ j # i BY <1>0, <3>1, <3>4
    <3> QED BY <3>2, <3>3, <3>4
  <2>2. ASSUME NEW g \in Files, NEW j \in SegmentNos
        PROVE  <<g, j>> \in Listed' <=> j \in InIndex(g)' /\ j \notin Evicted(g)'
    <3>1. <<g, j>> \in Listed' <=> (<<g, j>> \in Listed /\ <<g, j>> \notin X) \/ (g = f /\ j = i)
      BY <1>3
    <3>2. <<f, i>> \notin X BY <1>0
    <3>3. CASE g = f BY <1>0, <1>4, <2>1, <3>1, <3>2, <3>3
    <3>4. CASE g # f BY <1>0, <1>4, <2>1, <3>1, <3>4
    <3> QED BY <3>3, <3>4
  <2> QED BY <2>2 DEF ListedInMemory
<1>7. SizeIsPages'
  <2> DEFINE A == {fp \in CachedPages : <<fp[1], SegmentOf(fp[2])>> \in X}
             B == {f} \X M
  <2>1. IsFiniteSet(M) /\ IsFiniteSet(B) /\ Cardinality(B) = Cardinality(M)
    <3>1. IsFiniteSet(M) BY <1>0, PagesFinite, FS_Subset
    <3> QED BY <3>1, PairsOf
  <2>2. B \cap CachedPages = {} BY <1>0, <1>5 DEF CachedPages
  <2>3. A \in SUBSET CachedPages OBVIOUS
  <2>4. CachedPages' = (CachedPages \ A) \cup B
    <3>1. ASSUME NEW g \in Files, NEW p \in Pages
          PROVE  <<g, p>> \in CachedPages' <=> <<g, p>> \in (CachedPages \ A) \cup B
      <4>1. <<g, p>> \in CachedPages' <=> buffer'[g][p] # Null /\ <<g, SegmentOf(p)>> \in Listed'
        BY DEF CachedPages
      <4>2. <<g, p>> \in CachedPages <=> buffer[g][p] # Null /\ <<g, SegmentOf(p)>> \in Listed
        BY DEF CachedPages
      <4>3. <<g, p>> \in A <=> <<g, p>> \in CachedPages /\ <<g, SegmentOf(p)>> \in X OBVIOUS
      <4>4. <<g, p>> \in B <=> g = f /\ p \in M OBVIOUS
      <4>5. SegmentOf(p) \in SegmentNos BY SegmentOfType
      <4> HIDE DEF A, B
      <4>6. CASE g = f /\ SegmentOf(p) = i
        <5>1. <<g, p>> \in CachedPages' <=> p \in M BY <1>0, <1>3, <4>1, <4>6
        <5>2. <<g, p>> \notin CachedPages BY <1>0, <4>2, <4>6
        <5> QED BY <4>4, <4>6, <5>1, <5>2
      <4>7. CASE g # f
        <5>1. <<g, SegmentOf(p)>> \in Listed' <=> <<g, SegmentOf(p)>> \in Listed /\ <<g, SegmentOf(p)>> \notin X
          BY <1>3, <4>7
        <5>2. buffer'[g][p] = buffer[g][p] BY <1>0, <4>7
        <5> QED BY <4>1, <4>2, <4>3, <4>4, <4>7, <5>1, <5>2
      <4>8. CASE g = f /\ SegmentOf(p) # i
        <5>1. <<g, SegmentOf(p)>> \in Listed' <=> <<g, SegmentOf(p)>> \in Listed /\ <<g, SegmentOf(p)>> \notin X
          BY <1>3, <4>8
        <5>2. <<g, SegmentOf(p)>> \in Listed => SegmentOf(p) \notin Evicted(f) BY <1>4, <4>5, <4>8
        <5>3. buffer'[g][p] # Null <=> buffer[g][p] # Null /\ SegmentOf(p) \notin Evicted(f) BY <1>0, <4>8
        <5>4. p \notin M BY <1>5, <4>8
        <5> QED BY <4>1, <4>2, <4>3, <4>4, <5>1, <5>2, <5>3, <5>4
      <4> QED BY <4>6, <4>7, <4>8
    <3>2. CachedPages' \subseteq Files \X Pages /\ CachedPages \subseteq Files \X Pages
      BY DEF CachedPages
    <3>3. B \subseteq Files \X Pages BY <1>5
    <3> HIDE DEF A, B
    <3> QED BY <3>1, <3>2, <3>3
  <2>5. IsFiniteSet(CachedPages) BY <1>1, CachedPagesBounds
  <2>6. cacheSize' = cacheSize - Cardinality(A) + Cardinality(M) BY DEF Comes
  <2> HIDE DEF A, B
  <2>7. Cardinality((CachedPages \ A) \cup B)
          = Cardinality(CachedPages) - Cardinality(A) + Cardinality(B)
    BY <2>1, <2>2, <2>3, <2>5, MovedCardinality
  <2>8. Cardinality(CachedPages') = cacheSize - Cardinality(A) + Cardinality(M)
    BY <1>1, <2>1, <2>4, <2>7 DEF SizeIsPages
  <2> QED BY <2>6, <2>8 DEF SizeIsPages
<1> QED BY <1>2, <1>6, <1>7

-----------------------------------------------------------------------------
(* The descriptor never stands before the start of the file.               *)

LEMMA GreatestNumber ==
  ASSUME NEW n \in Nat, NEW T, T \subseteq 1 .. n, T # {}
  PROVE  \E m \in T : \A k \in T : k <= m
<1> DEFINE D == {d \in Nat : d <= n /\ n - d \in T}
<1>1. PICK x : x \in T /\ x \in 1 .. n OBVIOUS
<1>2. n - x \in D
  <2>1. n - x \in Nat /\ n - x <= n /\ n - (n - x) = x BY <1>1
  <2> QED BY <1>1, <2>1
<1>3. PICK d \in D : \A k \in D : d <= k
  <2>1. D \subseteq Nat OBVIOUS
  <2> HIDE DEF D
  <2> QED BY <1>2, <2>1, LeastNumber
<1>4. ASSUME NEW k \in T PROVE k <= n - d
  <2>1. k \in 1 .. n /\ n - k \in Nat /\ n - k <= n /\ n - (n - k) = k OBVIOUS
  <2>2. n - k \in D BY <2>1
  <2>3. d <= n - k /\ d \in Nat BY <1>3, <2>2
  <2> QED BY <2>1, <2>3
<1> QED BY <1>3, <1>4

LEMMA SegmentEndType ==
  ASSUME NEW f \in Files, NEW i \in Nat
  PROVE  SegmentEnd(f, i) \in Nat
<1>1. SegmentPages \in Nat BY FileAssumption
<1>2. SegmentSize(f, i) \in Nat BY PagesFinite, FS_CardinalityType DEF SegmentSize
<1> QED BY <1>1, <1>2, SMTT(20) DEF SegmentEnd

LEMMA AfterWriteBackType ==
  ASSUME CacheTypes, NEW f \in Files, NEW list, NEW n \in Nat, DOMAIN list = 1 .. n,
         NEW pos \in Nat
  PROVE  AfterWriteBack(f, list, pos) \in Nat
<1> DEFINE written == {k \in DOMAIN list : list[k] \in dirty[f]}
           last == CHOOSE k \in written : \A j \in written : j <= k
<1>1. AfterWriteBack(f, list, pos) = IF written = {} THEN pos ELSE SegmentEnd(f, list[last])
  BY DEF AfterWriteBack
<1>2. ASSUME written # {} PROVE SegmentEnd(f, list[last]) \in Nat
  <2>1. written \subseteq 1 .. n OBVIOUS
  <2>2. last \in written
    <3> HIDE DEF written
    <3>1. \E k \in written : \A j \in written : j <= k BY <1>2, <2>1, GreatestNumber
    <3> QED BY <3>1
  <2>3. list[last] \in dirty[f] BY <2>2
  <2> HIDE DEF last, written
  <2>4. list[last] \in Nat BY <2>3, FileAssumption DEF CacheTypes, TypeOK, SegmentNos
  <2> QED BY <2>4, SegmentEndType
<1> QED BY <1>1, <1>2

-----------------------------------------------------------------------------
(* getSegment: a hit moves the segment to the head of the list, a miss     *)
(* puts it there and may take the last segment out.                        *)

(* The pages of segment i that the caller may use.                         *)
Usable(f, i) ==
  {p \in PagesOf(i) : IF i \in InIndex(f) \ Evicted(f) THEN buffer[f][p] # Null ELSE p < fileSize[f]}

LEMMA GetSegmentMemory ==
  ASSUME CacheInv, NEW f \in Files, NEW i \in SegmentNos, NEW v \in Values,
         NEW W \in SUBSET Usable(f, i), GetSegment(f, i, W, v)
  PROVE  /\ disk' \in [Files -> [Pages -> Values]]
         /\ buffer' \in [Files -> [Pages -> Values \cup {Null}]]
         /\ dirty' \in [Files -> SUBSET SegmentNos]
         /\ position' \in [Files -> Nat]
         /\ \A g \in Files : g # f => buffer'[g] = buffer[g]
         /\ \A p \in Pages : buffer'[f][p] # Null <=>
              IF SegmentOf(p) = i THEN p \in Usable(f, i)
              ELSE buffer[f][p] # Null /\ SegmentOf(p) \notin Evicted(f)
<1> DEFINE out == Evicted(f)
           disk1 == Flushed(f, out, disk[f])
           hit == i \in InIndex(f) \ out
           mapped == {p \in PagesOf(i) : p < fileSize[f]}
<1>1. /\ disk \in [Files -> [Pages -> Values]]
      /\ buffer \in [Files -> [Pages -> Values \cup {Null}]]
      /\ dirty \in [Files -> SUBSET SegmentNos]
      /\ position \in [Files -> Nat]
      /\ removeList[f] \in Seq(SegmentNos)
      /\ CacheTypes
      /\ Null \notin Values /\ SegmentPages \in Nat
  BY FileAssumption DEF CacheInv, CacheTypes, TypeOK
<1>2. disk1 \in [Pages -> Values]
  <2>1. \A p \in Pages : disk[f][p] \in Values /\ (buffer[f][p] # Null => buffer[f][p] \in Values) BY <1>1
  <2> QED BY <2>1 DEF Flushed
<1>3. /\ disk' = [disk EXCEPT ![f] = disk1]
      /\ buffer' = [buffer EXCEPT ![f] = [p \in Pages |->
                      IF p \in W THEN v
                      ELSE IF ~hit /\ p \in mapped THEN disk1[p]
                      ELSE Dropped(f, out)[p]]]
      /\ dirty' = [dirty EXCEPT ![f] = DirtyAfter(f, i, W)]
      /\ \/ position' = [position EXCEPT ![f] = AfterWriteBack(f, removeList[f], @)]
         \/ position' = [position EXCEPT ![f] = i * SegmentPages + Cardinality(mapped)]
  BY DEF GetSegment
<1>4. position' \in [Files -> Nat]
  <2>1. AfterWriteBack(f, removeList[f], position[f]) \in Nat
    <3>1. DOMAIN removeList[f] = 1 .. Len(removeList[f]) /\ Len(removeList[f]) \in Nat BY <1>1
    <3> QED BY <1>1, <3>1, AfterWriteBackType
  <2>2. i * SegmentPages + Cardinality(mapped) \in Nat
    <3>1. IsFiniteSet(mapped) BY PagesFinite, FS_Subset
    <3>2. Cardinality(mapped) \in Nat BY <3>1, FS_CardinalityType
    <3>3. i \in Nat BY DEF SegmentNos
    <3>4. i * SegmentPages \in Nat BY <1>1, <3>3, SMTT(20)
    <3> DEFINE start == i * SegmentPages
               count == Cardinality(mapped)
    <3>5. start \in Nat /\ count \in Nat BY <3>2, <3>4
    <3>6. start + count \in Nat
      <4> HIDE DEF start, count
      <4> QED BY <3>5
    <3> QED BY <3>6
  <2> HIDE DEF mapped
  <2> QED BY <1>1, <1>3, <2>1, <2>2
<1>5. Dropped(f, out) \in [Pages -> Values \cup {Null}]
      /\ \A p \in Pages : Dropped(f, out)[p] = IF SegmentOf(p) \in out THEN Null ELSE buffer[f][p]
  BY <1>1 DEF Dropped
<1>6. \A p \in W : p \in PagesOf(i) /\ p \in Usable(f, i) BY DEF Usable
<1>7. Usable(f, i) = {p \in PagesOf(i) : IF hit THEN buffer[f][p] # Null ELSE p \in mapped} BY DEF Usable
<1>8. \A p \in Pages : SegmentOf(p) = i <=> p \in PagesOf(i) BY DEF PagesOf
<1>9. hit => i \notin out OBVIOUS
<1>10. \A p \in PagesOf(i) : ~hit /\ i \notin out => buffer[f][p] = Null
  BY <1>1 DEF InIndex, MappedPages, PagesOf
<1>11. DirtyAfter(f, i, W) \in SUBSET SegmentNos BY <1>1 DEF DirtyAfter
<1>12. mapped \subseteq PagesOf(i) OBVIOUS
<1> HIDE DEF out, disk1, hit, mapped
<1>13. /\ disk' \in [Files -> [Pages -> Values]] /\ dirty' \in [Files -> SUBSET SegmentNos]
       /\ buffer' \in [Files -> [Pages -> Values \cup {Null}]]
       /\ \A g \in Files : g # f => buffer'[g] = buffer[g]
       /\ \A p \in Pages : buffer'[f][p] = IF p \in W THEN v
                      ELSE IF ~hit /\ p \in mapped THEN disk1[p]
                      ELSE Dropped(f, out)[p]
  BY <1>1, <1>2, <1>3, <1>5, <1>11
<1>14. ASSUME NEW p \in Pages
       PROVE  buffer'[f][p] # Null <=>
              IF SegmentOf(p) = i THEN p \in Usable(f, i)
              ELSE buffer[f][p] # Null /\ SegmentOf(p) \notin out
  <2>1. CASE p \in W
    <3>1. buffer'[f][p] = v BY <1>13, <2>1
    <3> QED BY <1>1, <1>6, <1>8, <2>1, <3>1
  <2>2. CASE p \notin W /\ ~hit /\ p \in mapped
    <3>1. buffer'[f][p] = disk1[p] BY <1>13, <2>2
    <3>2. p \in PagesOf(i) BY <1>12, <2>2
    <3> QED BY <1>1, <1>2, <1>7, <1>8, <2>2, <3>1, <3>2
  <2>3. CASE p \notin W /\ ~(~hit /\ p \in mapped)
    <3>1. buffer'[f][p] = IF SegmentOf(p) \in out THEN Null ELSE buffer[f][p] BY <1>5, <1>13, <2>3
    <3>2. CASE SegmentOf(p) # i BY <3>1, <3>2
    <3>3. CASE SegmentOf(p) = i /\ hit BY <1>7, <1>8, <1>9, <3>1, <3>3
    <3>4. CASE SegmentOf(p) = i /\ ~hit
      <4>1. p \in PagesOf(i) /\ p \notin mapped BY <1>8, <2>3, <3>4
      <4>2. buffer'[f][p] = Null BY <1>10, <3>1, <3>4, <4>1
      <4> QED BY <1>7, <3>4, <4>1, <4>2
    <3> QED BY <3>2, <3>3, <3>4
  <2> QED BY <2>1, <2>2, <2>3
<1> QED BY <1>4, <1>13, <1>14 DEF out

LEMMA GetSegmentCache ==
  ASSUME CacheInv, NEW f \in Files, NEW i \in SegmentNos, NEW v \in Values,
         NEW W \in SUBSET Usable(f, i), GetSegment(f, i, W, v),
         \E p \in PagesOf(i) : p < fileSize[f]
  PROVE  CacheParts'
<1> DEFINE out == Evicted(f)
           hit == i \in InIndex(f) \ out
           mapped == {p \in PagesOf(i) : p < fileSize[f]}
           victim == lru[Len(lru)]
           cleared == [removeList EXCEPT ![f] = <<>>]
           E == Files \X SegmentNos
           x == <<f, i>>
           others == SubSeq(lru, 1, Len(lru) - 1)
<1>1. /\ CacheTypes /\ NoDuplicates /\ ListedInMemory /\ SizeIsPages /\ FewSegments
      /\ lru \in Seq(E) /\ IsInjective(lru)
      /\ buffer \in [Files -> [Pages -> Values \cup {Null}]]
      /\ removeList \in [Files -> Seq(SegmentNos)]
      /\ \A g \in Files : IsInjective(removeList[g])
      /\ x \in E /\ Len(lru) \in Nat
  BY DEF CacheInv, CacheTypes, TypeOK, NoDuplicates
<1>2. /\ buffer' \in [Files -> [Pages -> Values \cup {Null}]]
      /\ \A g \in Files : g # f => buffer'[g] = buffer[g]
      /\ \A p \in Pages : buffer'[f][p] # Null <=>
           IF SegmentOf(p) = i THEN p \in Usable(f, i)
           ELSE buffer[f][p] # Null /\ SegmentOf(p) \notin out
  BY GetSegmentMemory
<1>3. \A g \in Files, j \in SegmentNos : <<g, j>> \in Listed <=> j \in InIndex(g) /\ j \notin Evicted(g)
  BY <1>1 DEF ListedInMemory
<1>4. hit <=> x \in Listed BY <1>3
<1>5. /\ cleared \in [Files -> Seq(SegmentNos)]
      /\ \A g \in Files : cleared[g] = IF g = f THEN <<>> ELSE removeList[g]
      /\ IsInjective(<<>>) /\ Range(<<>>) = {}
  BY <1>1 DEF IsInjective, Range
<1>6. \/ /\ hit /\ removeList' = cleared
         /\ lru' = <<x>> \o Without({x}) /\ cacheSize' = cacheSize
      \/ /\ ~hit /\ ~CacheFull /\ removeList' = cleared
         /\ lru' = <<x>> \o lru /\ cacheSize' = cacheSize + Cardinality(mapped)
      \/ /\ ~hit /\ CacheFull
         /\ removeList' = [cleared EXCEPT ![victim[1]] = Append(@, victim[2])]
         /\ lru' = <<x>> \o others
         /\ cacheSize' = cacheSize - SegmentSize(victim[1], victim[2]) + Cardinality(mapped)
  BY DEF GetSegment
<1>7. ~hit => Usable(f, i) = mapped BY DEF Usable
<1>8. mapped \in SUBSET PagesOf(i) /\ mapped # {} OBVIOUS
<1>9. /\ MostSegments \in Nat /\ MostSegments >= 1 /\ MostSegments' = MostSegments
      /\ MaxCache \in Nat /\ MaxCache <= MostSegments
  BY FileAssumption DEF MostSegments
<1>10. \A g \in Files : Evicted(g) = Range(removeList[g]) /\ Evicted(g)' = Range(removeList'[g])
  BY DEF Evicted, Range
<1>11. Cardinality(mapped) \in Nat
  <2>1. IsFiniteSet(mapped) BY <1>8, PagesFinite, FS_Subset
  <2> QED BY <2>1, FS_CardinalityType
<1>12. /\ IsFiniteSet(CachedPages) /\ Cardinality(CachedPages) \in Nat /\ cacheSize \in Nat
       /\ Len(lru) <= cacheSize
  BY <1>1, CachedPagesBounds DEF SizeIsPages
<1> HIDE DEF out, hit, mapped, victim, cleared, E, x, others
<1>13. CASE hit /\ removeList' = cleared /\ lru' = <<x>> \o Without({x}) /\ cacheSize' = cacheSize
  <2>1. /\ Without({x}) \in Seq(E) /\ IsInjective(Without({x}))
        /\ Range(Without({x})) = Listed \ {x}
    BY <1>1, WithoutIs DEF Listed
  <2>2. lru' \in Seq(E) /\ IsInjective(lru') /\ Range(lru') = (Listed \ {x}) \cup {x}
    BY <1>1, <1>13, <2>1, InFront
  <2>3. Listed' = Listed BY <1>4, <1>13, <2>2 DEF Listed
  <2>4. Len(lru') = Len(lru)
    <3>1. Len(lru') = Cardinality(Listed') BY <2>2, InjectiveLength DEF Listed
    <3>2. Len(lru) = Cardinality(Listed) BY <1>1, InjectiveLength DEF Listed
    <3> QED BY <2>3, <3>1, <3>2
  <2>5. NoDuplicates' BY <1>1, <1>5, <1>13, <2>2 DEF NoDuplicates
  <2>6. \A p \in Pages : SegmentOf(p) \notin out => (buffer'[f][p] # Null <=> buffer[f][p] # Null)
    BY <1>2, <1>13 DEF Usable, hit, out, PagesOf
  <2>7. ListedInMemory'
    <3>1. ASSUME NEW g \in Files, NEW j \in SegmentNos
          PROVE  <<g, j>> \in Listed' <=> j \in InIndex(g)' /\ j \notin Evicted(g)'
      <4>1. /\ j \in InIndex(g) <=> \E p \in Pages : SegmentOf(p) = j /\ buffer[g][p] # Null
            /\ j \in InIndex(g)' <=> \E p \in Pages : SegmentOf(p) = j /\ buffer'[g][p] # Null
        BY DEF InIndex, MappedPages, PagesOf
      <4>2. Evicted(g)' = IF g = f THEN {} ELSE Evicted(g) BY <1>5, <1>10, <1>13
      <4>3. CASE g # f BY <1>2, <1>3, <2>3, <4>1, <4>2, <4>3
      <4>4. CASE g = f /\ j \notin out BY <1>3, <2>3, <2>6, <4>1, <4>2, <4>4 DEF out
      <4>5. CASE g = f /\ j \in out
        <5>1. j # i BY <1>13, <4>5 DEF hit
        <5>2. j \notin InIndex(g)' BY <1>2, <4>1, <4>5, <5>1
        <5> QED BY <1>3, <2>3, <4>5, <5>2 DEF out
      <4> QED BY <4>3, <4>4, <4>5
    <3> QED BY <3>1 DEF ListedInMemory
  <2>8. CachedPages' = CachedPages
    <3>1. ASSUME NEW g \in Files, NEW p \in Pages
          PROVE  <<g, p>> \in CachedPages' <=> <<g, p>> \in CachedPages
      <4>1. <<g, p>> \in CachedPages' <=> buffer'[g][p] # Null /\ <<g, SegmentOf(p)>> \in Listed
        BY <2>3 DEF CachedPages
      <4>2. <<g, p>> \in CachedPages <=> buffer[g][p] # Null /\ <<g, SegmentOf(p)>> \in Listed
        BY DEF CachedPages
      <4>3. g = f /\ <<g, SegmentOf(p)>> \in Listed => SegmentOf(p) \notin out
        BY <1>3, SegmentOfType DEF out
      <4> QED BY <1>2, <2>6, <4>1, <4>2, <4>3
    <3>2. CachedPages' \subseteq Files \X Pages /\ CachedPages \subseteq Files \X Pages
      BY DEF CachedPages
    <3> QED BY <3>1, <3>2
  <2>9. SizeIsPages' BY <1>1, <1>13, <2>8 DEF SizeIsPages
  <2>10. FewSegments' BY <1>1, <1>9, <2>4 DEF FewSegments
  <2> QED BY <1>2, <1>5, <1>13, <2>2, <2>5, <2>7, <2>9, <2>10 DEF CacheParts, E
<1>14. CASE /\ ~hit /\ ~CacheFull /\ removeList' = cleared
            /\ lru' = <<x>> \o lru /\ cacheSize' = cacheSize + Cardinality(mapped)
  <2>1. /\ lru' \in Seq(E) /\ IsInjective(lru') /\ Range(lru') = Listed \cup {x}
        /\ Len(lru') = Len(lru) + 1
    BY <1>1, <1>4, <1>14, InFront DEF Listed
  <2>2. \A g \in Files : IsInjective(removeList'[g]) BY <1>1, <1>5, <1>14
  <2>3. \A g \in Files, j \in SegmentNos :
          j \in Evicted(g)' <=> (g # f /\ j \in Evicted(g)) \/ <<g, j>> \in {}
    BY <1>5, <1>10, <1>14
  <2>4. {fp \in CachedPages : <<fp[1], SegmentOf(fp[2])>> \in {}} = {} OBVIOUS
  <2>5. Cardinality({}) = 0 BY FS_EmptySet
  <2>6. cacheSize' = cacheSize - 0 + Cardinality(mapped) BY <1>11, <1>12, <1>14
  <2>7. cacheSize' = cacheSize
          - Cardinality({fp \in CachedPages : <<fp[1], SegmentOf(fp[2])>> \in {}}) + Cardinality(mapped)
    BY <2>4, <2>5, <2>6
  <2>8. Range(lru') = (Listed \ {}) \cup {<<f, i>>} BY <2>1 DEF x
  <2>9. \A p \in Pages : buffer'[f][p] # Null <=>
           IF SegmentOf(p) = i THEN p \in mapped
           ELSE buffer[f][p] # Null /\ SegmentOf(p) \notin Evicted(f)
    BY <1>2, <1>7, <1>14 DEF out
  <2>10. <<f, i>> \notin Listed /\ {} \in SUBSET Listed BY <1>4, <1>14 DEF x
  <2>11. NoDuplicates' /\ ListedInMemory' /\ SizeIsPages'
    <3>1. Comes(f, i, mapped, {})
      BY <1>2, <1>8, <2>1, <2>2, <2>3, <2>7, <2>8, <2>9, <2>10, Zenon DEF Comes
    <3> QED BY <3>1, SegmentComes
  <2>12. FewSegments'
    <3>1. CASE cacheSize < MaxCache BY <1>1, <1>9, <1>12, <2>1, <3>1 DEF FewSegments
    <3>2. CASE lru = <<>>
      <4>1. Len(lru) = 0 BY <3>2
      <4> QED BY <1>9, <2>1, <4>1 DEF FewSegments
    <3>3. MaxCache <= cacheSize => lru = <<>> BY <1>14 DEF CacheFull
    <3> QED BY <1>9, <1>12, <3>1, <3>2, <3>3
  <2> QED BY <1>2, <1>5, <1>14, <2>1, <2>11, <2>12 DEF CacheParts, E
<1>15. CASE /\ ~hit /\ CacheFull
            /\ removeList' = [cleared EXCEPT ![victim[1]] = Append(@, victim[2])]
            /\ lru' = <<x>> \o others
            /\ cacheSize' = cacheSize - SegmentSize(victim[1], victim[2]) + Cardinality(mapped)
  <2>1. /\ victim \in E /\ victim \in Listed
        /\ others \in Seq(E) /\ IsInjective(others)
        /\ Range(others) = Listed \ {victim} /\ Len(others) = Len(lru) - 1
    <3>1. lru # <<>> BY <1>15 DEF CacheFull
    <3> QED BY <1>1, <3>1, AllButLast DEF victim, others, Listed
  <2>2. /\ lru' \in Seq(E) /\ IsInjective(lru') /\ Range(lru') = (Listed \ {victim}) \cup {x}
        /\ Len(lru') = Len(others) + 1
    BY <1>1, <1>4, <1>15, <2>1, InFront
  <2>3. PICK g0 \in Files, j0 \in SegmentNos : victim = <<g0, j0>> BY <2>1 DEF E
  <2>4. victim[1] = g0 /\ victim[2] = j0 BY <2>3
  <2>5. j0 \notin Evicted(g0) /\ j0 \in InIndex(g0) BY <1>3, <2>1, <2>3
  <2>6. j0 \notin Range(cleared[g0]) /\ IsInjective(cleared[g0]) /\ cleared[g0] \in Seq(SegmentNos)
    BY <1>1, <1>5, <1>10, <2>5
  <2>7. /\ Append(cleared[g0], j0) \in Seq(SegmentNos) /\ IsInjective(Append(cleared[g0], j0))
        /\ Range(Append(cleared[g0], j0)) = Range(cleared[g0]) \cup {j0}
    BY <2>6, AtEnd
  <2>8. removeList' = [cleared EXCEPT ![g0] = Append(cleared[g0], j0)] BY <1>5, <1>15, <2>4
  <2>9. /\ removeList' \in [Files -> Seq(SegmentNos)]
        /\ \A g \in Files : removeList'[g] = IF g = g0 THEN Append(cleared[g0], j0) ELSE cleared[g]
    BY <1>5, <2>7, <2>8
  <2>10. \A g \in Files : IsInjective(removeList'[g]) BY <1>1, <1>5, <2>7, <2>9
  <2>11. ASSUME NEW g \in Files, NEW j \in SegmentNos
         PROVE  j \in Evicted(g)' <=> (g # f /\ j \in Evicted(g)) \/ <<g, j>> \in {victim}
    <3>1. Range(cleared[g]) = IF g = f THEN {} ELSE Evicted(g) BY <1>5, <1>10
    <3>2. Evicted(g)' = IF g = g0 THEN Range(cleared[g]) \cup {j0} ELSE Range(cleared[g])
      BY <1>10, <2>7, <2>9
    <3>3. <<g, j>> \in {victim} <=> g = g0 /\ j = j0 BY <2>3
    <3> QED BY <3>1, <3>2, <3>3
  <2>12. {fp \in CachedPages : <<fp[1], SegmentOf(fp[2])>> \in {victim}} = {g0} \X MappedPages(g0, j0)
    <3>1. ASSUME NEW g \in Files, NEW p \in Pages
          PROVE  <<g, p>> \in {fp \in CachedPages : <<fp[1], SegmentOf(fp[2])>> \in {victim}}
                   <=> <<g, p>> \in {g0} \X MappedPages(g0, j0)
      BY <2>1, <2>3 DEF CachedPages, MappedPages, PagesOf
    <3>2. CachedPages \subseteq Files \X Pages BY DEF CachedPages
    <3>3. {g0} \X MappedPages(g0, j0) \subseteq Files \X Pages BY DEF MappedPages, PagesOf
    <3>4. {fp \in CachedPages : <<fp[1], SegmentOf(fp[2])>> \in {victim}} \subseteq Files \X Pages
      BY <3>2
    <3> QED BY <3>1, <3>3, <3>4
  <2>13. Cardinality({g0} \X MappedPages(g0, j0)) = SegmentSize(g0, j0)
    BY PagesFinite, PairsOf DEF SegmentSize
  <2>14. cacheSize' = cacheSize
          - Cardinality({fp \in CachedPages : <<fp[1], SegmentOf(fp[2])>> \in {victim}}) + Cardinality(mapped)
    BY <1>15, <2>4, <2>12, <2>13
  <2>15. \A p \in Pages : buffer'[f][p] # Null <=>
           IF SegmentOf(p) = i THEN p \in mapped
           ELSE buffer[f][p] # Null /\ SegmentOf(p) \notin Evicted(f)
    BY <1>2, <1>7, <1>15 DEF out
  <2>16. <<f, i>> \notin Listed /\ {victim} \in SUBSET Listed BY <1>4, <1>15, <2>1 DEF x
  <2>17. Range(lru') = (Listed \ {victim}) \cup {<<f, i>>} BY <2>2 DEF x
  <2>18. NoDuplicates' /\ ListedInMemory' /\ SizeIsPages'
    <3>1. Comes(f, i, mapped, {victim})
      BY <1>2, <1>8, <2>2, <2>10, <2>11, <2>14, <2>15, <2>16, <2>17, Zenon DEF Comes
    <3> QED BY <3>1, SegmentComes
  <2>19. FewSegments' BY <1>1, <1>9, <2>1, <2>2 DEF FewSegments
  <2> QED BY <1>2, <2>2, <2>9, <2>18, <2>19 DEF CacheParts, E
<1> QED BY <1>6, <1>13, <1>14, <1>15

-----------------------------------------------------------------------------
(* One lemma per operation.                                                *)

OtherTypes ==
  /\ disk \in [Files -> [Pages -> Values]]
  /\ diskLen \in [Files -> 0 .. MaxPages]
  /\ opened \in [Files -> BOOLEAN]
  /\ fileSize \in [Files -> 0 .. MaxPages]
  /\ position \in [Files -> Nat]
  /\ dirty \in [Files -> SUBSET SegmentNos]
  /\ call \in Calls \cup {NoCall, Hung}
  /\ buff \in [Pages -> Values]
  /\ pending \in [Files -> [Pages -> SUBSET Values]]

LEMMA InvParts ==
  CacheInv <=> CacheParts /\ OtherTypes /\ OpenOnly /\ CallIsOpen
BY DEF CacheInv, CacheParts, OtherTypes, CacheTypes, TypeOK

LEMMA InvPartsNext ==
  ASSUME CacheParts', OtherTypes', OpenOnly', CallIsOpen'
  PROVE  CacheInv'
BY DEF CacheInv, CacheParts, OtherTypes, CacheTypes, TypeOK

LEMMA FlushedType ==
  ASSUME CacheInv, NEW f \in Files, NEW S, NEW base \in [Pages -> Values]
  PROVE  Flushed(f, S, base) \in [Pages -> Values]
<1>1. \A p \in Pages : buffer[f][p] # Null => buffer[f][p] \in Values
  BY DEF CacheInv, CacheTypes, TypeOK
<1> QED BY <1>1 DEF Flushed

LEMMA ViewValues ==
  ASSUME CacheInv, NEW f \in Files, NEW p \in Pages
  PROVE  View(f)[p] \in Values
BY DEF CacheInv, CacheTypes, TypeOK, View

(* Only the file a step works on changes in memory, and it is open.        *)
LEMMA StaysOpenOnly ==
  ASSUME OpenOnly, NEW f \in Files, opened[f], opened' = opened,
         \A g \in Files : g # f => buffer'[g] = buffer[g]
  PROVE  OpenOnly'
BY DEF OpenOnly

(* The evicted segments are on the list no more.                           *)
LEMMA EvictedNotListed ==
  ASSUME CacheInv, NEW f \in Files
  PROVE  /\ Listed \ ({f} \X Evicted(f)) = Listed
         /\ \A fp \in CachedPages : ~(fp[1] = f /\ SegmentOf(fp[2]) \in Evicted(f))
<1>1. \A i \in SegmentNos : <<f, i>> \in Listed => i \notin Evicted(f)
  BY DEF CacheInv, ListedInMemory
<1>2. Listed \subseteq Files \X SegmentNos BY DEF CacheInv, CacheTypes, TypeOK, Listed, Range
<1>3. ASSUME NEW x \in Listed PROVE x \notin {f} \X Evicted(f)
  <2>1. PICK g \in Files, i \in SegmentNos : x = <<g, i>> BY <1>2, <1>3
  <2> QED BY <1>1, <1>3, <2>1
<1>4. ASSUME NEW fp \in CachedPages, fp[1] = f, SegmentOf(fp[2]) \in Evicted(f) PROVE FALSE
  <2>1. fp[2] \in Pages /\ <<f, SegmentOf(fp[2])>> \in Listed BY <1>4 DEF CachedPages
  <2>2. SegmentOf(fp[2]) \in SegmentNos BY <2>1, SegmentOfType
  <2> QED BY <1>1, <1>4, <2>1, <2>2
<1> QED BY <1>3, <1>4

LEMMA ResizeCache ==
  ASSUME CacheInv, NEW f \in Files, opened[f], NEW n \in Nat, n > fileSize[f],
         NEW next \in Calls \cup {NoCall}, Resize(f, n, next), UNCHANGED <<buff, pending>>
  PROVE  CacheParts' /\ OtherTypes' /\ OpenOnly' /\ opened' = opened /\ call' \in {next, Hung}
<1> DEFINE end == position[f] + (n - fileSize[f])
           shrunk == NumSegments(end) < NumSegments(fileSize[f])
           last == NumSegments(fileSize[f]) - 1
           drops == last \in InIndex(f) \ Evicted(f) /\ ~shrunk
           gone == Evicted(f) \cup (IF drops THEN {last} ELSE {})
           zeroed == [p \in Pages |-> IF position[f] <= p /\ p < end THEN Zero ELSE disk[f][p]]
           list == IF drops THEN Append(removeList[f], last) ELSE removeList[f]
           A == {fp \in CachedPages : fp[1] = f /\ SegmentOf(fp[2]) \in gone}
<1>1. /\ CacheParts /\ OtherTypes /\ OpenOnly /\ CacheTypes
      /\ NoDuplicates /\ ListedInMemory
      /\ buffer \in [Files -> [Pages -> Values \cup {Null}]]
      /\ lru \in Seq(Files \X SegmentNos) /\ IsInjective(lru)
      /\ Zero \in Values /\ MaxPages \in Nat
  BY InvParts, FileAssumption DEF CacheParts, NoDuplicates, CacheInv
<1>2. /\ end <= MaxPages
      /\ disk' = [disk EXCEPT ![f] = Flushed(f, gone, zeroed)]
      /\ diskLen' = [diskLen EXCEPT ![f] = IF end > @ THEN end ELSE @]
      /\ fileSize' = [fileSize EXCEPT ![f] = end]
      /\ position' = [position EXCEPT ![f] = AfterWriteBack(f, list, end)]
      /\ buffer' = [buffer EXCEPT ![f] = Dropped(f, gone)]
      /\ dirty' = [dirty EXCEPT ![f] = @ \ gone]
      /\ removeList' = [removeList EXCEPT ![f] = <<>>]
      /\ lru' = IF drops THEN Without({<<f, last>>}) ELSE lru
      /\ cacheSize' = IF drops THEN cacheSize - SegmentSize(f, last) ELSE cacheSize
      /\ call' = IF shrunk THEN Hung ELSE next
      /\ opened' = opened
  BY DEF Resize
<1>3. end \in 0 .. MaxPages
  <2>1. position[f] \in Nat /\ fileSize[f] \in Nat BY <1>1 DEF OtherTypes
  <2>2. end \in Nat BY <2>1
  <2> QED BY <1>1, <1>2, <2>2
<1>4. zeroed \in [Pages -> Values]
  <2>1. \A p \in Pages : disk[f][p] \in Values BY <1>1 DEF OtherTypes
  <2> QED BY <1>1, <2>1
<1>5. Flushed(f, gone, zeroed) \in [Pages -> Values]
  <2> HIDE DEF zeroed, gone
  <2> QED BY <1>4, FlushedType
<1>6. AfterWriteBack(f, list, end) \in Nat
  <2>1. removeList[f] \in Seq(SegmentNos) /\ (drops => last \in SegmentNos)
    BY <1>1 DEF CacheParts, InIndex
  <2>2. list \in Seq(SegmentNos)
    <3> HIDE DEF last, drops
    <3> QED BY <2>1
  <2>3. DOMAIN list = 1 .. Len(list) /\ Len(list) \in Nat
    <3> HIDE DEF list
    <3> QED BY <2>2
  <2>4. end \in Nat BY <1>3
  <2> HIDE DEF list, end
  <2> QED BY <1>1, <2>3, <2>4, AfterWriteBackType
<1>7. Range(lru') = Listed \ ({f} \X gone) /\ lru' \in Seq(Files \X SegmentNos) /\ IsInjective(lru')
  <2>1. CASE drops
    <3>1. /\ Without({<<f, last>>}) \in Seq(Files \X SegmentNos) /\ IsInjective(Without({<<f, last>>}))
          /\ Range(Without({<<f, last>>})) = Listed \ {<<f, last>>}
      BY <1>1, WithoutIs DEF Listed
    <3>2. {f} \X gone = ({f} \X Evicted(f)) \cup {<<f, last>>}
      <4>1. gone = Evicted(f) \cup {last} BY <2>1
      <4> HIDE DEF gone, last
      <4> QED BY <4>1
    <3>3. Listed \ ({f} \X gone) = Listed \ {<<f, last>>}
      <4>1. Listed \ ({f} \X Evicted(f)) = Listed BY EvictedNotListed
      <4> HIDE DEF gone, last
      <4> QED BY <3>2, <4>1
    <3> HIDE DEF last, gone
    <3> QED BY <1>2, <2>1, <3>1, <3>3
  <2>2. CASE ~drops
    <3>1. gone = Evicted(f) BY <2>2
    <3> HIDE DEF last, gone
    <3> QED BY <1>1, <1>2, <2>2, <3>1, EvictedNotListed DEF Listed
  <2> QED BY <2>1, <2>2
<1>8. cacheSize' = cacheSize - Cardinality(A)
  <2>1. CASE drops
    <3>1. last \in SegmentNos /\ <<f, last>> \in Listed /\ gone = Evicted(f) \cup {last}
      BY <1>1, <2>1 DEF ListedInMemory, InIndex
    <3>2. cacheSize' = cacheSize - SegmentSize(f, last) BY <1>2, <2>1
    <3> HIDE DEF last, gone, drops
    <3>3. A = {f} \X MappedPages(f, last)
      <4>1. ASSUME NEW g \in Files, NEW p \in Pages
            PROVE  <<g, p>> \in A <=> <<g, p>> \in {f} \X MappedPages(f, last)
        <5>1. <<g, p>> \in A <=> <<g, p>> \in CachedPages /\ g = f /\ SegmentOf(p) \in gone OBVIOUS
        <5>2. <<g, p>> \in CachedPages /\ g = f => SegmentOf(p) \notin Evicted(f)
          BY EvictedNotListed
        <5>3. <<g, p>> \in CachedPages <=> buffer[g][p] # Null /\ <<g, SegmentOf(p)>> \in Listed
          BY DEF CachedPages
        <5>4. p \in MappedPages(f, last) <=> SegmentOf(p) = last /\ buffer[f][p] # Null
          BY DEF MappedPages, PagesOf
        <5> QED BY <3>1, <5>1, <5>2, <5>3, <5>4
      <4>2. CachedPages \subseteq Files \X Pages BY DEF CachedPages
      <4>3. A \subseteq Files \X Pages BY <4>2
      <4>4. {f} \X MappedPages(f, last) \subseteq Files \X Pages BY DEF MappedPages, PagesOf
      <4> HIDE DEF A
      <4> QED BY <4>1, <4>3, <4>4
    <3>4. Cardinality(A) = SegmentSize(f, last) BY <3>3, PagesFinite, PairsOf DEF SegmentSize
    <3> QED BY <3>2, <3>4
  <2>2. CASE ~drops
    <3>1. gone = Evicted(f) BY <2>2
    <3>2. A = {}
      <4> HIDE DEF gone
      <4> QED BY <3>1, EvictedNotListed
    <3>3. Cardinality(A) = 0 BY <3>2, FS_EmptySet
    <3>4. cacheSize \in Nat BY <1>1, CachedPagesBounds DEF CacheParts, SizeIsPages
    <3>5. cacheSize' = cacheSize BY <1>2, <2>2
    <3> HIDE DEF A
    <3> QED BY <3>3, <3>4, <3>5
  <2> QED BY <2>1, <2>2
<1>9. CacheParts'
  <2>1. Evicted(f) \subseteq gone OBVIOUS
  <2> HIDE DEF gone
  <2> QED BY <1>2, <1>7, <1>8, <2>1, SegmentsGo
<1>10. \A g \in Files : g # f => buffer'[g] = buffer[g] BY <1>1, <1>2
<1>11. OtherTypes'
  <2> HIDE DEF end, shrunk, drops, gone, zeroed, list
  <2>1. diskLen' \in [Files -> 0 .. MaxPages] BY <1>1, <1>2, <1>3 DEF OtherTypes
  <2>2. fileSize' \in [Files -> 0 .. MaxPages] BY <1>1, <1>2, <1>3 DEF OtherTypes
  <2>3. position' \in [Files -> Nat] BY <1>1, <1>2, <1>6 DEF OtherTypes
  <2>4. disk' \in [Files -> [Pages -> Values]] BY <1>1, <1>2, <1>5 DEF OtherTypes
  <2>5. dirty' \in [Files -> SUBSET SegmentNos] BY <1>1, <1>2 DEF OtherTypes
  <2>6. call' \in Calls \cup {NoCall, Hung} BY <1>2
  <2> QED BY <1>1, <1>2, <2>1, <2>2, <2>3, <2>4, <2>5, <2>6 DEF OtherTypes
<1>12. OpenOnly' BY <1>1, <1>2, <1>10, StaysOpenOnly
<1>13. call' \in {next, Hung} BY <1>2
<1> QED BY <1>2, <1>9, <1>11, <1>12, <1>13

LEMMA NotACall ==
  /\ NoCall \notin Calls /\ NoCall.kind = "none"
  /\ Hung \notin Calls /\ Hung.kind = "hung"
BY DEF NoCall, Hung, Calls

LEMMA CallUnderWay ==
  ASSUME CacheInv, call.kind \in {"read", "write", "copy"}
  PROVE  /\ call \in Calls /\ call.file \in Files /\ opened[call.file]
         /\ call.val \in Values /\ call.pos \in 0 .. MaxPages /\ call.remain \in 1 .. MaxPages
         /\ call.pos + call.remain <= MaxPages
         /\ fileSize[call.file] \in 0 .. MaxPages
         /\ call = [kind |-> call.kind, file |-> call.file, pos |-> call.pos,
                    remain |-> call.remain, val |-> call.val]
<1>1. call \in Calls BY NotACall DEF CacheInv, CacheTypes, TypeOK
<1>2. /\ call.file \in Files /\ call.pos \in 0 .. MaxPages
      /\ call.remain \in 1 .. MaxPages /\ call.val \in Values
  BY <1>1 DEF Calls
<1>3. call = [kind |-> call.kind, file |-> call.file, pos |-> call.pos,
              remain |-> call.remain, val |-> call.val]
  BY <1>1 DEF Calls
<1> QED BY <1>1, <1>2, <1>3 DEF CacheInv, CallIsOpen, CacheTypes, TypeOK

(* A transfer goes on with the pages that remain, ends, or hangs.          *)
LEMMA AdvanceTypes ==
  ASSUME CacheInv, call.kind \in {"read", "write", "copy"}, NEW kind \in {"read", "write", "copy"},
         NEW P, P = Chunk(call.file, call.pos, call.remain)
  PROVE  /\ Advance(P, kind) \in Calls \cup {NoCall, Hung}
         /\ Advance(P, kind) \in Calls =>
              /\ Advance(P, kind).file = call.file
              /\ Advance(P, kind).pos + Advance(P, kind).remain <= MaxPages
<1>1. /\ call.file \in Files /\ call.val \in Values
      /\ call.pos \in 0 .. MaxPages /\ call.remain \in 1 .. MaxPages
      /\ call.pos + call.remain <= MaxPages /\ MaxPages \in Nat
      /\ call = [kind |-> call.kind, file |-> call.file, pos |-> call.pos,
                 remain |-> call.remain, val |-> call.val]
  BY CallUnderWay, FileAssumption
<1>2. /\ IsFiniteSet(P) /\ Cardinality(P) \in Nat /\ Cardinality(P) <= call.remain
      /\ P # {} => Cardinality(P) # 0
  <2> DEFINE a == call.pos
             b == call.pos + call.remain - 1
  <2>1. a \in Int /\ b \in Int /\ ~(a > b) /\ b - a + 1 = call.remain BY <1>1
  <2>2. P \subseteq a .. b BY <1>1 DEF Chunk, PagesOf, Pages
  <2> HIDE DEF a, b
  <2>3. IsFiniteSet(a .. b) /\ Cardinality(a .. b) = call.remain BY <2>1, FS_Interval
  <2>4. IsFiniteSet(P) /\ Cardinality(P) <= call.remain BY <2>2, <2>3, FS_Subset
  <2>5. Cardinality(P) \in Nat /\ (P # {} => Cardinality(P) # 0)
    BY <2>4, FS_CardinalityType, FS_EmptySet
  <2> QED BY <2>4, <2>5
<1>3. CASE P = {} BY <1>3, NotACall DEF Advance
<1>4. CASE P # {} /\ Cardinality(P) = call.remain BY <1>4, NotACall DEF Advance
<1>5. CASE P # {} /\ Cardinality(P) # call.remain
  <2> DEFINE n == Cardinality(P)
  <2>1. Advance(P, kind) = [call EXCEPT !.kind = kind, !.pos = @ + n, !.remain = @ - n]
    BY <1>5 DEF Advance
  <2>2. n \in Nat /\ n < call.remain /\ n # 0 BY <1>1, <1>2, <1>5
  <2> HIDE DEF n
  <2>3. Advance(P, kind) = [kind |-> kind, file |-> call.file, pos |-> call.pos + n,
                            remain |-> call.remain - n, val |-> call.val]
    BY <1>1, <2>1, Zenon
  <2>4. /\ call.pos + n \in 0 .. MaxPages /\ call.remain - n \in 1 .. MaxPages
        /\ (call.pos + n) + (call.remain - n) <= MaxPages
    BY <1>1, <2>2
  <2>5. Advance(P, kind) \in Calls BY <1>1, <2>3, <2>4 DEF Calls
  <2>6. /\ Advance(P, kind).file = call.file /\ Advance(P, kind).pos = call.pos + n
        /\ Advance(P, kind).remain = call.remain - n
    BY <2>3
  <2> QED BY <2>4, <2>5, <2>6
<1> QED BY <1>3, <1>4, <1>5

(* A step that only starts, ends or continues a call.                      *)
LEMMA OnlyTheCall ==
  ASSUME CacheInv, UNCHANGED <<fileVars, segVars, cacheVars, pending>>,
         call' \in Calls \cup {NoCall, Hung}, buff' \in [Pages -> Values], CallIsOpen'
  PROVE  CacheInv'
<1>1. UNCHANGED <<disk, diskLen, opened, fileSize, position, buffer, dirty, removeList, lru, cacheSize, pending>>
  BY DEF fileVars, segVars, cacheVars
<1>2. CacheParts /\ OtherTypes /\ OpenOnly BY InvParts
<1>3. Listed' = Listed /\ \A f : Evicted(f)' = Evicted(f) /\ InIndex(f)' = InIndex(f)
  BY <1>1 DEF Listed, Evicted, InIndex, MappedPages
<1>4. CachedPages' = CachedPages BY <1>1, <1>3 DEF CachedPages
<1>5. NoDuplicates' BY <1>1, <1>2 DEF CacheParts, NoDuplicates
<1>6. ListedInMemory' BY <1>2, <1>3 DEF CacheParts, ListedInMemory
<1>7. SizeIsPages' BY <1>1, <1>2, <1>4 DEF CacheParts, SizeIsPages
<1>8. FewSegments' BY <1>1, <1>2 DEF CacheParts, FewSegments, MostSegments
<1>9. CacheParts' BY <1>1, <1>2, <1>5, <1>6, <1>7, <1>8 DEF CacheParts
<1>10. OtherTypes' BY <1>1, <1>2 DEF OtherTypes
<1>11. OpenOnly' BY <1>1, <1>2 DEF OpenOnly
<1> QED BY <1>9, <1>10, <1>11, InvPartsNext

LEMMA OpenCache ==
  ASSUME CacheInv, NEW f \in Files, Open(f)
  PROVE  CacheInv'
<1> DEFINE n == IF diskLen[f] = 0 THEN SegmentPages ELSE diskLen[f]
           A == {fp \in CachedPages : fp[1] = f /\ SegmentOf(fp[2]) \in SegmentNos}
<1>1. /\ CacheParts /\ OtherTypes /\ OpenOnly /\ CallIsOpen /\ ListedInMemory /\ SizeIsPages
      /\ CacheTypes /\ NoDuplicates
      /\ lru \in Seq(Files \X SegmentNos) /\ IsInjective(lru)
      /\ SegmentPages \in 1 .. MaxPages /\ MaxPages \in Nat
  BY InvParts, FileAssumption DEF CacheParts, NoDuplicates, CacheInv
<1>2. /\ call = NoCall /\ ~opened[f]
      /\ opened' = [opened EXCEPT ![f] = TRUE]
      /\ diskLen' = [diskLen EXCEPT ![f] = n]
      /\ fileSize' = [fileSize EXCEPT ![f] = n]
      /\ position' = [position EXCEPT ![f] = n - diskLen[f]]
      /\ buffer' = [buffer EXCEPT ![f] = [p \in Pages |-> Null]]
      /\ dirty' = [dirty EXCEPT ![f] = {}]
      /\ removeList' = [removeList EXCEPT ![f] = <<>>]
      /\ UNCHANGED <<disk, lru, cacheSize, call, buff, pending>>
  BY DEF Open, Idle, cacheVars
<1>3. n \in 0 .. MaxPages /\ n - diskLen[f] \in Nat
  <2>1. diskLen[f] \in 0 .. MaxPages BY <1>1 DEF OtherTypes
  <2> QED BY <1>1, <2>1
<1>4. Dropped(f, SegmentNos) = [p \in Pages |-> Null] BY SegmentOfType DEF Dropped
<1>5. Listed \ ({f} \X SegmentNos) = Listed /\ A = {}
  <2>1. InIndex(f) = {} BY <1>1, <1>2 DEF OpenOnly, InIndex, MappedPages, PagesOf
  <2>2. \A i \in SegmentNos : <<f, i>> \notin Listed BY <1>1, <2>1 DEF ListedInMemory
  <2>3. \A fp \in CachedPages : fp[2] \in Pages /\ <<fp[1], SegmentOf(fp[2])>> \in Listed
    BY DEF CachedPages
  <2>4. A = {} BY <2>2, <2>3
  <2>5. Listed \ ({f} \X SegmentNos) = Listed BY <2>2
  <2> QED BY <2>4, <2>5
<1>6. cacheSize' = cacheSize - Cardinality(A)
  <2>1. Cardinality(A) = 0 BY <1>5, FS_EmptySet
  <2>2. cacheSize \in Nat BY <1>1, CachedPagesBounds DEF SizeIsPages
  <2> HIDE DEF A
  <2> QED BY <1>2, <2>1, <2>2
<1>7. CacheParts'
  <2>1. Evicted(f) \subseteq SegmentNos BY <1>1 DEF CacheParts, Evicted
  <2>2. Range(lru') = Listed \ ({f} \X SegmentNos) BY <1>2, <1>5 DEF Listed
  <2> HIDE DEF n
  <2> QED BY <1>1, <1>2, <1>4, <1>6, <2>1, <2>2, SegmentsGo
<1>8. OtherTypes'
  <2> HIDE DEF n
  <2> QED BY <1>1, <1>2, <1>3 DEF OtherTypes
<1>9. OpenOnly' BY <1>1, <1>2 DEF OpenOnly, OtherTypes, CacheParts
<1>10. CallIsOpen' BY <1>2, NotACall DEF CallIsOpen
<1> QED BY <1>7, <1>8, <1>9, <1>10, InvPartsNext

LEMMA SetLengthCache ==
  ASSUME CacheInv, NEW f \in Files, NEW n \in 1 .. MaxPages, SetLength(f, n)
  PROVE  CacheInv'
<1>1. /\ opened[f] /\ n > fileSize[f] /\ Resize(f, n, NoCall) /\ UNCHANGED <<buff, pending>>
      /\ n \in Nat /\ NoCall \in Calls \cup {NoCall}
  BY FileAssumption DEF SetLength
<1>2. CacheParts' /\ OtherTypes' /\ OpenOnly' /\ call' \in {NoCall, Hung}
  BY <1>1, ResizeCache
<1>3. CallIsOpen' BY <1>2, NotACall DEF CallIsOpen
<1> QED BY <1>2, <1>3, InvPartsNext

LEMMA BeginReadCache ==
  ASSUME CacheInv, NEW f \in Files, NEW pos \in Pages, NEW n \in 1 .. MaxCount, BeginRead(f, pos, n)
  PROVE  CacheInv'
<1>1. Zero \in Values /\ MaxPages \in Nat /\ MaxCount \in 1 .. MaxPages BY FileAssumption
<1>2. /\ opened[f] /\ pos + n <= MaxPages
      /\ call' = [kind |-> "read", file |-> f, pos |-> pos, remain |-> n, val |-> Zero]
      /\ buff' = [p \in Pages |-> Zero]
      /\ UNCHANGED <<fileVars, segVars, cacheVars, pending>>
  BY DEF BeginRead
<1>3. pos \in 0 .. MaxPages /\ n \in 1 .. MaxPages BY <1>1 DEF Pages
<1>4. call' \in Calls BY <1>1, <1>2, <1>3 DEF Calls
<1>5. CallIsOpen' BY <1>2 DEF CallIsOpen, fileVars
<1>6. buff' \in [Pages -> Values] BY <1>1, <1>2
<1> QED BY <1>2, <1>4, <1>5, <1>6, OnlyTheCall

LEMMA BeginWriteCache ==
  ASSUME CacheInv, NEW f \in Files, NEW pos \in Pages, NEW n \in 1 .. MaxCount, NEW v \in Values,
         BeginWrite(f, pos, n, v)
  PROVE  CacheInv'
<1>1. MaxPages \in Nat /\ MaxCount \in 1 .. MaxPages BY FileAssumption
<1>2. /\ opened[f] /\ pos + n <= MaxPages
      /\ call' = [kind |-> "write", file |-> f, pos |-> pos, remain |-> n, val |-> v]
      /\ UNCHANGED <<fileVars, segVars, cacheVars, buff, pending>>
  BY DEF BeginWrite
<1>3. pos \in 0 .. MaxPages /\ n \in 1 .. MaxPages BY <1>1 DEF Pages
<1>4. call' \in Calls BY <1>2, <1>3 DEF Calls
<1>5. CallIsOpen' BY <1>2 DEF CallIsOpen, fileVars
<1>6. buff' \in [Pages -> Values] BY <1>2 DEF CacheInv, CacheTypes, TypeOK
<1> QED BY <1>2, <1>4, <1>5, <1>6, OnlyTheCall

(* One iteration of a transfer that uses the pages P of a segment.         *)
LEMMA TransferCache ==
  ASSUME CacheInv, call.kind \in {"read", "write", "copy"}, call.pos < fileSize[call.file],
         NEW kind \in {"read", "write", "copy"}, NEW v \in Values,
         NEW P, P = Chunk(call.file, call.pos, call.remain), NEW W \in SUBSET P,
         GetSegment(call.file, SegmentOf(call.pos), W, v), call' = Advance(P, kind),
         \/ buff' = buff
         \/ buff' = [p \in Pages |-> IF p \in P THEN buffer'[call.file][p] ELSE buff[p]],
         pending' \in [Files -> [Pages -> SUBSET Values]]
  PROVE  CacheInv'
<1> DEFINE f == call.file
           i == SegmentOf(call.pos)
<1>1. /\ f \in Files /\ opened[f] /\ call.pos \in 0 .. MaxPages
      /\ fileSize[f] \in 0 .. MaxPages /\ MaxPages \in Nat
  BY CallUnderWay, FileAssumption
<1>2. call.pos \in Pages /\ i \in SegmentNos /\ call.pos \in PagesOf(i)
  <2>1. call.pos \in Pages BY <1>1 DEF Pages
  <2> QED BY <2>1, SegmentOfType DEF PagesOf
<1>3. P \subseteq Usable(f, i) BY DEF Chunk, Usable
<1>4. /\ CacheParts /\ OtherTypes /\ OpenOnly /\ buff \in [Pages -> Values] BY InvParts DEF OtherTypes
<1>5. GetSegment(f, i, W, v) /\ W \in SUBSET Usable(f, i) /\ \E p \in PagesOf(i) : p < fileSize[f]
  BY <1>2, <1>3
<1>6. UNCHANGED <<diskLen, opened, fileSize>> BY DEF GetSegment
<1>7. /\ Advance(P, kind) \in Calls \cup {NoCall, Hung}
      /\ Advance(P, kind) \in Calls =>
           /\ Advance(P, kind).file = f
           /\ Advance(P, kind).pos + Advance(P, kind).remain <= MaxPages
  BY AdvanceTypes
<1>8. \A p \in P : SegmentOf(p) = i BY <1>3 DEF Usable, PagesOf
<1> HIDE DEF f, i
<1>9. CacheParts' BY <1>1, <1>2, <1>5, GetSegmentCache
<1>10. /\ disk' \in [Files -> [Pages -> Values]]
       /\ buffer' \in [Files -> [Pages -> Values \cup {Null}]]
       /\ dirty' \in [Files -> SUBSET SegmentNos]
       /\ position' \in [Files -> Nat]
       /\ \A g \in Files : g # f => buffer'[g] = buffer[g]
       /\ \A p \in Pages : buffer'[f][p] # Null <=>
            IF SegmentOf(p) = i THEN p \in Usable(f, i)
            ELSE buffer[f][p] # Null /\ SegmentOf(p) \notin Evicted(f)
  BY <1>1, <1>2, <1>5, GetSegmentMemory
<1>11. buff' \in [Pages -> Values]
  <2>1. CASE buff' = buff BY <1>4, <2>1
  <2>2. CASE buff' = [p \in Pages |-> IF p \in P THEN buffer'[call.file][p] ELSE buff[p]]
    <3>1. ASSUME NEW p \in Pages, p \in P PROVE buffer'[f][p] \in Values
      BY <1>1, <1>3, <1>8, <1>10, <3>1
    <3>2. \A p \in Pages : buff[p] \in Values BY <1>4
    <3> QED BY <2>2, <3>1, <3>2 DEF f
  <2> QED BY <2>1, <2>2
<1>12. OtherTypes' BY <1>4, <1>6, <1>7, <1>10, <1>11 DEF OtherTypes
<1>13. OpenOnly' BY <1>1, <1>4, <1>6, <1>10, StaysOpenOnly
<1>14. CallIsOpen' BY <1>1, <1>6, <1>7 DEF CallIsOpen
<1> QED BY <1>9, <1>12, <1>13, <1>14, InvPartsNext

LEMMA EndedCache ==
  ASSUME CacheInv, call' = NoCall, UNCHANGED <<fileVars, segVars, cacheVars, buff, pending>>
  PROVE  CacheInv'
<1>1. buff' \in [Pages -> Values] BY DEF CacheInv, CacheTypes, TypeOK
<1>2. CallIsOpen' BY NotACall DEF CallIsOpen
<1> QED BY <1>1, <1>2, OnlyTheCall

LEMMA ReadCache ==
  ASSUME CacheInv, ReadStep
  PROVE  CacheInv'
<1>0. call.kind = "read" BY DEF ReadStep
<1> DEFINE P == Chunk(call.file, call.pos, call.remain)
<1>1. /\ UNCHANGED pending
      /\ \/ call' = NoCall /\ UNCHANGED <<fileVars, segVars, cacheVars, buff>>
         \/ /\ call.pos < fileSize[call.file]
            /\ GetSegment(call.file, SegmentOf(call.pos), {}, Zero)
            /\ buff' = [p \in Pages |-> IF p \in P THEN buffer'[call.file][p] ELSE buff[p]]
            /\ call' = Advance(P, "read")
  BY DEF ReadStep
<1>2. CASE call' = NoCall /\ UNCHANGED <<fileVars, segVars, cacheVars, buff>>
  BY <1>1, <1>2, EndedCache
<1>3. CASE /\ call.pos < fileSize[call.file]
           /\ GetSegment(call.file, SegmentOf(call.pos), {}, Zero)
           /\ buff' = [p \in Pages |-> IF p \in P THEN buffer'[call.file][p] ELSE buff[p]]
           /\ call' = Advance(P, "read")
  <2>1. pending' \in [Files -> [Pages -> SUBSET Values]] BY <1>1 DEF CacheInv, CacheTypes, TypeOK
  <2>2. {} \in SUBSET P /\ Zero \in Values BY FileAssumption
  <2>3. PICK Q : Q = P OBVIOUS
  <2> HIDE DEF P
  <2> QED BY <1>0, <1>3, <2>1, <2>2, <2>3, TransferCache DEF P
<1> QED BY <1>1, <1>2, <1>3

LEMMA WriteCopyCache ==
  ASSUME CacheInv, WriteCopy
  PROVE  CacheInv'
<1>0. call.kind = "copy" BY DEF WriteCopy
<1> DEFINE f == call.file
           P == Chunk(call.file, call.pos, call.remain)
<1>1. /\ UNCHANGED buff
      /\ \/ call' = NoCall /\ UNCHANGED <<fileVars, segVars, cacheVars, pending>>
         \/ /\ call.pos < fileSize[f]
            /\ GetSegment(f, SegmentOf(call.pos), P, call.val)
            /\ pending' = [pending EXCEPT ![f] = [p \in Pages |->
                             IF p \in P THEN @[p] \cup {call.val} ELSE @[p]]]
            /\ call' = Advance(P, "write")
  BY DEF WriteCopy
<1>2. CASE call' = NoCall /\ UNCHANGED <<fileVars, segVars, cacheVars, pending>>
  BY <1>1, <1>2, EndedCache
<1>3. CASE /\ call.pos < fileSize[f]
           /\ GetSegment(f, SegmentOf(call.pos), P, call.val)
           /\ pending' = [pending EXCEPT ![f] = [p \in Pages |->
                            IF p \in P THEN @[p] \cup {call.val} ELSE @[p]]]
           /\ call' = Advance(P, "write")
  <2>1. /\ call.val \in Values /\ f \in Files /\ pending \in [Files -> [Pages -> SUBSET Values]]
    BY <1>0, CallUnderWay DEF CacheInv, CacheTypes, TypeOK
  <2>2. pending' \in [Files -> [Pages -> SUBSET Values]]
    <3> HIDE DEF f, P
    <3>1. [p \in Pages |-> IF p \in P THEN pending[f][p] \cup {call.val} ELSE pending[f][p]]
            \in [Pages -> SUBSET Values]
      BY <2>1
    <3> QED BY <1>3, <2>1, <3>1
  <2>3. P \in SUBSET P OBVIOUS
  <2> HIDE DEF P
  <2> QED BY <1>0, <1>1, <1>3, <2>1, <2>2, <2>3, TransferCache DEF P
<1> QED BY <1>1, <1>2, <1>3

LEMMA WriteCheckCache ==
  ASSUME CacheInv, WriteCheck
  PROVE  CacheInv'
<1>0. call.kind = "write" BY DEF WriteCheck
<1> DEFINE f == call.file
           next == [call EXCEPT !.kind = "copy"]
           n == fileSize[f] + SegmentPages
<1>1. /\ UNCHANGED <<buff, pending>>
      /\ \/ Resize(f, n, next)
         \/ call' = next /\ UNCHANGED <<fileVars, segVars, cacheVars>>
  BY DEF WriteCheck
<1>2. /\ f \in Files /\ opened[f] /\ fileSize[f] \in 0 .. MaxPages /\ call.val \in Values
      /\ call.pos \in 0 .. MaxPages /\ call.remain \in 1 .. MaxPages
      /\ call.pos + call.remain <= MaxPages
      /\ call = [kind |-> call.kind, file |-> call.file, pos |-> call.pos,
                 remain |-> call.remain, val |-> call.val]
      /\ SegmentPages \in Nat /\ SegmentPages >= 1
  BY <1>0, CallUnderWay, FileAssumption
<1>3. next = [kind |-> "copy", file |-> f, pos |-> call.pos, remain |-> call.remain, val |-> call.val]
  <2>1. \A k, g, p, r, v, c : c = [kind |-> k, file |-> g, pos |-> p, remain |-> r, val |-> v]
          => [c EXCEPT !.kind = "copy"] = [kind |-> "copy", file |-> g, pos |-> p, remain |-> r, val |-> v]
    OBVIOUS
  <2> QED BY <1>2, <2>1
<1>4. next \in Calls BY <1>2, <1>3 DEF Calls
<1>5. next.file = f /\ next.pos + next.remain <= MaxPages BY <1>2, <1>3
<1> HIDE DEF next
<1>6. CASE Resize(f, n, next)
  <2>1. n \in Nat /\ n > fileSize[f] BY <1>2
  <2>2. next \in Calls \cup {NoCall} BY <1>4
  <2> HIDE DEF f, n
  <2>3. CacheParts' /\ OtherTypes' /\ OpenOnly' /\ opened' = opened /\ call' \in {next, Hung}
    BY <1>1, <1>2, <1>6, <2>1, <2>2, ResizeCache DEF n
  <2>4. CallIsOpen' BY <1>2, <1>5, <2>3, NotACall DEF CallIsOpen
  <2> QED BY <2>3, <2>4, InvPartsNext
<1>7. CASE call' = next /\ UNCHANGED <<fileVars, segVars, cacheVars>>
  <2>1. CallIsOpen' BY <1>2, <1>5, <1>7 DEF CallIsOpen, fileVars
  <2>2. buff' \in [Pages -> Values] BY <1>1 DEF CacheInv, CacheTypes, TypeOK
  <2> QED BY <1>1, <1>4, <1>7, <2>1, <2>2, OnlyTheCall
<1> QED BY <1>1, <1>6, <1>7

LEMMA SyncCache ==
  ASSUME CacheInv, NEW f \in Files, Sync(f)
  PROVE  CacheInv'
<1> DEFINE gone == Evicted(f)
           A == {fp \in CachedPages : fp[1] = f /\ SegmentOf(fp[2]) \in gone}
           order == IndexOrder(dirty[f] \ gone)
           list == removeList[f] \o order
           seen == [p \in Pages |-> {View(f)[p]}]
           flushed == Flushed(f, SegmentNos, disk[f])
           at == AfterWriteBack(f, list, position[f])
<1>1. /\ CacheParts /\ OtherTypes /\ OpenOnly /\ CallIsOpen /\ ListedInMemory /\ SizeIsPages
      /\ CacheTypes /\ NoDuplicates /\ removeList[f] \in Seq(SegmentNos)
      /\ lru \in Seq(Files \X SegmentNos) /\ IsInjective(lru) /\ cacheSize \in Nat
  <2>1. CacheParts /\ OtherTypes /\ OpenOnly /\ CallIsOpen BY InvParts
  <2>2. CacheTypes /\ NoDuplicates /\ ListedInMemory /\ SizeIsPages BY DEF CacheInv
  <2>3. cacheSize \in Nat BY <2>2, CachedPagesBounds DEF SizeIsPages
  <2> QED BY <2>1, <2>2, <2>3 DEF CacheParts, NoDuplicates
<1>2. /\ opened[f]
      /\ disk' = [disk EXCEPT ![f] = flushed]
      /\ position' = [position EXCEPT ![f] = at]
      /\ buffer' = [buffer EXCEPT ![f] = Dropped(f, gone)]
      /\ dirty' = [dirty EXCEPT ![f] = {}]
      /\ removeList' = [removeList EXCEPT ![f] = <<>>]
      /\ pending' = [pending EXCEPT ![f] = seen]
      /\ UNCHANGED <<diskLen, opened, fileSize, lru, cacheSize, call, buff>>
  BY DEF Sync, cacheVars
<1>3. flushed \in [Pages -> Values] BY <1>1, FlushedType DEF OtherTypes
<1>4. at \in Nat
  <2>1. PICK n \in Nat : n = Cardinality(dirty[f] \ gone)
    <3>1. MaxPages \in Nat BY FileAssumption
    <3>2. IsFiniteSet(SegmentNos) BY <3>1, FS_Interval DEF SegmentNos
    <3>3. dirty[f] \ gone \in SUBSET SegmentNos BY <1>1 DEF OtherTypes
    <3> HIDE DEF gone
    <3> QED BY <3>2, <3>3, FS_Subset, FS_CardinalityType
  <2>2. order = [k \in 1 .. n |-> order[k]]
    <3> DEFINE D == dirty[f] \ gone
               th(k) == CHOOSE i \in D : Cardinality({j \in D : j < i}) = k - 1
    <3>1. order = [k \in 1 .. n |-> th(k)] BY <2>1 DEF IndexOrder
    <3> HIDE DEF th, order
    <3> QED BY <3>1
  <2> HIDE DEF order
  <2>3. order \in Seq({order[k] : k \in 1 .. n})
    <3> DEFINE T == {order[k] : k \in 1 .. n}
    <3>1. \A k \in 1 .. n : order[k] \in T OBVIOUS
    <3>2. order \in [1 .. n -> T] BY <2>2, <3>1
    <3> HIDE DEF T
    <3>3. order \in Seq(T) BY <3>2
    <3> QED BY <3>3 DEF T
  <2>4. PICK m \in Nat : DOMAIN list = 1 .. m
    <3> DEFINE T == {order[k] : k \in 1 .. n}
    <3>1. order \in Seq(SegmentNos \cup T) /\ removeList[f] \in Seq(SegmentNos \cup T)
      BY <1>1, <2>3
    <3> HIDE DEF T
    <3>2. list \in Seq(SegmentNos \cup T) BY <3>1
    <3> HIDE DEF list
    <3> QED BY <3>2
  <2>5. position[f] \in Nat BY <1>1 DEF OtherTypes
  <2> HIDE DEF list
  <2> QED BY <1>1, <2>4, <2>5, AfterWriteBackType
<1>5. seen \in [Pages -> SUBSET Values] BY ViewValues
<1>6. Listed \ ({f} \X gone) = Listed /\ A = {} BY EvictedNotListed
<1>7. cacheSize' = cacheSize - Cardinality(A)
  <2>1. Cardinality(A) = 0 BY <1>6, FS_EmptySet
  <2> HIDE DEF A
  <2> QED BY <1>1, <1>2, <2>1
<1>8. CacheParts'
  <2>1. Range(lru') = Listed \ ({f} \X gone) BY <1>2, <1>6 DEF Listed
  <2>2. Evicted(f) \subseteq gone OBVIOUS
  <2> HIDE DEF gone, flushed, at, seen
  <2> QED BY <1>1, <1>2, <1>7, <2>1, <2>2, SegmentsGo
<1>9. OtherTypes'
  <2> HIDE DEF flushed, at, seen
  <2> QED BY <1>1, <1>2, <1>3, <1>4, <1>5 DEF OtherTypes
<1>10. OpenOnly'
  <2>1. \A g \in Files : g # f => buffer'[g] = buffer[g] BY <1>1, <1>2 DEF CacheParts
  <2> QED BY <1>1, <1>2, <2>1, StaysOpenOnly
<1>11. CallIsOpen' BY <1>1, <1>2 DEF CallIsOpen
<1> QED BY <1>8, <1>9, <1>10, <1>11, InvPartsNext

LEMMA CloseCache ==
  ASSUME CacheInv, NEW f \in Files, Close(f)
  PROVE  CacheInv'
<1> DEFINE kept == InIndex(f) \ Evicted(f)
           A == {fp \in CachedPages : fp[1] = f /\ SegmentOf(fp[2]) \in SegmentNos}
           M == UNION {MappedPages(f, i) : i \in kept}
           seen == [p \in Pages |-> {View(f)[p]}]
           flushed == Flushed(f, SegmentNos, disk[f])
<1>1. /\ CacheParts /\ OtherTypes /\ OpenOnly /\ CallIsOpen /\ ListedInMemory /\ SizeIsPages
      /\ CacheTypes /\ NoDuplicates
      /\ lru \in Seq(Files \X SegmentNos) /\ IsInjective(lru)
  BY InvParts DEF CacheParts, NoDuplicates, CacheInv
<1>2. /\ call = NoCall
      /\ disk' = [disk EXCEPT ![f] = flushed]
      /\ opened' = [opened EXCEPT ![f] = FALSE]
      /\ buffer' = [buffer EXCEPT ![f] = [p \in Pages |-> Null]]
      /\ dirty' = [dirty EXCEPT ![f] = {}]
      /\ removeList' = [removeList EXCEPT ![f] = <<>>]
      /\ lru' = Without({f} \X kept)
      /\ cacheSize' = cacheSize - Cardinality(M)
      /\ position' = [position EXCEPT ![f] = 0]
      /\ fileSize' = [fileSize EXCEPT ![f] = 0]
      /\ pending' = [pending EXCEPT ![f] = seen]
      /\ UNCHANGED <<diskLen, call, buff>>
  BY DEF Close, Idle
<1>3. flushed \in [Pages -> Values] BY <1>1, FlushedType DEF OtherTypes
<1>4. seen \in [Pages -> SUBSET Values] BY ViewValues
<1>5. Dropped(f, SegmentNos) = [p \in Pages |-> Null] BY SegmentOfType DEF Dropped
<1>6. \A i \in SegmentNos : <<f, i>> \in Listed <=> i \in kept BY <1>1 DEF ListedInMemory
<1>7. kept \subseteq SegmentNos BY DEF InIndex
<1>8. /\ lru' \in Seq(Files \X SegmentNos) /\ IsInjective(lru')
      /\ Range(lru') = Listed \ ({f} \X SegmentNos)
  <2>1. /\ lru' \in Seq(Files \X SegmentNos) /\ IsInjective(lru')
        /\ Range(lru') = Listed \ ({f} \X kept)
    BY <1>1, <1>2, WithoutIs DEF Listed
  <2>2. Listed \ ({f} \X kept) = Listed \ ({f} \X SegmentNos)
    <3> HIDE DEF kept
    <3> QED BY <1>6, <1>7
  <2> QED BY <2>1, <2>2
<1>9. cacheSize' = cacheSize - Cardinality(A)
  <2>1. A = {f} \X M
    <3>1. ASSUME NEW g \in Files, NEW p \in Pages
          PROVE  <<g, p>> \in A <=> <<g, p>> \in {f} \X M
      <4>1. SegmentOf(p) \in SegmentNos BY SegmentOfType
      <4>2. <<g, p>> \in A <=> <<g, p>> \in CachedPages /\ g = f BY <4>1
      <4>3. <<g, p>> \in CachedPages <=> buffer[g][p] # Null /\ <<g, SegmentOf(p)>> \in Listed
        BY DEF CachedPages
      <4>4. p \in M <=> buffer[f][p] # Null /\ SegmentOf(p) \in kept
        <5>1. \A i : p \in MappedPages(f, i) <=> SegmentOf(p) = i /\ buffer[f][p] # Null
          BY DEF MappedPages, PagesOf
        <5> HIDE DEF kept
        <5> QED BY <5>1
      <4> HIDE DEF A, M, kept
      <4> QED BY <1>6, <4>1, <4>2, <4>3, <4>4
    <3>2. CachedPages \subseteq Files \X Pages BY DEF CachedPages
    <3>3. M \subseteq Pages BY DEF MappedPages, PagesOf
    <3>4. A \subseteq Files \X Pages /\ {f} \X M \subseteq Files \X Pages
      <4> HIDE DEF M
      <4> QED BY <3>2, <3>3
    <3> HIDE DEF A, M
    <3> QED BY <3>1, <3>4
  <2>2. IsFiniteSet(M)
    <3>1. M \in SUBSET Pages BY DEF MappedPages, PagesOf
    <3> HIDE DEF M
    <3> QED BY <3>1, PagesFinite, FS_Subset
  <2> HIDE DEF A, M
  <2>3. Cardinality(A) = Cardinality(M) BY <2>1, <2>2, PairsOf
  <2> QED BY <1>2, <2>3
<1>10. CacheParts'
  <2>1. Evicted(f) \subseteq SegmentNos BY <1>1 DEF CacheParts, Evicted
  <2> HIDE DEF kept, M, flushed, seen
  <2> QED BY <1>2, <1>5, <1>8, <1>9, <2>1, SegmentsGo
<1>11. OtherTypes'
  <2> HIDE DEF kept, M, flushed, seen
  <2>1. MaxPages \in Nat /\ 0 \in 0 .. MaxPages BY FileAssumption
  <2> QED BY <1>1, <1>2, <1>3, <1>4, <2>1 DEF OtherTypes
<1>12. OpenOnly' BY <1>1, <1>2 DEF OpenOnly, OtherTypes, CacheParts
<1>13. CallIsOpen' BY <1>2, NotACall DEF CallIsOpen
<1> QED BY <1>10, <1>11, <1>12, <1>13, InvPartsNext

(* An empty cache, whoever emptied it.                                     *)
LEMMA EmptyCacheNext ==
  ASSUME buffer' = [g \in Files |-> [p \in Pages |-> Null]], removeList' = [g \in Files |-> <<>>],
         lru' = <<>>, cacheSize' = 0
  PROVE  CacheParts' /\ OpenOnly'
<1>1. /\ \A g \in Files, p \in Pages : buffer'[g][p] = Null
      /\ \A g \in Files : removeList'[g] = <<>>
      /\ <<>> \in Seq(SegmentNos) /\ <<>> \in Seq(Files \X SegmentNos)
      /\ IsInjective(<<>>) /\ Range(<<>>) = {} /\ Len(<<>>) = 0
  BY DEF IsInjective, Range
<1>2. Listed' = {} /\ \A g \in Files : Evicted(g)' = {} /\ InIndex(g)' = {}
  BY <1>1 DEF Listed, Evicted, InIndex, MappedPages, PagesOf
<1>3. CachedPages' = {} BY <1>2 DEF CachedPages
<1>4. NoDuplicates' BY <1>1 DEF NoDuplicates
<1>5. ListedInMemory' BY <1>2 DEF ListedInMemory
<1>6. SizeIsPages' BY <1>3, FS_EmptySet DEF SizeIsPages
<1>7. FewSegments' BY <1>1, FileAssumption DEF FewSegments, MostSegments
<1>8. OpenOnly' BY <1>1 DEF OpenOnly
<1> QED BY <1>1, <1>4, <1>5, <1>6, <1>7, <1>8 DEF CacheParts

LEMMA CrashCache ==
  ASSUME CacheInv, NEW f \in Files, NEW k \in 0 .. MaxPages, Crash(f, k)
  PROVE  CacheInv'
<1> DEFINE flushed == Flushed(f, {i \in SegmentNos : i < k}, disk[f])
<1>1. /\ disk' = [disk EXCEPT ![f] = flushed]
      /\ opened' = [g \in Files |-> FALSE] /\ fileSize' = [g \in Files |-> 0]
      /\ position' = [g \in Files |-> 0]
      /\ buffer' = [g \in Files |-> [p \in Pages |-> Null]]
      /\ dirty' = [g \in Files |-> {}] /\ removeList' = [g \in Files |-> <<>>]
      /\ lru' = <<>> /\ cacheSize' = 0 /\ call' = NoCall
      /\ pending' = [g \in Files |-> [p \in Pages |-> {disk'[g][p]}]]
      /\ UNCHANGED <<diskLen, buff>>
  BY DEF Crash
<1>2. OtherTypes BY InvParts
<1>3. flushed \in [Pages -> Values] BY <1>2, FlushedType DEF OtherTypes
<1> HIDE DEF flushed
<1>4. disk' \in [Files -> [Pages -> Values]] BY <1>1, <1>2, <1>3 DEF OtherTypes
<1>5. pending' \in [Files -> [Pages -> SUBSET Values]]
  <2>1. \A g \in Files, p \in Pages : {disk'[g][p]} \in SUBSET Values BY <1>4
  <2> HIDE DEF flushed
  <2> QED BY <1>1, <2>1
<1>6. MaxPages \in Nat BY FileAssumption
<1>7. OtherTypes' BY <1>1, <1>2, <1>4, <1>5, <1>6 DEF OtherTypes
<1>8. CacheParts' /\ OpenOnly' BY <1>1, EmptyCacheNext
<1>9. CallIsOpen' BY <1>1, NotACall DEF CallIsOpen
<1> QED BY <1>7, <1>8, <1>9, InvPartsNext

LEMMA InitCache == Init => CacheInv
<1> SUFFICES ASSUME Init PROVE CacheInv OBVIOUS
<1>1. /\ \A g \in Files, p \in Pages : buffer[g][p] = Null
      /\ \A g \in Files : removeList[g] = <<>>
      /\ lru = <<>> /\ cacheSize = 0 /\ call = NoCall
      /\ <<>> \in Seq(SegmentNos) /\ <<>> \in Seq(Files \X SegmentNos)
      /\ IsInjective(<<>>) /\ Range(<<>>) = {} /\ Len(<<>>) = 0
      /\ buffer = [f \in Files |-> [p \in Pages |-> Null]] /\ removeList = [f \in Files |-> <<>>]
  BY DEF IsInjective, Range, Init
<1>2. Listed = {} /\ \A g \in Files : Evicted(g) = {} /\ InIndex(g) = {}
  BY <1>1 DEF Listed, Evicted, InIndex, MappedPages, PagesOf
<1>3. CachedPages = {} BY <1>2 DEF CachedPages
<1>4. NoDuplicates BY <1>1 DEF NoDuplicates
<1>5. ListedInMemory BY <1>2 DEF ListedInMemory
<1>6. SizeIsPages BY <1>1, <1>3, FS_EmptySet DEF SizeIsPages
<1>7. FewSegments BY <1>1, FileAssumption DEF FewSegments, MostSegments
<1>8. OpenOnly BY <1>1 DEF OpenOnly
<1>9. CacheParts BY <1>1, <1>4, <1>5, <1>6, <1>7 DEF CacheParts
<1>10. OtherTypes
  <2>1. MaxPages \in Nat /\ Zero \in Values BY FileAssumption
  <2> QED BY <2>1 DEF OtherTypes, Init
<1>11. CallIsOpen BY <1>1, NotACall DEF CallIsOpen
<1> QED BY <1>8, <1>9, <1>10, <1>11, InvParts

LEMMA NextCache ==
  ASSUME CacheInv, [Next]_vars
  PROVE  CacheInv'
<1>1. CASE \E f \in Files : Open(f) BY <1>1, OpenCache
<1>2. CASE \E f \in Files, n \in 1 .. MaxPages : SetLength(f, n) BY <1>2, SetLengthCache
<1>3. CASE \E f \in Files, pos \in Pages, n \in 1 .. MaxCount : BeginRead(f, pos, n)
  BY <1>3, BeginReadCache
<1>4. CASE \E f \in Files, pos \in Pages, n \in 1 .. MaxCount, v \in Values : BeginWrite(f, pos, n, v)
  BY <1>4, BeginWriteCache
<1>5. CASE \E f \in Files : Sync(f) BY <1>5, SyncCache
<1>6. CASE \E f \in Files : Close(f) BY <1>6, CloseCache
<1>7. CASE \E f \in Files, k \in 0 .. MaxPages : Crash(f, k) BY <1>7, CrashCache
<1>8. CASE ReadStep BY <1>8, ReadCache
<1>9. CASE WriteCheck BY <1>9, WriteCheckCache
<1>10. CASE WriteCopy BY <1>10, WriteCopyCache
<1>11. CASE UNCHANGED vars
  <2>1. UNCHANGED <<fileVars, segVars, cacheVars, pending, call, buff>> BY <1>11 DEF vars
  <2>2. /\ call' \in Calls \cup {NoCall, Hung} /\ buff' \in [Pages -> Values]
    BY <2>1 DEF CacheInv, CacheTypes, TypeOK
  <2>3. CallIsOpen' BY <2>1 DEF CacheInv, CallIsOpen, fileVars
  <2> QED BY <2>1, <2>2, <2>3, OnlyTheCall
<1> QED BY <1>1, <1>2, <1>3, <1>4, <1>5, <1>6, <1>7, <1>8, <1>9, <1>10, <1>11 DEF Next

-----------------------------------------------------------------------------
(* What the files share is consistent, whatever they do and however they   *)
(* grow: each segment in memory is on DiskCacheManager's list once, or     *)
(* waits once in its file's removeList; currentSize is the number of pages *)
(* the listed segments map; and there are no more of them than maxCache.   *)
THEOREM CacheIsConsistent == Spec => []CacheConsistent
<1>1. Init => CacheInv BY InitCache
<1>2. CacheInv /\ [Next]_vars => CacheInv' BY NextCache
<1>3. CacheInv => CacheConsistent BY InvImpliesConsistent
<1> QED BY <1>1, <1>2, <1>3, PTL DEF Spec
=============================================================================
