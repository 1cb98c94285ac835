--------------------------- MODULE LongRangeList ---------------------------
(***************************************************************************)
(* The list of ranges that holds the free blocks of a file store           *)
(* (filestore/LongRangeList, LongRange, LongRangeHitStatus): intervals of  *)
(* numbers, found by binary search, joined when they touch and split when  *)
(* a part is taken out.  Positions count from 1, and 0 is "not found".     *)
(***************************************************************************)
EXTENDS Integers, Sequences, FiniteSets, SequencesExt, LongRanges

CONSTANTS
  MaxNumber,   \* bound: the ranges lie in 0 .. MaxNumber
  RemoveInside \* environment: removeRange gets a part of one listed range,
               \* as VariableBlockHeader calls it

ASSUME RangeAssumption == MaxNumber \in Nat /\ RemoveInside \in BOOLEAN

Numbers == 0 .. MaxNumber
Ranges == {LongRange(min, max) : min \in Numbers, max \in Numbers}

VARIABLE list

-----------------------------------------------------------------------------
(* The binary search of hitStatus, from begin to end: the place where it   *)
(* stops, which is the range that holds value if there is one.             *)
BinarySearch(l, value) ==
  LET n == Len(l)
      Search[at \in (1 .. n + 1) \X (0 .. n)] ==
        LET mid   == (at[1] + at[2]) \div 2
            begin == IF Compare(l[mid], value) < 0 THEN mid + 1 ELSE at[1]
            end   == IF Compare(l[mid], value) > 0 THEN mid - 1 ELSE at[2]
        IN  IF Compare(l[mid], value) = 0 \/ begin > end THEN mid ELSE Search[<<begin, end>>]
  IN  Search[<<1, n>>]

Least(S) == IF S = {} THEN 0 ELSE CHOOSE i \in S : \A j \in S : i <= j
Greatest(S) == IF S = {} THEN 0 ELSE CHOOSE i \in S : \A j \in S : j <= i

(* hitStatus on a list that is not empty: the range that holds value, or   *)
(* else the nearest one in the direction asked for, from mid, where the    *)
(* search stopped.                                                         *)
Nearest(l, mid, value, findHigher) ==
  IF Compare(l[mid], value) = 0 THEN [included |-> mid, near |-> 0]
  ELSE [included |-> 0,
        near |-> IF findHigher
                 THEN Least({i \in mid .. Len(l) : Compare(l[i], value) > 0})
                 ELSE Greatest({i \in 1 .. mid : Compare(l[i], value) < 0})]

HitStatus(l, value, findHigher) == Nearest(l, BinarySearch(l, value), value, findHigher)

LowJoinable(l, status, range) ==
  \/ status.included # 0
  \/ status.near # 0 /\ l[status.near].max + 1 = range.min

HighJoinable(l, status, range) ==
  \/ status.included # 0
  \/ status.near # 0 /\ l[status.near].min - 1 = range.max

Pos(status) == IF status.included = 0 THEN status.near ELSE status.included

(* removeInclusion: the ranges strictly between the ones that hold, or are *)
(* nearest to, the bounds low and high; first is where they begin.         *)
Between(n, low, high) ==
  LET first == IF low.included # 0 THEN low.included + 1
               ELSE IF low.near # 0 THEN low.near ELSE n + 1
      last  == IF high.included # 0 THEN high.included - 1 ELSE high.near
  IN  [first |-> first, count |-> last - first + 1]

Inclusion(l, min, max) ==
  Between(Len(l), HitStatus(l, min, TRUE), HitStatus(l, max, FALSE))

Cut(l, inc) ==
  IF inc.count <= 0 THEN l
  ELSE SubSeq(l, 1, inc.first - 1) \o SubSeq(l, inc.first + inc.count, Len(l))

(* The rest of addRange: range is joined with the one below it, the one    *)
(* above, both or none.  The upper one moved down by what was cut below.   *)
JoinUpper(l, low, high, range) ==
  LET joined == LongRange(IF l[low].min < range.min THEN l[low].min ELSE range.min,
                          IF l[high].max > range.max THEN l[high].max ELSE range.max)
  IN  IF high = low THEN [l EXCEPT ![low] = joined]
      ELSE RemoveAt([l EXCEPT ![low] = joined], high)

(* A slip the checks must notice: a range that joins none goes below its   *)
(* lower neighbour.                                                        *)
JoinInsertsBelow(l, rest, range, minStatus, maxStatus, high) ==
  IF LowJoinable(l, minStatus, range) \/ HighJoinable(l, maxStatus, range) THEN l
  ELSE InsertAt(rest, IF minStatus.near = 0 THEN 1 ELSE minStatus.near, range)

(* A slip the checks must notice: ranges that touch are not joined.        *)
JoinUnlessTouching(l, rest, range, minStatus, maxStatus, high) ==
  IF minStatus.included # 0 \/ maxStatus.included # 0 THEN l
  ELSE InsertAt(rest, minStatus.near + 1, range)

Join(l, rest, range, minStatus, maxStatus, high) ==
  CASE LowJoinable(l, minStatus, range) /\ HighJoinable(l, maxStatus, range) ->
         JoinUpper(rest, Pos(minStatus), high, range)
    [] ~LowJoinable(l, minStatus, range) /\ HighJoinable(l, maxStatus, range) ->
         [rest EXCEPT ![high].min = range.min]
    [] LowJoinable(l, minStatus, range) /\ ~HighJoinable(l, maxStatus, range) ->
         [rest EXCEPT ![Pos(minStatus)].max = range.max]
    [] OTHER -> InsertAt(rest, minStatus.near + 1, range)

Added(l, range, minStatus, maxStatus, inc) ==
  Join(l, Cut(l, inc), range, minStatus, maxStatus,
       IF Pos(maxStatus) = Pos(minStatus) THEN Pos(minStatus)
       ELSE Pos(maxStatus) - inc.count)

AddRange(l, min, max) ==
  IF l = <<>> THEN <<LongRange(min, max)>>
  ELSE Added(l, LongRange(min, max), HitStatus(l, min, FALSE), HitStatus(l, max, TRUE),
             Inclusion(l, min, max))

(* A slip the checks must notice: the upper part keeps the last number.    *)
SplitOneShort(l, at, range) ==
  LET lowExists  == at # 0 /\ l[at].min < range.min
      highExists == at # 0 /\ l[at].max > range.max
  IN
  CASE lowExists /\ highExists ->
         InsertAt([l EXCEPT ![at].min = range.max], at, LongRange(l[at].min, range.min - 1))
    [] ~lowExists /\ highExists -> [l EXCEPT ![at].min = range.max]
    [] lowExists /\ ~highExists -> [l EXCEPT ![at].max = range.min - 1]
    [] OTHER -> IF at = 0 THEN Tail(l) ELSE RemoveAt(l, at)

(* needSplit, where l[at] holds a bound of range: the range is cut in two, *)
(* cut at one end, or taken out.  Nothing below looks at it when only the  *)
(* upper bound is held (at = 0): then ArrayList.remove(-1) takes out the   *)
(* first range, whatever it is.                                            *)
Split(l, at, range) ==
  LET lowExists  == at # 0 /\ l[at].min < range.min
      highExists == at # 0 /\ l[at].max > range.max
  IN
  CASE lowExists /\ highExists ->
         InsertAt([l EXCEPT ![at].min = range.max + 1], at, LongRange(l[at].min, range.min - 1))
    [] ~lowExists /\ highExists -> [l EXCEPT ![at].min = range.max + 1]
    [] lowExists /\ ~highExists -> [l EXCEPT ![at].max = range.min - 1]
    [] OTHER -> IF at = 0 THEN Tail(l) ELSE RemoveAt(l, at)

(* removeRange on a list that is not empty: what lies between the bounds   *)
(* goes first.  Ranges low and high that each hold one bound are trimmed,  *)
(* and go when nothing is left of them.                                    *)
Trimmed(l, low, high, range) ==
  SelectSeq([l EXCEPT ![low].max = range.min - 1, ![high].min = range.max + 1],
            LAMBDA r : r.min <= r.max)

Removed(rest, range, low, high, count) ==
  CASE low = 0 /\ high = 0 -> rest
    [] low # 0 /\ high # 0 /\ low # high -> Trimmed(rest, low, high - count, range)
    [] OTHER -> Split(rest, low, range)

RemoveRange(l, min, max) ==
  Removed(Cut(l, Inclusion(l, min, max)), LongRange(min, max),
          HitStatus(l, min, FALSE).included, HitStatus(l, max, TRUE).included,
          Inclusion(l, min, max).count)

(* toBinary writes the ranges in order and fromBinary adds them one by one *)
(* to an empty list.                                                       *)
Reloaded(l) ==
  LET Read[n \in 0 .. Len(l)] ==
        IF n = 0 THEN <<>> ELSE AddRange(Read[n - 1], l[n].min, l[n].max)
  IN  Read[Len(l)]

-----------------------------------------------------------------------------
EmptyList == list = <<>>

CallAddRange(min, max) == list' = AddRange(list, min, max)

Removable(min, max) ==
  /\ min <= max /\ list # <<>>
  /\ RemoveInside => \E i \in DOMAIN list : list[i].min <= min /\ max <= list[i].max

CallRemoveRange(min, max) ==
  /\ Removable(min, max)
  /\ list' = RemoveRange(list, min, max)

Reload == list' = Reloaded(list)

ListNext ==
  \/ \E min, max \in Numbers : min <= max /\ (CallAddRange(min, max) \/ CallRemoveRange(min, max))
  \/ Reload

ListSpec == EmptyList /\ [][ListNext]_list

-----------------------------------------------------------------------------
(* Bounds stay within the numbers that were added (no range below zero).   *)
ListTypeOK == list \in Seq(Ranges)

(* The ranges ascend, none is empty, and there is a gap between any two:   *)
(* what the binary search needs, and what assertList checks in part.       *)
Canonical ==
  /\ ListTypeOK
  /\ \A i \in DOMAIN list : list[i].min <= list[i].max
  /\ \A i, j \in DOMAIN list : i < j => list[i].max + 1 < list[j].min

(* The numbers in the list.                                                *)
Elements(l) == UNION {l[i].min .. l[i].max : i \in DOMAIN l}

(* Joins lose no number and invent none, wherever the new range lies.      *)
AddRangeIsUnion ==
  \A min, max \in Numbers : min <= max =>
    Elements(AddRange(list, min, max)) = Elements(list) \cup (min .. max)

(* removeRange takes out the numbers of its range and no others ("split",  *)
(* "no split" in LongRangeList.removeRange).                               *)
RemoveRangeIsDifference ==
  \A min, max \in Numbers : Removable(min, max) =>
    Elements(RemoveRange(list, min, max)) = Elements(list) \ (min .. max)

(* A list written to its file and read back has the same ranges.           *)
ReloadedIsSame == Reloaded(list) = list
=============================================================================
