-------------------------- MODULE FileStore_proofs --------------------------
(***************************************************************************)
(* Proofs about the variable block store and the list of its free ranges.  *)
(*                                                                         *)
(* LongRangeList, for lists of any length: the binary search finds what is *)
(* there, additions join and removals split as they should, and the list   *)
(* stays in order.                                                         *)
(*                                                                         *)
(* VariableBlockStore, for every size of its units, its file and its       *)
(* objects: the units taken for a block are those worked out again from    *)
(* the bytes it uses, every unit has one owner, and the free list does not *)
(* run empty inside an allocation.                                         *)
(***************************************************************************)
EXTENDS VariableBlockStore, LongRangeList, DataLemmas, FiniteSetTheorems

-----------------------------------------------------------------------------
(* Lists in order, with a gap between any two ranges (Canonical).          *)
Ordered(l) ==
  /\ l \in Seq(Ranges)
  /\ \A i \in DOMAIN l : l[i].min <= l[i].max
  /\ \A i, j \in DOMAIN l : i < j => l[i].max + 1 < l[j].min

LEMMA RangeIs ==
  /\ \A r \in Ranges : r.min \in Int /\ r.max \in Int /\ r = LongRange(r.min, r.max)
                       /\ r.min \in Numbers /\ r.max \in Numbers
  /\ \A min, max \in Numbers : /\ LongRange(min, max) \in Ranges
                               /\ LongRange(min, max).min = min /\ LongRange(min, max).max = max
BY RangeAssumption DEF Ranges, LongRange, Numbers

LEMMA OrderedIs ==
  ASSUME NEW l, Ordered(l)
  PROVE  /\ l \in Seq(Ranges) /\ Len(l) \in Nat /\ DOMAIN l = 1 .. Len(l)
         /\ \A i \in 1 .. Len(l) : /\ l[i] \in Ranges /\ l[i].min \in Int /\ l[i].max \in Int
                                   /\ l[i].min <= l[i].max
         /\ \A i, j \in 1 .. Len(l) : i < j => l[i].max + 1 < l[j].min
<1>1. l \in Seq(Ranges) /\ Len(l) \in Nat /\ DOMAIN l = 1 .. Len(l) BY DEF Ordered
<1>2. \A i \in 1 .. Len(l) : l[i] \in Ranges BY <1>1
<1> QED BY <1>1, <1>2, RangeIs DEF Ordered

LEMMA CompareIs ==
  ASSUME NEW r \in Ranges, r.min <= r.max, NEW v \in Int
  PROVE  /\ Compare(r, v) = 0 <=> r.min <= v /\ v <= r.max
         /\ Compare(r, v) < 0 <=> r.max < v
         /\ Compare(r, v) > 0 <=> v < r.min
BY RangeIs DEF Compare

(* The binary search, as a function of the bounds it has come to.          *)
Mid(at) == (at[1] + at[2]) \div 2
NextBegin(l, v, at) == IF Compare(l[Mid(at)], v) < 0 THEN Mid(at) + 1 ELSE at[1]
NextEnd(l, v, at)   == IF Compare(l[Mid(at)], v) > 0 THEN Mid(at) - 1 ELSE at[2]
Stops(l, v, at) == Compare(l[Mid(at)], v) = 0 \/ NextBegin(l, v, at) > NextEnd(l, v, at)
Bounds(l) == (1 .. Len(l) + 1) \X (0 .. Len(l))
IsSearch(S, l, v) ==
  S = [at \in Bounds(l) |-> IF Stops(l, v, at) THEN Mid(at)
                            ELSE S[<<NextBegin(l, v, at), NextEnd(l, v, at)>>]]

LEMMA BinarySearchIs ==
  ASSUME NEW l, NEW v
  PROVE  BinarySearch(l, v) = (CHOOSE S : IsSearch(S, l, v))[<<1, Len(l)>>]
BY DEF BinarySearch, IsSearch, Stops, Mid, NextBegin, NextEnd, Bounds

LEMMA MidIs ==
  ASSUME NEW l, Len(l) \in Nat, NEW v, NEW b \in 1 .. Len(l) + 1, NEW e \in 0 .. Len(l)
  PROVE  /\ Mid(<<b, e>>) \in Int
         /\ b > e => Stops(l, v, <<b, e>>)
         /\ b <= e => Mid(<<b, e>>) \in b .. e
         /\ ~Stops(l, v, <<b, e>>) =>
              /\ b <= e /\ NextBegin(l, v, <<b, e>>) \in 1 .. Len(l) + 1
              /\ NextEnd(l, v, <<b, e>>) \in 0 .. Len(l)
              /\ NextEnd(l, v, <<b, e>>) - NextBegin(l, v, <<b, e>>) < e - b
<1> DEFINE m == (b + e) \div 2
           c == Compare(l[m], v)
<1>1. c \in {-1, 0, 1} BY DEF Compare
<1>2. /\ Mid(<<b, e>>) = m
      /\ NextBegin(l, v, <<b, e>>) = IF c < 0 THEN m + 1 ELSE b
      /\ NextEnd(l, v, <<b, e>>) = IF c > 0 THEN m - 1 ELSE e
  BY DEF Mid, NextBegin, NextEnd
<1>3. Stops(l, v, <<b, e>>) <=> c = 0 \/ (IF c < 0 THEN m + 1 ELSE b) > (IF c > 0 THEN m - 1 ELSE e)
  BY <1>2 DEF Stops, Mid
<1>4. m \in Int /\ 2 * m <= b + e /\ b + e < 2 * m + 2 OBVIOUS
<1> HIDE DEF m, c
<1>5. b > e => e <= m /\ m < b BY <1>4
<1>6. b <= e => b <= m /\ m <= e BY <1>4
<1>7. b > e => Stops(l, v, <<b, e>>) BY <1>1, <1>3, <1>4, <1>5
<1>8. ASSUME ~Stops(l, v, <<b, e>>)
      PROVE  /\ b <= e /\ NextBegin(l, v, <<b, e>>) \in 1 .. Len(l) + 1
             /\ NextEnd(l, v, <<b, e>>) \in 0 .. Len(l)
             /\ NextEnd(l, v, <<b, e>>) - NextBegin(l, v, <<b, e>>) < e - b
  <2>1. b <= e /\ b <= m /\ m <= e BY <1>6, <1>7, <1>8
  <2>2. CASE c < 0 BY <1>2, <1>4, <2>1, <2>2
  <2>3. CASE c > 0 BY <1>2, <1>4, <2>1, <2>3
  <2> QED BY <1>1, <1>3, <1>8, <2>2, <2>3
<1> QED BY <1>2, <1>4, <1>6, <1>7, <1>8

(* The equation that the search satisfies, up to a distance k.             *)
SearchesUpTo(S, l, v, k) ==
  \A b \in 1 .. Len(l) + 1, e \in 0 .. Len(l) : e - b < k =>
    S[<<b, e>>] = IF Stops(l, v, <<b, e>>) THEN Mid(<<b, e>>)
                  ELSE S[<<NextBegin(l, v, <<b, e>>), NextEnd(l, v, <<b, e>>)>>]

LEMMA SearchExists ==
  ASSUME NEW l, Len(l) \in Nat, NEW v
  PROVE  \E S : IsSearch(S, l, v)
<1> DEFINE n == Len(l)
           nxt(at) == <<NextBegin(l, v, at), NextEnd(l, v, at)>>
           T == {k \in Nat : \E S : SearchesUpTo(S, l, v, k)}
<1>1. 0 \in T
  <2> DEFINE S == [at \in Bounds(l) |-> Mid(at)]
  <2>1. \A b \in 1 .. n + 1, e \in 0 .. n : S[<<b, e>>] = Mid(<<b, e>>) BY DEF Bounds
  <2>2. ASSUME NEW b \in 1 .. n + 1, NEW e \in 0 .. n, e - b < 0 PROVE Stops(l, v, <<b, e>>)
    <3>1. b > e BY <2>2
    <3> QED BY <3>1, MidIs
  <2> HIDE DEF S
  <2>3. SearchesUpTo(S, l, v, 0) BY <2>1, <2>2 DEF SearchesUpTo
  <2> QED BY <2>3
<1>2. ASSUME NEW k \in Nat, k \in T PROVE k + 1 \in T
  <2>1. PICK f : SearchesUpTo(f, l, v, k) BY <1>2
  <2> DEFINE g == [at \in Bounds(l) |-> IF at[2] - at[1] < k THEN f[at]
                                        ELSE IF Stops(l, v, at) THEN Mid(at) ELSE f[nxt(at)]]
  <2>2. \A b \in 1 .. n + 1, e \in 0 .. n :
          g[<<b, e>>] = IF e - b < k THEN f[<<b, e>>]
                        ELSE IF Stops(l, v, <<b, e>>) THEN Mid(<<b, e>>) ELSE f[nxt(<<b, e>>)]
    BY DEF Bounds
  <2> HIDE DEF g
  <2>3. ASSUME NEW b \in 1 .. n + 1, NEW e \in 0 .. n, e - b < k + 1
        PROVE  g[<<b, e>>] = IF Stops(l, v, <<b, e>>) THEN Mid(<<b, e>>) ELSE g[nxt(<<b, e>>)]
    <3> DEFINE b2 == NextBegin(l, v, <<b, e>>)
               e2 == NextEnd(l, v, <<b, e>>)
    <3>1. ~Stops(l, v, <<b, e>>) => b2 \in 1 .. n + 1 /\ e2 \in 0 .. n /\ e2 - b2 < e - b
      BY MidIs
    <3> HIDE DEF b2, e2
    <3>2. ~Stops(l, v, <<b, e>>) => e2 - b2 < k BY <3>1, <2>3
    <3>3. ~Stops(l, v, <<b, e>>) => g[<<b2, e2>>] = f[<<b2, e2>>] BY <2>2, <3>1, <3>2
    <3>4. e - b < k => f[<<b, e>>] = IF Stops(l, v, <<b, e>>) THEN Mid(<<b, e>>) ELSE f[<<b2, e2>>]
      BY <2>1 DEF SearchesUpTo, b2, e2
    <3>5. g[<<b, e>>] = IF Stops(l, v, <<b, e>>) THEN Mid(<<b, e>>) ELSE f[<<b2, e2>>]
      BY <2>2, <3>4 DEF b2, e2
    <3>6. g[<<b, e>>] = IF Stops(l, v, <<b, e>>) THEN Mid(<<b, e>>) ELSE g[<<b2, e2>>]
      BY <3>3, <3>5
    <3> QED BY <3>6 DEF b2, e2
  <2>4. SearchesUpTo(g, l, v, k + 1) BY <2>3 DEF SearchesUpTo
  <2> QED BY <2>4
<1>3. n + 1 \in T
  <2> HIDE DEF T
  <2> QED BY <1>1, <1>2, NatUpwards
<1>4. PICK f : SearchesUpTo(f, l, v, n + 1) BY <1>3
<1> DEFINE g == [at \in Bounds(l) |-> IF Stops(l, v, at) THEN Mid(at) ELSE f[nxt(at)]]
<1>5. \A b \in 1 .. n + 1, e \in 0 .. n :
        /\ e - b < n + 1
        /\ g[<<b, e>>] = IF Stops(l, v, <<b, e>>) THEN Mid(<<b, e>>) ELSE f[nxt(<<b, e>>)]
  BY DEF Bounds
<1>6. g = [at \in Bounds(l) |-> g[at]] OBVIOUS
<1>7. \A b \in 1 .. n + 1, e \in 0 .. n : g[<<b, e>>] = f[<<b, e>>]
  BY <1>4, <1>5 DEF SearchesUpTo
<1>8. \A at \in Bounds(l) : g[at] = IF Stops(l, v, at) THEN Mid(at) ELSE g[nxt(at)]
  <2> SUFFICES ASSUME NEW at \in Bounds(l)
               PROVE  g[at] = IF Stops(l, v, at) THEN Mid(at) ELSE g[nxt(at)]
    OBVIOUS
  <2>1. PICK b \in 1 .. n + 1, e \in 0 .. n : at = <<b, e>> BY DEF Bounds
  <2>2. ~Stops(l, v, at) => NextBegin(l, v, at) \in 1 .. n + 1 /\ NextEnd(l, v, at) \in 0 .. n
    BY <2>1, MidIs
  <2> HIDE DEF g
  <2> QED BY <1>5, <1>7, <2>1, <2>2
<1>9. IsSearch(g, l, v)
  <2> HIDE DEF g
  <2> QED BY <1>6, <1>8 DEF IsSearch
<1> QED BY <1>9

(* The search stops at the range that holds v, or next to where it would   *)
(* be (hitStatus).                                                         *)
Found(l, v, m) ==
  /\ m \in 1 .. Len(l)
  /\ Compare(l[m], v) = 0 \/ /\ \A i \in 1 .. Len(l) : i < m => Compare(l[i], v) < 0
                             /\ \A i \in 1 .. Len(l) : i > m => Compare(l[i], v) > 0
                             /\ Compare(l[m], v) # 0

LEMMA SearchFinds ==
  ASSUME NEW l, Ordered(l), l # <<>>, NEW v \in Int
  PROVE  Found(l, v, BinarySearch(l, v))
<1> DEFINE n == Len(l)
           S == CHOOSE S : IsSearch(S, l, v)
           begun(b, e) == /\ b \in 1 .. n + 1 /\ e \in 0 .. n /\ b <= e
                          /\ \A i \in 1 .. n : i < b => Compare(l[i], v) < 0
                          /\ \A i \in 1 .. n : i > e => Compare(l[i], v) > 0
           T == {k \in Nat : \A b \in 1 .. n + 1, e \in 0 .. n :
                               begun(b, e) /\ e - b < k => Found(l, v, S[<<b, e>>])}
<1>1. n \in Nat /\ n # 0 BY OrderedIs
<1>2. IsSearch(S, l, v) BY <1>1, SearchExists
<1> HIDE DEF S
<1>3. \A b \in 1 .. n + 1, e \in 0 .. n :
        S[<<b, e>>] = IF Stops(l, v, <<b, e>>) THEN Mid(<<b, e>>)
                      ELSE S[<<NextBegin(l, v, <<b, e>>), NextEnd(l, v, <<b, e>>)>>]
  BY <1>2 DEF IsSearch, Bounds
<1>4. 0 \in T OBVIOUS
<1>5. ASSUME NEW k \in Nat, k \in T PROVE k + 1 \in T
  <2> SUFFICES ASSUME NEW b \in 1 .. n + 1, NEW e \in 0 .. n, begun(b, e), e - b < k + 1
               PROVE  Found(l, v, S[<<b, e>>])
    OBVIOUS
  <2> DEFINE m == Mid(<<b, e>>)
             b2 == NextBegin(l, v, <<b, e>>)
             e2 == NextEnd(l, v, <<b, e>>)
  <2>1. m \in b .. e /\ m \in 1 .. n
    <3>1. b <= e /\ (b <= e => m \in b .. e) BY <1>1, MidIs
    <3> HIDE DEF m
    <3> QED BY <1>1, <3>1
  <2>2. /\ \A i \in 1 .. n : i < m /\ Compare(l[m], v) < 0 => Compare(l[i], v) < 0
        /\ \A i \in 1 .. n : i > m /\ Compare(l[m], v) > 0 => Compare(l[i], v) > 0
        /\ Compare(l[m], v) \in {-1, 0, 1}
    <3>1. Compare(l[m], v) \in {-1, 0, 1} BY DEF Compare
    <3>2. ASSUME NEW i \in 1 .. n, i < m, Compare(l[m], v) < 0 PROVE Compare(l[i], v) < 0
      <4> HIDE DEF m
      <4>1. l[m].max < v /\ l[i].max + 1 < l[m].min BY <2>1, <3>2, OrderedIs, CompareIs
      <4>2. l[i].max < v BY <2>1, <4>1, OrderedIs
      <4> QED BY <4>2, OrderedIs, CompareIs
    <3>3. ASSUME NEW i \in 1 .. n, i > m, Compare(l[m], v) > 0 PROVE Compare(l[i], v) > 0
      <4> HIDE DEF m
      <4>1. v < l[m].min /\ l[m].max + 1 < l[i].min BY <2>1, <3>3, OrderedIs, CompareIs
      <4>2. v < l[i].min BY <2>1, <4>1, OrderedIs
      <4> QED BY <4>2, OrderedIs, CompareIs
    <3> QED BY <3>1, <3>2, <3>3
  <2>3. /\ b2 = IF Compare(l[m], v) < 0 THEN m + 1 ELSE b
        /\ e2 = IF Compare(l[m], v) > 0 THEN m - 1 ELSE e
        /\ Stops(l, v, <<b, e>>) <=> Compare(l[m], v) = 0 \/ b2 > e2
    BY DEF NextBegin, NextEnd, Stops
  <2>4. S[<<b, e>>] = IF Stops(l, v, <<b, e>>) THEN m ELSE S[<<b2, e2>>] BY <1>3
  <2>5. ~Stops(l, v, <<b, e>>) => b2 \in 1 .. n + 1 /\ e2 \in 0 .. n /\ e2 - b2 < e - b
    BY <1>1, MidIs
  <2> HIDE DEF m, b2, e2
  <2>6. CASE ~Stops(l, v, <<b, e>>)
    <3>1. e2 - b2 < k BY <2>5, <2>6
    <3>2. b2 <= e2 BY <2>3, <2>5, <2>6
    <3>3. CASE Compare(l[m], v) < 0
      <4>1. \A i \in 1 .. n : i < b2 => Compare(l[i], v) < 0 BY <2>1, <2>2, <2>3, <3>3
      <4>2. e2 = e BY <2>2, <2>3, <3>3
      <4>3. \A i \in 1 .. n : i > e2 => Compare(l[i], v) > 0 BY <4>2
      <4>4. begun(b2, e2) BY <2>5, <2>6, <3>2, <4>1, <4>3
      <4> QED BY <1>5, <2>4, <2>5, <2>6, <3>1, <4>4
    <3>4. CASE Compare(l[m], v) > 0
      <4>1. \A i \in 1 .. n : i > e2 => Compare(l[i], v) > 0 BY <2>1, <2>2, <2>3, <3>4
      <4>2. b2 = b BY <2>2, <2>3, <3>4
      <4>3. \A i \in 1 .. n : i < b2 => Compare(l[i], v) < 0 BY <4>2
      <4>4. begun(b2, e2) BY <2>5, <2>6, <3>2, <4>1, <4>3
      <4> QED BY <1>5, <2>4, <2>5, <2>6, <3>1, <4>4
    <3> QED BY <2>2, <2>3, <2>6, <3>3, <3>4
  <2>7. CASE Stops(l, v, <<b, e>>)
    <3>1. CASE Compare(l[m], v) = 0 BY <2>1, <2>4, <2>7, <3>1 DEF Found
    <3>2. CASE Compare(l[m], v) < 0
      <4>1. m = e BY <2>1, <2>2, <2>3, <2>7, <3>2
      <4> QED BY <2>1, <2>2, <2>4, <2>7, <3>2, <4>1 DEF Found
    <3>3. CASE Compare(l[m], v) > 0
      <4>1. m = b BY <2>1, <2>2, <2>3, <2>7, <3>3
      <4> QED BY <2>1, <2>2, <2>4, <2>7, <3>3, <4>1 DEF Found
    <3> QED BY <2>2, <3>1, <3>2, <3>3
  <2> QED BY <2>6, <2>7
<1>6. n \in T
  <2> HIDE DEF T
  <2> QED BY <1>1, <1>4, <1>5, NatUpwards
<1>7. begun(1, n) /\ n - 1 < n BY <1>1
<1>8. Found(l, v, S[<<1, n>>]) BY <1>1, <1>6, <1>7
<1> QED BY <1>8, BinarySearchIs DEF S

-----------------------------------------------------------------------------
(* What hitStatus returns: p ranges lie below v, and the next one holds v, *)
(* or lies above it.                                                       *)
Status(included, near) == [included |-> included, near |-> near]

LEMMA LeastIs ==
  ASSUME NEW S, NEW m \in Int, S \subseteq Int
  PROVE  /\ S # {} /\ m \in S /\ (\A i \in S : m <= i) => Least(S) = m
         /\ S # {} /\ m \in S /\ (\A i \in S : i <= m) => Greatest(S) = m
<1>1. ASSUME m \in S, \A i \in S : m <= i PROVE Least(S) = m
  <2>1. \A i \in S : (\A j \in S : i <= j) => i = m BY <1>1
  <2> QED BY <1>1, <2>1 DEF Least
<1>2. ASSUME m \in S, \A i \in S : i <= m PROVE Greatest(S) = m
  <2>1. \A i \in S : (\A j \in S : j <= i) => i = m BY <1>2
  <2> QED BY <1>2, <2>1 DEF Greatest
<1> QED BY <1>1, <1>2

HitAt(l, v, p) ==
  /\ \A i \in 1 .. Len(l) : i <= p => l[i].max < v
  /\ \/ /\ p + 1 \in 1 .. Len(l) /\ l[p + 1].min <= v /\ v <= l[p + 1].max
        /\ HitStatus(l, v, TRUE) = Status(p + 1, 0)
        /\ HitStatus(l, v, FALSE) = Status(p + 1, 0)
     \/ /\ \A i \in 1 .. Len(l) : i > p => v < l[i].min
        /\ HitStatus(l, v, TRUE) = Status(0, IF p < Len(l) THEN p + 1 ELSE 0)
        /\ HitStatus(l, v, FALSE) = Status(0, p)

LEMMA HitIs ==
  ASSUME NEW l, Ordered(l), l # <<>>, NEW v \in Int
  PROVE  \E p \in 0 .. Len(l) : HitAt(l, v, p)
<1> DEFINE n == Len(l)
           m == BinarySearch(l, v)
           Above == {i \in m .. n : Compare(l[i], v) > 0}
           Below == {i \in 1 .. m : Compare(l[i], v) < 0}
<1>1. n \in Nat /\ n # 0 BY OrderedIs
<1>2. /\ m \in 1 .. n
      /\ Compare(l[m], v) = 0 \/ /\ \A i \in 1 .. n : i < m => Compare(l[i], v) < 0
                                 /\ \A i \in 1 .. n : i > m => Compare(l[i], v) > 0
                                 /\ Compare(l[m], v) # 0
  BY SearchFinds DEF Found
<1>3. /\ HitStatus(l, v, TRUE) =
           IF Compare(l[m], v) = 0 THEN Status(m, 0)
           ELSE Status(0, Least(Above))
      /\ HitStatus(l, v, FALSE) =
           IF Compare(l[m], v) = 0 THEN Status(m, 0)
           ELSE Status(0, Greatest(Below))
  BY DEF HitStatus, Nearest, Status
<1>4. \A i \in 1 .. n : /\ Compare(l[i], v) \in {-1, 0, 1}
                        /\ Compare(l[i], v) = 0 <=> l[i].min <= v /\ v <= l[i].max
                        /\ Compare(l[i], v) < 0 <=> l[i].max < v
                        /\ Compare(l[i], v) > 0 <=> v < l[i].min
                        /\ l[i].min \in Int /\ l[i].max \in Int
  <2>1. \A i \in 1 .. n : Compare(l[i], v) \in {-1, 0, 1} BY DEF Compare
  <2> QED BY <2>1, OrderedIs, CompareIs
<1>8. \A i : /\ i \in Above <=> i \in m .. n /\ Compare(l[i], v) > 0
             /\ i \in Below <=> i \in 1 .. m /\ Compare(l[i], v) < 0
  OBVIOUS
<1> HIDE DEF m, Above, Below
<1>5. CASE Compare(l[m], v) = 0
  <2>1. m - 1 \in 0 .. n /\ (m - 1) + 1 = m BY <1>1, <1>2
  <2>2. ASSUME NEW i \in 1 .. n, i <= m - 1 PROVE l[i].max < v
    <3>1. l[i].max + 1 < l[m].min /\ l[m].min <= v BY <1>2, <1>4, <1>5, <2>2, OrderedIs
    <3> QED BY <1>2, <1>4, <3>1
  <2>3. l[m].min <= v /\ v <= l[m].max BY <1>2, <1>4, <1>5
  <2>4. HitStatus(l, v, TRUE) = Status(m, 0) /\ HitStatus(l, v, FALSE) = Status(m, 0)
    BY <1>3, <1>5
  <2>5. HitAt(l, v, m - 1) BY <1>2, <2>1, <2>2, <2>3, <2>4 DEF HitAt
  <2> QED BY <2>1, <2>5
<1>6. CASE Compare(l[m], v) < 0
  <2>0. Compare(l[m], v) # 0 BY <1>2, <1>4, <1>6
  <2>1. \A i \in 1 .. n : (i <= m => Compare(l[i], v) < 0) /\ (i > m => Compare(l[i], v) > 0)
    BY <1>2, <1>6
  <2>2. HitStatus(l, v, TRUE) = Status(0, IF m < n THEN m + 1 ELSE 0)
    <3>1. HitStatus(l, v, TRUE) = Status(0, Least(Above)) BY <1>3, <2>0
    <3>2. \A i : i \in Above <=> i \in 1 .. n /\ i > m BY <1>1, <1>2, <1>4, <1>6, <2>1, <1>8
    <3>3. CASE m < n
      <4>1. Above \subseteq Int /\ m + 1 \in Above /\ \A i \in Above : m + 1 <= i
        BY <1>1, <1>2, <3>2, <3>3
      <4>2. Least(Above) = m + 1 BY <1>2, <4>1, LeastIs
      <4> QED BY <3>1, <3>3, <4>2
    <3>4. CASE ~(m < n)
      <4>1. Above = {} BY <1>1, <1>2, <3>2, <3>4
      <4>2. Least(Above) = 0 BY <4>1 DEF Least
      <4> QED BY <3>1, <3>4, <4>2
    <3> QED BY <3>3, <3>4
  <2>3. HitStatus(l, v, FALSE) = Status(0, m)
    <3>1. HitStatus(l, v, FALSE) = Status(0, Greatest(Below)) BY <1>3, <2>0
    <3>2. Below \subseteq Int /\ m \in Below /\ \A i \in Below : i <= m BY <1>2, <1>6, <1>8
    <3>3. Greatest(Below) = m BY <1>2, <3>2, LeastIs
    <3> QED BY <3>1, <3>3
  <2>4. m \in 0 .. n BY <1>2
  <2>5. HitAt(l, v, m) BY <1>4, <2>1, <2>2, <2>3 DEF HitAt
  <2> QED BY <2>4, <2>5
<1>7. CASE Compare(l[m], v) > 0
  <2>0. Compare(l[m], v) # 0 BY <1>2, <1>4, <1>7
  <2>1. \A i \in 1 .. n : (i <= m - 1 => Compare(l[i], v) < 0) /\ (i > m - 1 => Compare(l[i], v) > 0)
    BY <1>2, <1>7
  <2>2. HitStatus(l, v, TRUE) = Status(0, m)
    <3>1. HitStatus(l, v, TRUE) = Status(0, Least(Above)) BY <1>3, <2>0
    <3>2. Above \subseteq Int /\ m \in Above /\ \A i \in Above : m <= i BY <1>2, <1>7, <1>8
    <3>3. Least(Above) = m BY <1>2, <3>2, LeastIs
    <3> QED BY <3>1, <3>3
  <2>3. HitStatus(l, v, FALSE) = Status(0, m - 1)
    <3>1. HitStatus(l, v, FALSE) = Status(0, Greatest(Below)) BY <1>3, <2>0
    <3>2. \A i : i \in Below <=> i \in 1 .. n /\ i <= m - 1 BY <1>1, <1>2, <1>4, <1>7, <2>1, <1>8
    <3>3. CASE m = 1
      <4>1. Below = {} BY <1>1, <1>2, <3>2, <3>3
      <4>2. Greatest(Below) = 0 /\ m - 1 = 0 BY <3>3, <4>1 DEF Greatest
      <4> QED BY <3>1, <4>2
    <3>4. CASE m # 1
      <4>1. Below \subseteq Int /\ m - 1 \in Below /\ \A i \in Below : i <= m - 1
        BY <1>1, <1>2, <3>2, <3>4
      <4>2. Greatest(Below) = m - 1 BY <1>2, <4>1, LeastIs
      <4> QED BY <3>1, <4>2
    <3> QED BY <3>3, <3>4
  <2>4. m - 1 \in 0 .. n /\ m - 1 < n /\ (m - 1) + 1 = m BY <1>1, <1>2
  <2>5. Status(0, IF m - 1 < n THEN (m - 1) + 1 ELSE 0) = Status(0, m) BY <2>4
  <2>6. HitAt(l, v, m - 1) BY <1>4, <2>1, <2>2, <2>3, <2>5 DEF HitAt
  <2> QED BY <2>4, <2>6
<1> QED BY <1>2, <1>4, <1>5, <1>6, <1>7

-----------------------------------------------------------------------------
(* Where a range min .. max lies in a list: the ranges before p are below  *)
(* it, those after q above it, and those between p and q inside it.        *)
Spot(l, min, max, p, q) ==
  /\ p \in 0 .. Len(l) /\ q \in 1 .. Len(l) + 1 /\ p <= q
  /\ \A i \in 1 .. Len(l) : /\ i < p => l[i].max + 1 < min
                            /\ i = p => l[i].min <= min
                            /\ i > q => max + 1 < l[i].min
                            /\ i = q => max <= l[i].max
                            /\ p < i /\ i < q => min <= l[i].min /\ l[i].max <= max
                            /\ i = p /\ p < q => l[i].max < max
                            /\ i = q /\ p < q => min < l[i].min

LowMeets(l, min, p) == p >= 1 /\ l[p].max + 1 >= min
HighMeets(l, max, q) == q <= Len(l) /\ l[q].min - 1 <= max

(* ... and what the four searches of addRange and removeInclusion say of   *)
(* it.                                                                     *)
Places(l, min, max, p, q) ==
  /\ Spot(l, min, max, p, q)
  /\ Pos(HitStatus(l, min, FALSE)) = p
  /\ Pos(HitStatus(l, max, TRUE)) = IF q <= Len(l) THEN q ELSE 0
  /\ Inclusion(l, min, max) = [first |-> p + 1, count |-> q - p - 1]
  /\ LowJoinable(l, HitStatus(l, min, FALSE), LongRange(min, max)) <=> LowMeets(l, min, p)
  /\ HighJoinable(l, HitStatus(l, max, TRUE), LongRange(min, max)) <=> HighMeets(l, max, q)
  /\ ~LowMeets(l, min, p) => HitStatus(l, min, FALSE).near = p

LEMMA PlacesAre ==
  ASSUME NEW l, Ordered(l), l # <<>>, NEW min \in Numbers, NEW max \in Numbers, min <= max
  PROVE  \E p \in 0 .. Len(l), q \in 1 .. Len(l) + 1 : Places(l, min, max, p, q)
<1> DEFINE n == Len(l)
           low == HitStatus(l, min, FALSE)
           lowH == HitStatus(l, min, TRUE)
           high == HitStatus(l, max, TRUE)
           highL == HitStatus(l, max, FALSE)
<1>1. /\ n \in Nat /\ min \in Int /\ max \in Int
      /\ \A i \in 1 .. n : l[i].min \in Int /\ l[i].max \in Int /\ l[i].min <= l[i].max
      /\ \A i, j \in 1 .. n : i < j => l[i].max + 1 < l[j].min
  BY OrderedIs, RangeAssumption DEF Numbers
<1>2. PICK a \in 0 .. n : HitAt(l, min, a) BY <1>1, HitIs
<1>3. PICK c \in 0 .. n : HitAt(l, max, c) BY <1>1, HitIs
<1> DEFINE holdsMin == a + 1 \in 1 .. n /\ l[a + 1].min <= min /\ min <= l[a + 1].max
           holdsMax == c + 1 \in 1 .. n /\ l[c + 1].min <= max /\ max <= l[c + 1].max
           p == IF holdsMin THEN a + 1 ELSE a
           q == c + 1
<1>4. /\ \A i \in 1 .. n : i <= a => l[i].max < min
      /\ ~holdsMin => \A i \in 1 .. n : i > a => min < l[i].min
      /\ holdsMin => low = Status(a + 1, 0) /\ lowH = Status(a + 1, 0)
      /\ ~holdsMin => low = Status(0, a) /\ lowH = Status(0, IF a < n THEN a + 1 ELSE 0)
  <2>1. holdsMin => ~\A i \in 1 .. n : i > a => min < l[i].min BY <1>1
  <2> HIDE DEF low, lowH, holdsMin
  <2>2. /\ \A i \in 1 .. n : i <= a => l[i].max < min
        /\ \/ holdsMin /\ low = Status(a + 1, 0) /\ lowH = Status(a + 1, 0)
           \/ /\ \A i \in 1 .. n : i > a => min < l[i].min
              /\ low = Status(0, a) /\ lowH = Status(0, IF a < n THEN a + 1 ELSE 0)
    BY <1>2 DEF HitAt, low, lowH, holdsMin
  <2> QED BY <2>1, <2>2
<1>5. /\ \A i \in 1 .. n : i <= c => l[i].max < max
      /\ ~holdsMax => \A i \in 1 .. n : i > c => max < l[i].min
      /\ holdsMax => high = Status(c + 1, 0) /\ highL = Status(c + 1, 0)
      /\ ~holdsMax => highL = Status(0, c) /\ high = Status(0, IF c < n THEN c + 1 ELSE 0)
  <2>1. holdsMax => ~\A i \in 1 .. n : i > c => max < l[i].min BY <1>1
  <2> HIDE DEF high, highL, holdsMax
  <2>2. /\ \A i \in 1 .. n : i <= c => l[i].max < max
        /\ \/ holdsMax /\ high = Status(c + 1, 0) /\ highL = Status(c + 1, 0)
           \/ /\ \A i \in 1 .. n : i > c => max < l[i].min
              /\ highL = Status(0, c) /\ high = Status(0, IF c < n THEN c + 1 ELSE 0)
    BY <1>3 DEF HitAt, high, highL, holdsMax
  <2> QED BY <2>1, <2>2
<1>6. holdsMin => a + 1 \in 1 .. n /\ l[a + 1].min <= min /\ min <= l[a + 1].max OBVIOUS
<1>7. holdsMax => c + 1 \in 1 .. n /\ l[c + 1].min <= max /\ max <= l[c + 1].max OBVIOUS
<1> HIDE DEF low, lowH, high, highL, holdsMin, holdsMax
<1>8. a <= c
  <2> SUFFICES ASSUME c < a PROVE FALSE BY <1>1
  <2>1. c + 1 \in 1 .. n /\ c + 1 <= a /\ c + 1 > c BY <1>1
  <2>2. l[c + 1].max < min BY <1>4, <2>1
  <2>3. max <= l[c + 1].max BY <1>1, <1>5, <1>7, <2>1
  <2> QED BY <1>1, <2>1, <2>2, <2>3
<1>9. p \in 0 .. n /\ q \in 1 .. n + 1 /\ p <= q BY <1>1, <1>6, <1>8
<1>10. Spot(l, min, max, p, q)
  <2> SUFFICES ASSUME NEW i \in 1 .. n
               PROVE  /\ i < p => l[i].max + 1 < min
                      /\ i = p => l[i].min <= min
                      /\ i > q => max + 1 < l[i].min
                      /\ i = q => max <= l[i].max
                      /\ p < i /\ i < q => min <= l[i].min /\ l[i].max <= max
                      /\ i = p /\ p < q => l[i].max < max
                      /\ i = q /\ p < q => min < l[i].min
    BY <1>9 DEF Spot
  <2>1. p = IF holdsMin THEN a + 1 ELSE a OBVIOUS
  <2>2. q = c + 1 OBVIOUS
  <2>0. p \in Int /\ q \in Int BY <1>9
  <2> HIDE DEF p, q
  <2>3. i < p => l[i].max + 1 < min
    <3>1. CASE holdsMin BY <1>1, <1>6, <2>1, <3>1
    <3>2. CASE ~holdsMin
      <4> SUFFICES ASSUME i < p PROVE l[i].max + 1 < min OBVIOUS
      <4>1. p \in 1 .. n /\ p = a BY <1>1, <2>0, <2>1, <3>2
      <4>2. l[p].max < min BY <1>4, <4>1
      <4>3. /\ l[i].max + 1 < l[p].min /\ l[p].min <= l[p].max
            /\ l[i].max \in Int /\ l[p].min \in Int /\ l[p].max \in Int
        BY <1>1, <4>1
      <4> QED BY <1>1, <4>2, <4>3
    <3> QED BY <3>1, <3>2
  <2>4. i = p => l[i].min <= min
    <3>1. CASE holdsMin BY <1>6, <2>1, <3>1
    <3>2. CASE ~holdsMin BY <1>1, <1>4, <2>1, <3>2
    <3> QED BY <3>1, <3>2
  <2>5. i > q => max + 1 < l[i].min
    <3> SUFFICES ASSUME i > q PROVE max + 1 < l[i].min OBVIOUS
    <3>1. q \in 1 .. n /\ q > c BY <1>1, <2>0, <2>2
    <3>2. /\ l[q].max + 1 < l[i].min /\ l[q].min <= l[q].max
          /\ l[i].min \in Int /\ l[q].min \in Int /\ l[q].max \in Int
      BY <1>1, <3>1
    <3>3. max <= l[q].max BY <1>1, <1>5, <1>7, <2>2, <3>1, <3>2
    <3> QED BY <1>1, <3>2, <3>3
  <2>6. i = q => max <= l[i].max
    <3> SUFFICES ASSUME i = q PROVE max <= l[i].max OBVIOUS
    <3>1. i = c + 1 /\ i > c BY <2>2
    <3>2. CASE holdsMax BY <1>7, <3>1, <3>2
    <3>3. CASE ~holdsMax
      <4>1. max < l[i].min BY <1>5, <3>1, <3>3
      <4> QED BY <1>1, <4>1
    <3> QED BY <3>2, <3>3
  <2>7. p < i /\ i < q => min <= l[i].min /\ l[i].max <= max
    <3>1. i < q => l[i].max <= max BY <1>1, <1>5, <2>2
    <3>2. p < i => min <= l[i].min
      <4>1. CASE holdsMin BY <1>1, <1>6, <2>1, <4>1
      <4>2. CASE ~holdsMin BY <1>1, <1>4, <2>1, <4>2
      <4> QED BY <4>1, <4>2
    <3> QED BY <3>1, <3>2
  <2>8. i = p /\ p < q => l[i].max < max BY <1>5, <2>0, <2>2
  <2>9. i = q /\ p < q => min < l[i].min
    <3>1. CASE holdsMin
      <4>1. i = q /\ p < q => p \in 1 .. n /\ l[p].max + 1 < l[i].min /\ min <= l[p].max
        BY <1>1, <1>6, <2>0, <2>1, <3>1
      <4> QED BY <1>1, <4>1
    <3>2. CASE ~holdsMin BY <1>4, <2>0, <2>1, <3>2
    <3> QED BY <3>1, <3>2
  <2> QED BY <2>3, <2>4, <2>5, <2>6, <2>7, <2>8, <2>9
<1>11. Pos(low) = p
  BY <1>4 DEF Pos, Status
<1>12. Pos(high) = IF q <= n THEN q ELSE 0
  <2>1. CASE holdsMax BY <1>1, <1>5, <1>7, <2>1 DEF Pos, Status
  <2>2. CASE ~holdsMax BY <1>1, <1>5, <2>2 DEF Pos, Status
  <2> QED BY <2>1, <2>2
<1>13. Between(n, lowH, highL) = [first |-> p + 1, count |-> q - p - 1]
  <2> DEFINE first == IF lowH.included # 0 THEN lowH.included + 1
                      ELSE IF lowH.near # 0 THEN lowH.near ELSE n + 1
             last == IF highL.included # 0 THEN highL.included - 1 ELSE highL.near
  <2>1. first = p + 1
    <3>1. CASE holdsMin BY <1>4, <3>1 DEF Status
    <3>2. CASE ~holdsMin BY <1>1, <1>4, <3>2 DEF Status
    <3> QED BY <3>1, <3>2
  <2>2. last = q - 1
    <3>1. CASE holdsMax BY <1>5, <3>1 DEF Status
    <3>2. CASE ~holdsMax BY <1>5, <3>2 DEF Status
    <3> QED BY <3>1, <3>2
  <2>3. Between(n, lowH, highL) = [first |-> first, count |-> last - first + 1]
    BY DEF Between
  <2>4. p \in Int /\ q \in Int BY <1>9
  <2> HIDE DEF first, last, p, q
  <2>5. last - first + 1 = q - p - 1 BY <2>1, <2>2, <2>4
  <2> QED BY <2>1, <2>3, <2>5
<1>14. LowJoinable(l, low, LongRange(min, max)) <=> LowMeets(l, min, p)
  <2>1. LongRange(min, max).min = min BY DEF LongRange
  <2>2. CASE holdsMin BY <1>1, <1>4, <1>6, <2>2 DEF LowJoinable, LowMeets, Status
  <2>3. CASE ~holdsMin
    <3>1. LowJoinable(l, low, LongRange(min, max)) <=> a # 0 /\ l[a].max + 1 = min
      BY <1>4, <2>1, <2>3 DEF LowJoinable, Status
    <3>2. a # 0 => a \in 1 .. n /\ l[a].max < min /\ l[a].max \in Int BY <1>1, <1>4
    <3>3. p = a BY <2>3
    <3>4. a \in Int BY <1>9, <3>3
    <3> HIDE DEF p
    <3>5. a # 0 => (l[a].max + 1 = min <=> l[a].max + 1 >= min) BY <1>1, <3>2
    <3>6. a # 0 <=> a >= 1 BY <3>2, <3>4
    <3> QED BY <3>1, <3>3, <3>5, <3>6 DEF LowMeets
  <2> QED BY <2>2, <2>3
<1>15. HighJoinable(l, high, LongRange(min, max)) <=> HighMeets(l, max, q)
  <2>1. LongRange(min, max).max = max BY DEF LongRange
  <2>2. CASE holdsMax BY <1>1, <1>5, <1>7, <2>2 DEF HighJoinable, HighMeets, Status
  <2>3. CASE ~holdsMax
    <3>1. HighJoinable(l, high, LongRange(min, max)) <=> c < n /\ l[c + 1].min - 1 = max
      BY <1>1, <1>5, <2>1, <2>3 DEF HighJoinable, Status
    <3>2. c < n => c + 1 \in 1 .. n /\ max < l[c + 1].min /\ l[c + 1].min \in Int BY <1>1, <1>5, <2>3
    <3>3. HighMeets(l, max, q) <=> c < n /\ l[c + 1].min - 1 <= max BY <1>1 DEF HighMeets
    <3> DEFINE x == l[c + 1].min
    <3>4. (c < n => x \in Int /\ max < x) /\ max \in Int BY <1>1, <3>2
    <3>5. /\ HighMeets(l, max, q) <=> c < n /\ x - 1 <= max
          /\ HighJoinable(l, high, LongRange(min, max)) <=> c < n /\ x - 1 = max
      BY <3>1, <3>3
    <3> HIDE DEF x
    <3>6. c < n => (x - 1 <= max <=> x - 1 = max) BY <3>4
    <3> QED BY <3>5, <3>6
  <2> QED BY <2>2, <2>3
<1>16. ~LowMeets(l, min, p) => low.near = p
  <2>1. holdsMin => LowMeets(l, min, p) BY <1>1, <1>6 DEF LowMeets
  <2> QED BY <1>4, <2>1 DEF Status
<1>17. Places(l, min, max, p, q)
  BY <1>10, <1>11, <1>12, <1>13, <1>14, <1>15, <1>16 DEF Places, Inclusion, low, lowH, high, highL
<1> HIDE DEF p, q
<1> QED BY <1>9, <1>17

-----------------------------------------------------------------------------
(* A list of which the ranges between x and y have become one range r.     *)
Spliced(m, l, x, y, r) ==
  /\ m \in Seq(Ranges) /\ Len(m) = x + Len(l) - y + 2
  /\ \A k \in 1 .. Len(m) :
       m[k] = IF k <= x THEN l[k] ELSE IF k = x + 1 THEN r ELSE l[k - x + y - 2]

Fits(l, x, y, r) ==
  /\ x \in 0 .. Len(l) /\ y \in 1 .. Len(l) + 1 /\ x < y
  /\ r \in Ranges /\ r.min <= r.max
  /\ \A i \in 1 .. Len(l) : /\ i <= x => l[i].max + 1 < r.min
                            /\ i >= y => r.max + 1 < l[i].min

LEMMA SplicedIs ==
  ASSUME NEW l, Ordered(l), NEW x, NEW y, NEW r, Fits(l, x, y, r), NEW m, Spliced(m, l, x, y, r)
  PROVE  /\ Ordered(m)
         /\ \A v : v \in Elements(m) <=> \/ v \in r.min .. r.max
                                         \/ \E i \in 1 .. Len(l) : /\ i <= x \/ i >= y
                                                                   /\ v \in l[i].min .. l[i].max
<1> DEFINE n == Len(l)
           N == Len(m)
<1>1. /\ n \in Nat /\ x \in 0 .. n /\ y \in 1 .. n + 1 /\ x < y
      /\ \A i \in 1 .. n : l[i].min \in Int /\ l[i].max \in Int /\ l[i].min <= l[i].max
      /\ \A i, j \in 1 .. n : i < j => l[i].max + 1 < l[j].min
      /\ r.min \in Int /\ r.max \in Int /\ r.min <= r.max
      /\ \A i \in 1 .. n : (i <= x => l[i].max + 1 < r.min) /\ (i >= y => r.max + 1 < l[i].min)
  BY OrderedIs, RangeIs DEF Fits
<1>2. /\ m \in Seq(Ranges) /\ DOMAIN m = 1 .. N /\ N \in Nat /\ N = x + n - y + 2
      /\ \A k \in 1 .. N : m[k] = IF k <= x THEN l[k] ELSE IF k = x + 1 THEN r ELSE l[k - x + y - 2]
  BY DEF Spliced
<1> HIDE DEF n, N
<1> DEFINE at(k) == k - x + y - 2
<1>3. \A k \in 1 .. N : /\ k <= x => k \in 1 .. n /\ m[k] = l[k]
                        /\ k = x + 1 => m[k] = r
                        /\ k > x + 1 => at(k) \in 1 .. n /\ at(k) >= y /\ m[k] = l[at(k)]
  <2> SUFFICES ASSUME NEW k \in 1 .. N
               PROVE  /\ k <= x => k \in 1 .. n /\ m[k] = l[k]
                      /\ k = x + 1 => m[k] = r
                      /\ k > x + 1 => at(k) \in 1 .. n /\ at(k) >= y /\ m[k] = l[at(k)]
    OBVIOUS
  <2>1. m[k] = IF k <= x THEN l[k] ELSE IF k = x + 1 THEN r ELSE l[at(k)] BY <1>2
  <2>2. /\ k <= x => k \in 1 .. n /\ m[k] = l[k]
        /\ k = x + 1 => m[k] = r
        /\ k > x + 1 => m[k] = l[at(k)]
    BY <1>1, <1>2, <2>1
  <2>3. k > x + 1 => at(k) \in 1 .. n /\ at(k) >= y BY <1>1, <1>2
  <2> QED BY <2>2, <2>3
<1>4. \A k \in 1 .. N : k <= x \/ k = x + 1 \/ k > x + 1 BY <1>1
<1>5. \A j, k \in 1 .. N : j < k /\ j > x + 1 => at(j) < at(k) BY <1>1
<1> HIDE DEF at
<1>6. \A k \in 1 .. N : m[k].min <= m[k].max BY <1>1, <1>3, <1>4
<1>7. ASSUME NEW j \in 1 .. N, NEW k \in 1 .. N, j < k PROVE m[j].max + 1 < m[k].min
  <2>1. CASE k <= x BY <1>1, <1>3, <1>7, <2>1
  <2>2. CASE k = x + 1
    <3>1. j <= x BY <1>1, <1>7, <2>2
    <3> QED BY <1>1, <1>3, <2>2, <3>1
  <2>3. CASE k > x + 1
    <3>1. at(k) \in 1 .. n /\ at(k) >= y /\ m[k] = l[at(k)] BY <1>3, <2>3
    <3>2. CASE j <= x
      <4>1. j \in 1 .. n /\ m[j] = l[j] /\ j < at(k) BY <1>1, <1>3, <3>1, <3>2
      <4> QED BY <1>1, <3>1, <4>1
    <3>3. CASE j = x + 1 BY <1>1, <1>3, <3>1, <3>3
    <3>4. CASE j > x + 1
      <4>1. at(j) \in 1 .. n /\ m[j] = l[at(j)] /\ at(j) < at(k) BY <1>3, <1>5, <1>7, <3>4
      <4> QED BY <1>1, <3>1, <4>1
    <3> QED BY <1>4, <3>2, <3>3, <3>4
  <2> QED BY <1>4, <2>1, <2>2, <2>3
<1>8. Ordered(m) BY <1>2, <1>6, <1>7 DEF Ordered
<1>9. ASSUME NEW v
      PROVE  v \in Elements(m) <=> \/ v \in r.min .. r.max
                                   \/ \E i \in 1 .. n : /\ i <= x \/ i >= y
                                                        /\ v \in l[i].min .. l[i].max
  <2>1. v \in Elements(m) <=> \E k \in 1 .. N : v \in m[k].min .. m[k].max
    BY <1>2 DEF Elements
  <2>2. ASSUME NEW k \in 1 .. N, v \in m[k].min .. m[k].max
        PROVE  \/ v \in r.min .. r.max
               \/ \E i \in 1 .. n : (i <= x \/ i >= y) /\ v \in l[i].min .. l[i].max
    BY <1>3, <1>4, <2>2
  <2>3. ASSUME v \in r.min .. r.max PROVE \E k \in 1 .. N : v \in m[k].min .. m[k].max
    <3>1. x + 1 \in 1 .. N BY <1>1, <1>2
    <3> QED BY <1>3, <2>3, <3>1
  <2>4. ASSUME NEW i \in 1 .. n, i <= x \/ i >= y, v \in l[i].min .. l[i].max
        PROVE  \E k \in 1 .. N : v \in m[k].min .. m[k].max
    <3>1. CASE i <= x
      <4>1. i \in 1 .. N BY <1>1, <1>2, <3>1
      <4> QED BY <1>3, <2>4, <3>1, <4>1
    <3>2. CASE i >= y
      <4> DEFINE k == i + x - y + 2
      <4>1. k \in 1 .. N /\ k > x + 1 /\ at(k) = i BY <1>1, <1>2, <3>2 DEF at
      <4> HIDE DEF k
      <4> QED BY <1>3, <2>4, <4>1
    <3> QED BY <2>4, <3>1, <3>2
  <2> QED BY <2>1, <2>2, <2>3, <2>4
<1> QED BY <1>8, <1>9 DEF n

(* removeInclusion leaves the ranges up to p and from q on.                *)
WithoutBetween(c, l, p, q) ==
  /\ c \in Seq(Ranges) /\ Len(c) = p + Len(l) - q + 1
  /\ \A k \in 1 .. Len(c) : c[k] = IF k <= p THEN l[k] ELSE l[k - p + q - 1]

LEMMA CutIs ==
  ASSUME NEW l \in Seq(Ranges), NEW p \in 0 .. Len(l), NEW q \in 1 .. Len(l) + 1, p < q, NEW c,
         c = Cut(l, [first |-> p + 1, count |-> q - p - 1])
  PROVE  WithoutBetween(c, l, p, q)
<1> DEFINE n == Len(l)
           a == SubSeq(l, 1, p)
           b == SubSeq(l, q, n)
<1>0. n \in Nat /\ p \in Nat /\ q \in Nat OBVIOUS
<1>1. a \in Seq(Ranges) /\ Len(a) = p /\ \A k \in 1 .. p : a[k] = l[k] OBVIOUS
<1>2. b \in Seq(Ranges) /\ Len(b) = n - q + 1 /\ \A k \in 1 .. n - q + 1 : b[k] = l[q + k - 1] OBVIOUS
<1>3. CASE q = p + 1
  <2>1. c = l BY <1>0, <1>3 DEF Cut
  <2>2. \A k \in 1 .. n : k - p + q - 1 = k BY <1>0, <1>3
  <2>3. n = p + n - q + 1 BY <1>0, <1>3
  <2>4. \A k \in 1 .. n : l[k] = IF k <= p THEN l[k] ELSE l[k - p + q - 1] BY <2>2
  <2> QED BY <2>1, <2>3, <2>4 DEF WithoutBetween
<1>4. CASE q > p + 1
  <2> DEFINE inc == [first |-> p + 1, count |-> q - p - 1]
  <2>1. inc.first - 1 = p /\ inc.first + inc.count = q /\ ~(inc.count <= 0) BY <1>0, <1>4
  <2> HIDE DEF inc
  <2>2. c = a \o b BY <2>1 DEF Cut, inc
  <2> HIDE DEF a, b
  <2>3. c \in Seq(Ranges) /\ Len(c) = p + n - q + 1
    <3>1. Len(a \o b) = Len(a) + Len(b) /\ a \o b \in Seq(Ranges) BY <1>1, <1>2, ConcatProperties
    <3>2. Len(c) = Len(a \o b) /\ c \in Seq(Ranges) BY <2>2, <3>1
    <3>3. p + (n - q + 1) = p + n - q + 1 BY <1>0
    <3> QED BY <1>1, <1>2, <3>1, <3>2, <3>3
  <2>4. ASSUME NEW k \in 1 .. Len(c) PROVE c[k] = IF k <= p THEN l[k] ELSE l[k - p + q - 1]
    <3>1. c[k] = IF k <= p THEN a[k] ELSE b[k - p] BY <1>0, <1>1, <1>2, <2>2, <2>3, ConcatProperties
    <3>2. ~(k <= p) => k - p \in 1 .. n - q + 1 /\ q + (k - p) - 1 = k - p + q - 1 BY <1>0, <2>3
    <3>3. k <= p => k \in 1 .. p BY <1>0, <2>3
    <3> QED BY <1>1, <1>2, <3>1, <3>2, <3>3
  <2> QED BY <2>3, <2>4 DEF WithoutBetween
<1> QED BY <1>0, <1>3, <1>4

(* What addRange replaces: the range added, with those it overlaps or      *)
(* touches, becomes one range.                                             *)
From(l, min, p) == IF LowMeets(l, min, p) THEN l[p].min ELSE min
To(l, max, q)   == IF HighMeets(l, max, q) THEN l[q].max ELSE max
Below(l, min, p) == IF LowMeets(l, min, p) THEN p - 1 ELSE p
Above(l, max, q) == IF HighMeets(l, max, q) THEN q + 1 ELSE q

LEMMA JoinFits ==
  ASSUME NEW l, Ordered(l), NEW min \in Numbers, NEW max \in Numbers, min <= max,
         NEW p, NEW q, Spot(l, min, max, p, q)
  PROVE  /\ Fits(l, Below(l, min, p), Above(l, max, q), LongRange(From(l, min, p), To(l, max, q)))
         /\ From(l, min, p) \in Numbers /\ To(l, max, q) \in Numbers
         /\ \A v : v \in From(l, min, p) .. To(l, max, q)
                     <=> \/ v \in min .. max
                         \/ \E i \in 1 .. Len(l) : /\ Below(l, min, p) < i /\ i < Above(l, max, q)
                                                   /\ v \in l[i].min .. l[i].max
<1> DEFINE n == Len(l)
           lo == From(l, min, p)
           hi == To(l, max, q)
           x == Below(l, min, p)
           y == Above(l, max, q)
           low == LowMeets(l, min, p)
           high == HighMeets(l, max, q)
<1>1. /\ n \in Nat /\ min \in Int /\ max \in Int
      /\ \A i \in 1 .. n : /\ l[i].min \in Int /\ l[i].max \in Int /\ l[i].min <= l[i].max
                           /\ l[i].min \in Numbers /\ l[i].max \in Numbers
      /\ \A i, j \in 1 .. n : i < j => l[i].max + 1 < l[j].min
  <2>1. min \in Int /\ max \in Int BY RangeAssumption DEF Numbers
  <2>2. /\ n \in Nat /\ \A i \in 1 .. n : l[i] \in Ranges
        /\ \A i \in 1 .. n : l[i].min \in Int /\ l[i].max \in Int /\ l[i].min <= l[i].max
        /\ \A i, j \in 1 .. n : i < j => l[i].max + 1 < l[j].min
    BY OrderedIs
  <2>3. \A i \in 1 .. n : l[i].min \in Numbers /\ l[i].max \in Numbers BY <2>2, RangeIs
  <2> HIDE DEF n
  <2> QED BY <2>1, <2>2, <2>3
<1>2. /\ p \in 0 .. n /\ q \in 1 .. n + 1 /\ p <= q
      /\ \A i \in 1 .. n : /\ i < p => l[i].max + 1 < min
                           /\ i = p => l[i].min <= min
                           /\ i > q => max + 1 < l[i].min
                           /\ i = q => max <= l[i].max
                           /\ p < i /\ i < q => min <= l[i].min /\ l[i].max <= max
                           /\ i = p /\ p < q => l[i].max < max
                           /\ i = q /\ p < q => min < l[i].min
  BY DEF Spot
<1>3. /\ low <=> p >= 1 /\ l[p].max + 1 >= min
      /\ high <=> q <= n /\ l[q].min - 1 <= max
      /\ lo = (IF low THEN l[p].min ELSE min) /\ hi = IF high THEN l[q].max ELSE max
      /\ x = (IF low THEN p - 1 ELSE p) /\ y = IF high THEN q + 1 ELSE q
  BY DEF LowMeets, HighMeets, From, To, Below, Above
<1> HIDE DEF n, lo, hi, x, y, low, high
<1>4. /\ low => p \in 1 .. n /\ l[p].min <= min /\ l[p].max + 1 >= min
      /\ high => q \in 1 .. n /\ max <= l[q].max /\ l[q].min - 1 <= max
      /\ p \in Int /\ q \in Int
  BY <1>1, <1>2, <1>3
<1>5. p = q => low /\ high
  <2> SUFFICES ASSUME p = q PROVE low /\ high OBVIOUS
  <2>1. p \in 1 .. n BY <1>1, <1>2
  <2>2. l[p].min <= min /\ max <= l[p].max BY <1>2, <2>1
  <2> QED BY <1>1, <1>3, <2>1, <2>2
<1>6. x \in 0 .. n /\ y \in 1 .. n + 1 /\ x < y BY <1>1, <1>2, <1>3, <1>4, <1>5
<1>7. lo \in Numbers /\ hi \in Numbers /\ lo <= min /\ max <= hi /\ lo \in Int /\ hi \in Int
  BY <1>1, <1>3, <1>4
<1>8. ASSUME NEW i \in 1 .. n
      PROVE  /\ i <= x => l[i].max + 1 < lo
             /\ i >= y => hi + 1 < l[i].min
  <2>1. ASSUME i <= x PROVE l[i].max + 1 < lo
    <3>1. CASE low BY <1>1, <1>3, <1>4, <2>1, <3>1
    <3>2. CASE ~low
      <4>1. CASE i = p BY <1>1, <1>3, <3>2, <4>1
      <4>2. CASE i < p BY <1>2, <1>3, <3>2, <4>2
      <4> QED BY <1>3, <1>4, <2>1, <3>2, <4>1, <4>2
    <3> QED BY <3>1, <3>2
  <2>2. ASSUME i >= y PROVE hi + 1 < l[i].min
    <3>1. CASE high
      <4>1. q \in 1 .. n /\ q < i BY <1>3, <1>4, <2>2, <3>1
      <4>2. l[q].max + 1 < l[i].min BY <1>1, <4>1
      <4> QED BY <1>3, <3>1, <4>2
    <3>2. CASE ~high
      <4>1. CASE i = q
        <5>1. i <= n BY <1>1
        <5> QED BY <1>1, <1>3, <3>2, <4>1, <5>1
      <4>2. CASE i > q BY <1>2, <1>3, <3>2, <4>2
      <4> QED BY <1>3, <1>4, <2>2, <3>2, <4>1, <4>2
    <3> QED BY <3>1, <3>2
  <2> QED BY <2>1, <2>2
<1>9. Fits(l, x, y, LongRange(lo, hi))
  <2>1. LongRange(lo, hi) \in Ranges /\ LongRange(lo, hi).min = lo /\ LongRange(lo, hi).max = hi
    BY <1>7, RangeIs
  <2>2. lo <= hi BY <1>1, <1>7
  <2> QED BY <1>6, <1>8, <2>1, <2>2 DEF Fits, n
<1>10. ASSUME NEW v
       PROVE  v \in lo .. hi <=> \/ v \in min .. max
                                 \/ \E i \in 1 .. n : x < i /\ i < y /\ v \in l[i].min .. l[i].max
  <2>1. ASSUME v \in lo .. hi, ~(v \in min .. max)
        PROVE  \E i \in 1 .. n : x < i /\ i < y /\ v \in l[i].min .. l[i].max
    <3>1. CASE v < min
      <4>1. low /\ l[p].min <= v BY <1>1, <1>3, <1>7, <2>1, <3>1
      <4>2. p \in 1 .. n /\ v <= l[p].max BY <1>1, <1>4, <1>7, <2>1, <3>1, <4>1
      <4>3. x < p /\ p < y BY <1>3, <1>4, <1>5, <1>2, <4>1
      <4> QED BY <1>1, <1>7, <2>1, <4>1, <4>2, <4>3
    <3>2. CASE max < v
      <4>1. high /\ v <= l[q].max BY <1>1, <1>3, <1>7, <2>1, <3>2
      <4>2. q \in 1 .. n /\ l[q].min <= v BY <1>1, <1>4, <1>7, <2>1, <3>2, <4>1
      <4>3. x < q /\ q < y BY <1>3, <1>4, <1>5, <1>2, <4>1
      <4> QED BY <1>1, <1>7, <2>1, <4>1, <4>2, <4>3
    <3> QED BY <1>1, <1>7, <2>1, <3>1, <3>2
  <2>2. ASSUME NEW i \in 1 .. n, x < i, i < y, v \in l[i].min .. l[i].max PROVE v \in lo .. hi
    <3>1. lo <= l[i].min
      <4>1. CASE i = p
        <5>1. low BY <1>3, <1>4, <2>2, <4>1
        <5> QED BY <1>1, <1>3, <4>1, <5>1
      <4>2. CASE i > p
        <5>1. CASE i < q BY <1>1, <1>2, <1>7, <4>2, <5>1
        <5>2. CASE i = q BY <1>1, <1>2, <1>4, <1>7, <4>2, <5>2
        <5> QED BY <1>3, <1>4, <2>2, <5>1, <5>2
      <4> QED BY <1>3, <1>4, <2>2, <4>1, <4>2
    <3>2. l[i].max <= hi
      <4>1. CASE i = q
        <5>1. high BY <1>3, <1>4, <2>2, <4>1
        <5> QED BY <1>1, <1>3, <4>1, <5>1
      <4>2. CASE i < q
        <5>1. CASE i > p BY <1>1, <1>2, <1>7, <4>2, <5>1
        <5>2. CASE i = p BY <1>1, <1>2, <1>4, <1>7, <4>2, <5>2
        <5> QED BY <1>3, <1>4, <2>2, <5>1, <5>2
      <4> QED BY <1>3, <1>4, <2>2, <4>1, <4>2
    <3> QED BY <1>1, <1>7, <2>2, <3>1, <3>2
  <2>3. v \in min .. max => v \in lo .. hi BY <1>1, <1>7
  <2> QED BY <2>1, <2>2, <2>3
<1> QED BY <1>7, <1>9, <1>10 DEF n, lo, hi, x, y

(* addRange puts that range in the place of the others.                    *)
LEMMA AddRangeSplices ==
  ASSUME NEW l, Ordered(l), l # <<>>, NEW min \in Numbers, NEW max \in Numbers, min <= max,
         NEW p \in 0 .. Len(l), NEW q \in 1 .. Len(l) + 1, Places(l, min, max, p, q)
  PROVE  Spliced(AddRange(l, min, max), l, Below(l, min, p), Above(l, max, q),
                 LongRange(From(l, min, p), To(l, max, q)))
<1> DEFINE n == Len(l)
           range == LongRange(min, max)
           low == HitStatus(l, min, FALSE)
           high == HitStatus(l, max, TRUE)
           at == IF Pos(high) = Pos(low) THEN Pos(low) ELSE Pos(high) - (q - p - 1)
           c == Cut(l, [first |-> p + 1, count |-> q - p - 1])
           lowM == LowMeets(l, min, p)
           highM == HighMeets(l, max, q)
           joined == LongRange(From(l, min, p), To(l, max, q))
<1>1. /\ n \in Nat /\ n # 0 /\ l \in Seq(Ranges) /\ min \in Int /\ max \in Int
      /\ \A i \in 1 .. n : /\ l[i] \in Ranges /\ l[i].min \in Int /\ l[i].max \in Int
                           /\ l[i] = LongRange(l[i].min, l[i].max)
  BY OrderedIs, RangeIs, RangeAssumption DEF Numbers
<1>2. /\ p <= q /\ p \in Int /\ q \in Int /\ p \in 0 .. n /\ q \in 1 .. n + 1
      /\ \A i \in 1 .. n : /\ i = p => l[i].min <= min
                           /\ i = q => max <= l[i].max
                           /\ i = q /\ p < q => min < l[i].min
                           /\ i = p /\ p < q => l[i].max < max
  BY DEF Places, Spot
<1>3. /\ Pos(low) = p /\ Pos(high) = IF q <= n THEN q ELSE 0
      /\ Inclusion(l, min, max) = [first |-> p + 1, count |-> q - p - 1]
      /\ LowJoinable(l, low, range) <=> lowM
      /\ HighJoinable(l, high, range) <=> highM
      /\ ~lowM => low.near = p
  BY DEF Places
<1>4. AddRange(l, min, max) = Join(l, c, range, low, high, at)
  <2>1. [first |-> p + 1, count |-> q - p - 1].count = q - p - 1 OBVIOUS
  <2> QED BY <1>3, <2>1 DEF AddRange, Added
<1>5. range.min = min /\ range.max = max /\ range \in Ranges BY RangeIs
<1>6. /\ lowM => p \in 1 .. n
      /\ highM => q \in 1 .. n
  BY <1>1, <1>2 DEF LowMeets, HighMeets
<1>7. p = q => lowM /\ highM
  <2> SUFFICES ASSUME p = q PROVE lowM /\ highM OBVIOUS
  <2>1. p \in 1 .. n BY <1>1
  <2>2. l[p].min <= min /\ max <= l[p].max BY <1>2, <2>1
  <2> QED BY <1>1, <2>1, <2>2 DEF LowMeets, HighMeets
<1>8. /\ highM => at = IF p = q THEN p ELSE p + 1
  <2> HIDE DEF low, high
  <2> QED BY <1>1, <1>2, <1>3, <1>6
<1>9. /\ Below(l, min, p) = (IF lowM THEN p - 1 ELSE p)
      /\ Above(l, max, q) = (IF highM THEN q + 1 ELSE q)
      /\ joined = LongRange(IF lowM THEN l[p].min ELSE min, IF highM THEN l[q].max ELSE max)
      /\ joined \in Ranges
  BY JoinFits DEF Below, Above, From, To, Fits, Places
<1>10. p < q => /\ c \in Seq(Ranges) /\ Len(c) = p + n - q + 1
                /\ \A k \in 1 .. Len(c) : c[k] = IF k <= p THEN l[k] ELSE l[k - p + q - 1]
  <2> SUFFICES ASSUME p < q
               PROVE  /\ c \in Seq(Ranges) /\ Len(c) = p + n - q + 1
                      /\ \A k \in 1 .. Len(c) : c[k] = IF k <= p THEN l[k] ELSE l[k - p + q - 1]
    OBVIOUS
  <2>1. c = Cut(l, [first |-> p + 1, count |-> q - p - 1]) OBVIOUS
  <2> HIDE DEF c
  <2>2. l \in Seq(Ranges) BY <1>1
  <2>3. WithoutBetween(c, l, p, q) BY <2>1, <2>2, CutIs
  <2> QED BY <2>3 DEF WithoutBetween
<1>11. p = q => c = l BY <1>2 DEF Cut
<1> HIDE DEF n, range, low, high, at, c, lowM, highM, joined
<1>12. CASE lowM /\ highM
  <2>1. AddRange(l, min, max) = JoinUpper(c, p, at, range) BY <1>3, <1>4, <1>12 DEF Join
  <2>2. p \in 1 .. n /\ q \in 1 .. n /\ joined = LongRange(l[p].min, l[q].max)
    BY <1>6, <1>9, <1>12
  <2>3. CASE p = q
    <3>1. JoinUpper(c, p, at, range) =
            [l EXCEPT ![p] = LongRange(IF l[p].min < min THEN l[p].min ELSE min,
                                       IF l[p].max > max THEN l[p].max ELSE max)]
      BY <1>5, <1>8, <1>11, <1>12, <2>3 DEF JoinUpper
    <3>2. l[p].min <= min /\ max <= l[p].max BY <1>2, <2>2, <2>3
    <3>3. /\ (IF l[p].min < min THEN l[p].min ELSE min) = l[p].min
          /\ (IF l[p].max > max THEN l[p].max ELSE max) = l[p].max
      BY <1>1, <2>2, <3>2
    <3>4. [l EXCEPT ![p] = LongRange(l[p].min, l[p].max)] = l BY <1>1, <2>2
    <3>5. AddRange(l, min, max) = l BY <2>1, <3>1, <3>3, <3>4
    <3>6. joined = l[p] BY <1>1, <2>2, <2>3
    <3>7. Spliced(l, l, p - 1, p + 1, joined)
      <4>1. \A k \in 1 .. n : k > p => k - (p - 1) + (p + 1) - 2 = k BY <1>1, <1>2
      <4>2. \A k \in 1 .. n : k <= p - 1 \/ k = (p - 1) + 1 \/ k > p BY <1>1, <1>2
      <4>3. n = (p - 1) + n - (p + 1) + 2 BY <1>1, <1>2
      <4>4. \A k \in 1 .. n : l[k] = IF k <= p - 1 THEN l[k] ELSE IF k = (p - 1) + 1 THEN joined
                                     ELSE l[k - (p - 1) + (p + 1) - 2]
        BY <1>2, <3>6, <4>1, <4>2
      <4> QED BY <1>1, <4>3, <4>4 DEF Spliced, n
    <3> QED BY <1>9, <1>12, <2>3, <3>5, <3>7 DEF joined
  <2>4. CASE p < q
    <3>1. /\ c \in Seq(Ranges) /\ Len(c) = p + n - q + 1
          /\ \A k \in 1 .. Len(c) : c[k] = IF k <= p THEN l[k] ELSE l[k - p + q - 1]
      BY <1>10, <2>4
    <3>2. at = p + 1 /\ p \in 1 .. Len(c) /\ p + 1 \in 1 .. Len(c) /\ p + 1 - p + q - 1 = q
      <4>1. at = p + 1 BY <1>8, <1>12, <2>4
      <4>2. /\ p \in Int /\ q \in Int /\ n \in Int /\ 1 <= p /\ q <= n /\ Len(c) = p + n - q + 1
        BY <1>1, <1>2, <2>2, <3>1
      <4> QED BY <2>4, <4>1, <4>2
    <3>3. c[p] = l[p] /\ c[p + 1] = l[q] BY <1>2, <3>1, <3>2
    <3>4. l[p].min <= min /\ max <= l[q].max BY <1>2, <2>2
    <3>5. /\ (IF l[p].min < min THEN l[p].min ELSE min) = l[p].min
          /\ (IF l[q].max > max THEN l[q].max ELSE max) = l[q].max
      BY <1>1, <2>2, <3>4
    <3> DEFINE d == [c EXCEPT ![p] = joined]
    <3>6. AddRange(l, min, max) = RemoveAt(d, p + 1)
      <4>1. p + 1 # p BY <1>2
      <4> QED BY <1>5, <2>1, <2>2, <3>2, <3>3, <3>5, <4>1 DEF JoinUpper
    <3>7. /\ d \in Seq(Ranges) /\ Len(d) = Len(c)
          /\ \A k \in 1 .. Len(c) : d[k] = IF k = p THEN joined ELSE c[k]
      BY <1>9, <3>1, <3>2
    <3> HIDE DEF d
    <3>8. /\ RemoveAt(d, p + 1) \in Seq(Ranges) /\ Len(RemoveAt(d, p + 1)) = Len(c) - 1
          /\ \A k \in 1 .. Len(c) - 1 : RemoveAt(d, p + 1)[k] = IF k < p + 1 THEN d[k] ELSE d[k + 1]
      BY <3>2, <3>7, RemoveAtIs
    <3>9. ASSUME NEW k \in 1 .. Len(c) - 1
          PROVE  RemoveAt(d, p + 1)[k] = IF k <= p - 1 THEN l[k] ELSE IF k = (p - 1) + 1 THEN joined
                                         ELSE l[k - (p - 1) + (q + 1) - 2]
      <4>1. k \in 1 .. Len(c) /\ k + 1 \in 1 .. Len(c) BY <3>1, <1>1, <1>2
      <4>2. CASE k <= p - 1 BY <1>2, <3>1, <3>7, <3>8, <4>1, <4>2
      <4>3. CASE k = p
        <5>1. RemoveAt(d, p + 1)[k] = d[k] BY <1>2, <3>8, <4>3
        <5>2. d[k] = joined /\ ~(k <= p - 1) /\ k = (p - 1) + 1 BY <1>2, <3>7, <4>1, <4>3
        <5> QED BY <5>1, <5>2
      <4>4. CASE k > p
        <5>1. k + 1 - p + q - 1 = k - (p - 1) + (q + 1) - 2 BY <1>2
        <5> QED BY <1>2, <3>1, <3>7, <3>8, <4>1, <4>4, <5>1
      <4> QED BY <1>2, <4>2, <4>3, <4>4
    <3>10. Len(c) - 1 = (p - 1) + n - (q + 1) + 2 BY <1>1, <1>2, <3>1
    <3>11. Spliced(RemoveAt(d, p + 1), l, p - 1, q + 1, joined)
      BY <3>8, <3>9, <3>10 DEF Spliced, n
    <3> QED BY <1>9, <1>12, <3>6, <3>11 DEF joined
  <2> QED BY <1>2, <2>3, <2>4
<1>13. CASE ~lowM /\ highM
  <2>0. p < q BY <1>2, <1>7, <1>13
  <2>1. /\ c \in Seq(Ranges) /\ Len(c) = p + n - q + 1
        /\ \A k \in 1 .. Len(c) : c[k] = IF k <= p THEN l[k] ELSE l[k - p + q - 1]
    BY <1>10, <2>0
  <2>2. /\ q \in 1 .. n /\ at = p + 1 /\ p + 1 \in 1 .. Len(c) /\ p + 1 - p + q - 1 = q
        /\ joined = LongRange(min, l[q].max)
    <3>1. q \in 1 .. n BY <1>6, <1>13
    <3>2. at = p + 1
      <4>1. p # q BY <1>2, <2>0
      <4> QED BY <1>8, <1>13, <4>1
    <3>3. p + 1 \in 1 .. Len(c) BY <1>1, <1>2, <2>1, <3>1
    <3>4. p + 1 - p + q - 1 = q BY <1>2
    <3>5. joined = LongRange(min, l[q].max) BY <1>9, <1>13
    <3> HIDE DEF at, joined, c
    <3> QED BY <3>1, <3>2, <3>3, <3>4, <3>5
  <2> DEFINE d == [c EXCEPT ![p + 1].min = min]
  <2>3. AddRange(l, min, max) = d BY <1>3, <1>4, <1>5, <1>13, <2>2 DEF Join
  <2>4. c[p + 1] = l[q] BY <1>2, <2>1, <2>2
  <2>5. [c[p + 1] EXCEPT !.min = min] = joined
    <3>1. c[p + 1] = LongRange(l[q].min, l[q].max) BY <1>1, <2>2, <2>4
    <3> QED BY <2>2, <3>1 DEF LongRange
  <2>6. d = [c EXCEPT ![p + 1] = joined] BY <2>5
  <2> HIDE DEF d
  <2>7. /\ d \in Seq(Ranges) /\ Len(d) = Len(c)
        /\ \A k \in 1 .. Len(c) : d[k] = IF k = p + 1 THEN joined ELSE c[k]
    BY <1>9, <2>1, <2>2, <2>6
  <2>8. ASSUME NEW k \in 1 .. Len(c)
        PROVE  d[k] = IF k <= p THEN l[k] ELSE IF k = p + 1 THEN joined ELSE l[k - p + (q + 1) - 2]
    <3>1. k - p + q - 1 = k - p + (q + 1) - 2 BY <1>2
    <3> QED BY <1>2, <2>1, <2>7, <3>1
  <2>9. Len(c) = p + n - (q + 1) + 2 BY <1>1, <1>2, <2>1
  <2>10. Spliced(d, l, p, q + 1, joined) BY <2>7, <2>8, <2>9 DEF Spliced, n
  <2> QED BY <1>9, <1>13, <2>3, <2>10 DEF joined
<1>14. CASE lowM /\ ~highM
  <2>0. p < q BY <1>2, <1>7, <1>14
  <2>1. /\ c \in Seq(Ranges) /\ Len(c) = p + n - q + 1
        /\ \A k \in 1 .. Len(c) : c[k] = IF k <= p THEN l[k] ELSE l[k - p + q - 1]
    BY <1>10, <2>0
  <2>2. p \in 1 .. n /\ p \in 1 .. Len(c) /\ joined = LongRange(l[p].min, max)
    BY <1>1, <1>2, <1>6, <1>9, <1>14, <2>0, <2>1
  <2> DEFINE d == [c EXCEPT ![p].max = max]
  <2>3. AddRange(l, min, max) = d BY <1>3, <1>4, <1>5, <1>14, <2>2 DEF Join
  <2>4. c[p] = l[p] BY <1>2, <2>1, <2>2
  <2>5. [c[p] EXCEPT !.max = max] = joined
    <3>1. c[p] = LongRange(l[p].min, l[p].max) BY <1>1, <2>2, <2>4
    <3> QED BY <2>2, <3>1 DEF LongRange
  <2>6. d = [c EXCEPT ![p] = joined] BY <2>5
  <2> HIDE DEF d
  <2>7. /\ d \in Seq(Ranges) /\ Len(d) = Len(c)
        /\ \A k \in 1 .. Len(c) : d[k] = IF k = p THEN joined ELSE c[k]
    BY <1>9, <2>1, <2>2, <2>6
  <2>8. ASSUME NEW k \in 1 .. Len(c)
        PROVE  d[k] = IF k <= p - 1 THEN l[k] ELSE IF k = (p - 1) + 1 THEN joined
                      ELSE l[k - (p - 1) + q - 2]
    <3>1. k - p + q - 1 = k - (p - 1) + q - 2 /\ (p - 1) + 1 = p /\ Len(c) \in Nat BY <1>2, <2>1
    <3>2. CASE k <= p - 1 BY <1>2, <2>1, <2>7, <3>2
    <3>3. CASE k = p
      <4>1. d[k] = joined BY <2>7, <3>3
      <4>2. ~(k <= p - 1) /\ k = (p - 1) + 1 BY <1>2, <3>1, <3>3
      <4> QED BY <4>1, <4>2
    <3>4. CASE k > p BY <1>2, <2>1, <2>7, <3>1, <3>4
    <3> QED BY <1>2, <3>1, <3>2, <3>3, <3>4
  <2>9. Len(c) = (p - 1) + n - q + 2 BY <1>1, <1>2, <2>1
  <2>10. Spliced(d, l, p - 1, q, joined) BY <2>7, <2>8, <2>9 DEF Spliced, n
  <2> QED BY <1>9, <1>14, <2>3, <2>10 DEF joined
<1>15. CASE ~lowM /\ ~highM
  <2>0. p < q BY <1>2, <1>7, <1>15
  <2>1. /\ c \in Seq(Ranges) /\ Len(c) = p + n - q + 1
        /\ \A k \in 1 .. Len(c) : c[k] = IF k <= p THEN l[k] ELSE l[k - p + q - 1]
    BY <1>10, <2>0
  <2>2. p + 1 \in 1 .. Len(c) + 1 /\ joined = range BY <1>1, <1>2, <1>9, <1>15, <2>0, <2>1 DEF range
  <2>3. AddRange(l, min, max) = InsertAt(c, p + 1, joined) BY <1>3, <1>4, <1>15, <2>2 DEF Join
  <2> DEFINE d == InsertAt(c, p + 1, joined)
  <2>4. /\ d \in Seq(Ranges) /\ Len(d) = Len(c) + 1
        /\ \A k \in 1 .. Len(c) + 1 :
             d[k] = IF k < p + 1 THEN c[k] ELSE IF k = p + 1 THEN joined ELSE c[k - 1]
    <3>1. c \in Seq(Ranges) /\ joined \in Ranges /\ p + 1 \in 1 .. Len(c) + 1 BY <1>9, <2>1, <2>2
    <3>2. d = InsertAt(c, p + 1, joined) OBVIOUS
    <3> HIDE DEF d
    <3> DEFINE i == p + 1
    <3>3. i \in 1 .. Len(c) + 1 /\ d = InsertAt(c, i, joined) BY <3>1, <3>2
    <3> HIDE DEF i
    <3>4. /\ d \in Seq(Ranges) /\ Len(d) = Len(c) + 1
          /\ \A k \in 1 .. Len(c) + 1 :
               d[k] = IF k < i THEN c[k] ELSE IF k = i THEN joined ELSE c[k - 1]
      <4> HIDE DEF joined
      <4>1. /\ InsertAt(c, i, joined) \in Seq(Ranges) /\ Len(InsertAt(c, i, joined)) = Len(c) + 1
            /\ \A k \in 1 .. Len(c) + 1 :
                 InsertAt(c, i, joined)[k] = IF k < i THEN c[k] ELSE IF k = i THEN joined ELSE c[k - 1]
        <5>1. i \in 1 .. Len(c) + 1 BY <3>3
        <5> QED BY <3>1, <5>1, InsertAtIs
      <4> QED BY <3>3, <4>1
    <3> QED BY <3>4 DEF i
  <2> HIDE DEF d
  <2>5. ASSUME NEW k \in 1 .. Len(c) + 1
        PROVE  d[k] = IF k <= p THEN l[k] ELSE IF k = p + 1 THEN joined ELSE l[k - p + q - 2]
    <3>1. CASE k <= p
      <4>1. k \in 1 .. Len(c) BY <1>1, <1>2, <2>1, <3>1
      <4>2. k < p + 1 BY <1>2, <3>1
      <4>3. d[k] = c[k] BY <2>4, <4>2
      <4>4. c[k] = l[k] BY <2>1, <3>1, <4>1
      <4> QED BY <3>1, <4>3, <4>4
    <3>2. CASE k = p + 1 BY <1>2, <2>4, <3>2
    <3>3. CASE k > p + 1
      <4>0. Len(c) \in Nat /\ p \in Nat /\ q \in Int BY <1>1, <1>2, <2>1
      <4>1. k - 1 \in 1 .. Len(c) /\ ~(k - 1 <= p) /\ (k - 1) - p + q - 1 = k - p + q - 2
        BY <3>3, <4>0
      <4>2. ~(k < p + 1) /\ k # p + 1 /\ ~(k <= p) BY <1>2, <3>3
      <4>3. d[k] = c[k - 1] BY <2>4, <4>2
      <4>4. c[k - 1] = l[(k - 1) - p + q - 1] BY <2>1, <4>1
      <4> QED BY <4>1, <4>2, <4>3, <4>4
    <3> QED BY <1>2, <3>1, <3>2, <3>3
  <2>6. Len(c) + 1 = p + n - q + 2 BY <1>1, <1>2, <2>1
  <2>7. Spliced(d, l, p, q, joined) BY <2>4, <2>5, <2>6 DEF Spliced, n
  <2> QED BY <1>9, <1>15, <2>3, <2>7 DEF joined, d
<1> QED BY <1>12, <1>13, <1>14, <1>15

-----------------------------------------------------------------------------
LEMMA ElementsAre ==
  ASSUME NEW l, Ordered(l)
  PROVE  \A v : v \in Elements(l) <=> \E i \in 1 .. Len(l) : v \in l[i].min .. l[i].max
BY OrderedIs DEF Elements

(* Adding a range keeps a list in order, and adds its numbers.             *)
LEMMA AddRangeIs ==
  ASSUME NEW l, Ordered(l), NEW min \in Numbers, NEW max \in Numbers, min <= max
  PROVE  /\ Ordered(AddRange(l, min, max))
         /\ Elements(AddRange(l, min, max)) = Elements(l) \cup (min .. max)
<1> DEFINE m == AddRange(l, min, max)
           r == LongRange(min, max)
<1>1. r \in Ranges /\ r.min = min /\ r.max = max BY RangeIs
<1>2. CASE l = <<>>
  <2>1. m = <<r>> BY <1>2 DEF AddRange
  <2> HIDE DEF m, r
  <2>2. m \in Seq(Ranges) /\ Len(m) = 1 /\ DOMAIN m = 1 .. 1 /\ m[1] = r BY <1>1, <2>1
  <2>3. Ordered(m) BY <1>1, <2>2 DEF Ordered
  <2>4. \A v : v \in Elements(m) <=> v \in min .. max
    <3>1. \A v : v \in Elements(m) <=> \E i \in 1 .. 1 : v \in m[i].min .. m[i].max
      BY <2>2 DEF Elements
    <3>3. ASSUME NEW v PROVE v \in Elements(m) <=> v \in m[1].min .. m[1].max
      <4>1. 1 \in 1 .. 1 OBVIOUS
      <4>2. v \in m[1].min .. m[1].max => v \in Elements(m) BY <3>1, <4>1
      <4>3. ASSUME v \in Elements(m) PROVE v \in m[1].min .. m[1].max
        <5>1. PICK i \in 1 .. 1 : v \in m[i].min .. m[i].max BY <3>1, <4>3
        <5>2. i = 1 OBVIOUS
        <5> QED BY <5>1, <5>2
      <4> QED BY <4>2, <4>3
    <3> QED BY <1>1, <2>2, <3>3
  <2>5. Elements(l) = {} BY <1>2 DEF Elements
  <2>6. Elements(m) = min .. max BY <2>4
  <2> QED BY <2>3, <2>5, <2>6 DEF m
<1>3. CASE l # <<>>
  <2>1. PICK p \in 0 .. Len(l), q \in 1 .. Len(l) + 1 : Places(l, min, max, p, q)
    BY <1>3, PlacesAre
  <2> DEFINE x == Below(l, min, p)
             y == Above(l, max, q)
             lo == From(l, min, p)
             hi == To(l, max, q)
             j == LongRange(lo, hi)
  <2>2. Spliced(m, l, x, y, j) BY <1>3, <2>1, AddRangeSplices
  <2>3. Spot(l, min, max, p, q) BY <2>1 DEF Places
  <2>4. /\ Fits(l, x, y, j) /\ lo \in Numbers /\ hi \in Numbers
        /\ \A v : v \in lo .. hi
                    <=> \/ v \in min .. max
                        \/ \E i \in 1 .. Len(l) : x < i /\ i < y /\ v \in l[i].min .. l[i].max
    BY <2>3, JoinFits
  <2>5. j.min = lo /\ j.max = hi BY <2>4, RangeIs
  <2> HIDE DEF m, x, y, lo, hi, j
  <2>6. /\ Ordered(m)
        /\ \A v : v \in Elements(m) <=> \/ v \in j.min .. j.max
                                        \/ \E i \in 1 .. Len(l) : /\ i <= x \/ i >= y
                                                                  /\ v \in l[i].min .. l[i].max
    BY <2>2, <2>4, SplicedIs
  <2>7. \A i \in 1 .. Len(l) : (i <= x \/ i >= y) <=> ~(x < i /\ i < y) BY <2>4 DEF Fits
  <2>8. \A v : v \in Elements(m) <=> v \in min .. max \/ v \in Elements(l)
    BY <2>4, <2>5, <2>6, <2>7, ElementsAre
  <2>9. Elements(m) = Elements(l) \cup (min .. max) BY <2>8
  <2> QED BY <2>6, <2>9 DEF m
<1> QED BY <1>2, <1>3

(* A list whose ranges are parts of l's: all of it without min .. max,     *)
(* which lies in the i-th.  g says of which range each is a part.          *)
Parts(m, l, i, min, max, g) ==
  /\ m \in Seq(Ranges)
  /\ \A k \in 1 .. Len(m) : /\ g[k] \in 1 .. Len(l) /\ m[k].min <= m[k].max
                            /\ l[g[k]].min <= m[k].min /\ m[k].max <= l[g[k]].max
                            /\ m[k].max < min \/ max < m[k].min
  /\ \A j, k \in 1 .. Len(m) : j < k => g[j] < g[k] \/ (g[j] = g[k] /\ m[j].max + 1 < m[k].min)
  /\ \A j \in 1 .. Len(l) : j # i => \E k \in 1 .. Len(m) : m[k] = l[j]
  /\ l[i].min < min => \E k \in 1 .. Len(m) : m[k].min = l[i].min /\ m[k].max = min - 1
  /\ max < l[i].max => \E k \in 1 .. Len(m) : m[k].min = max + 1 /\ m[k].max = l[i].max

LEMMA PartsAre ==
  ASSUME NEW l, Ordered(l), NEW i \in 1 .. Len(l), NEW min \in Numbers, NEW max \in Numbers,
         min <= max, l[i].min <= min, max <= l[i].max, NEW m, NEW g, Parts(m, l, i, min, max, g)
  PROVE  Ordered(m) /\ Elements(m) = Elements(l) \ (min .. max)
<1> DEFINE n == Len(l)
           N == Len(m)
<1>1. /\ n \in Nat /\ min \in Int /\ max \in Int
      /\ \A k \in 1 .. n : l[k].min \in Int /\ l[k].max \in Int /\ l[k].min <= l[k].max
      /\ \A j, k \in 1 .. n : j < k => l[j].max + 1 < l[k].min
  BY OrderedIs, RangeAssumption DEF Numbers
<1>2. /\ m \in Seq(Ranges) /\ N \in Nat /\ DOMAIN m = 1 .. N
      /\ \A k \in 1 .. N : m[k] \in Ranges /\ m[k].min \in Int /\ m[k].max \in Int
  <2>1. m \in Seq(Ranges) BY DEF Parts
  <2>2. N \in Nat /\ DOMAIN m = 1 .. N /\ \A k \in 1 .. N : m[k] \in Ranges BY <2>1
  <2> QED BY <2>1, <2>2, RangeIs
<1>3. \A k \in 1 .. N : /\ g[k] \in 1 .. n /\ m[k].min <= m[k].max
                        /\ l[g[k]].min <= m[k].min /\ m[k].max <= l[g[k]].max
                        /\ m[k].max < min \/ max < m[k].min
  BY DEF Parts
<1>4. \A j, k \in 1 .. N : j < k => g[j] < g[k] \/ (g[j] = g[k] /\ m[j].max + 1 < m[k].min)
  BY DEF Parts
<1>5. /\ \A j \in 1 .. n : j # i => \E k \in 1 .. N : m[k] = l[j]
      /\ l[i].min < min => \E k \in 1 .. N : m[k].min = l[i].min /\ m[k].max = min - 1
      /\ max < l[i].max => \E k \in 1 .. N : m[k].min = max + 1 /\ m[k].max = l[i].max
  BY DEF Parts
<1>6. Elements(l) = {v \in Int : \E k \in 1 .. n : v \in l[k].min .. l[k].max}
  BY <1>1, ElementsAre
<1> HIDE DEF n, N
<1>7. Ordered(m)
  <2>1. ASSUME NEW j \in 1 .. N, NEW k \in 1 .. N, j < k PROVE m[j].max + 1 < m[k].min
    <3>1. CASE g[j] < g[k]
      <4> DEFINE a == l[g[j]]
                 b == l[g[k]]
      <4>1. /\ a.max + 1 < b.min /\ a.max \in Int /\ b.min \in Int
            /\ m[j].max <= a.max /\ b.min <= m[k].min
        BY <1>1, <1>3, <3>1
      <4> HIDE DEF a, b
      <4> QED BY <1>2, <4>1
    <3> QED BY <1>4, <2>1, <3>1
  <2> QED BY <1>2, <1>3, <2>1 DEF Ordered
<1>8. \A v : v \in Elements(m) <=> \E k \in 1 .. N : v \in m[k].min .. m[k].max
  BY <1>2 DEF Elements
<1>9. ASSUME NEW k \in 1 .. N, NEW v \in m[k].min .. m[k].max
      PROVE  v \in Elements(l) /\ ~(v \in min .. max)
  <2>1. v \in Int /\ m[k].min <= v /\ v <= m[k].max BY <1>2
  <2> DEFINE a == l[g[k]]
  <2>2. a.min <= m[k].min /\ m[k].max <= a.max /\ a.min \in Int /\ a.max \in Int /\ g[k] \in 1 .. n
    BY <1>1, <1>3
  <2>3. v \in a.min .. a.max
    <3> HIDE DEF a
    <3> QED BY <1>2, <2>1, <2>2
  <2>4. v \in Elements(l) BY <1>6, <2>1, <2>2, <2>3
  <2> QED BY <1>1, <1>2, <1>3, <2>1, <2>4
<1>10. ASSUME NEW v \in Elements(l), ~(v \in min .. max) PROVE v \in Elements(m)
  <2>1. PICK j \in 1 .. n : v \in l[j].min .. l[j].max BY <1>6
  <2>2. v \in Int /\ l[j].min <= v /\ v <= l[j].max BY <1>1, <2>1
  <2>3. CASE j # i BY <1>5, <1>8, <2>1, <2>3
  <2>4. CASE j = i /\ v < min
    <3>1. PICK k \in 1 .. N : m[k].min = l[i].min /\ m[k].max = min - 1 BY <1>1, <1>5, <2>2, <2>4
    <3>2. v \in m[k].min .. m[k].max BY <1>1, <2>2, <2>4, <3>1
    <3> QED BY <1>8, <3>2
  <2>5. CASE j = i /\ v > max
    <3>1. PICK k \in 1 .. N : m[k].min = max + 1 /\ m[k].max = l[i].max BY <1>1, <1>5, <2>2, <2>5
    <3>2. v \in m[k].min .. m[k].max BY <1>1, <2>2, <2>5, <3>1
    <3> QED BY <1>8, <3>2
  <2> QED BY <1>1, <1>10, <2>2, <2>3, <2>4, <2>5
<1>11. Elements(m) = Elements(l) \ (min .. max) BY <1>8, <1>9, <1>10
<1> QED BY <1>7, <1>11

(* A value inside the i-th range is found there.                           *)
LEMMA HitInside ==
  ASSUME NEW l, Ordered(l), NEW i \in 1 .. Len(l), NEW v \in Int, l[i].min <= v, v <= l[i].max
  PROVE  HitStatus(l, v, TRUE) = Status(i, 0) /\ HitStatus(l, v, FALSE) = Status(i, 0)
<1>1. /\ Len(l) \in Nat /\ l # <<>>
      /\ \A k \in 1 .. Len(l) : l[k].min \in Int /\ l[k].max \in Int /\ l[k].min <= l[k].max
      /\ \A j, k \in 1 .. Len(l) : j < k => l[j].max + 1 < l[k].min
  BY OrderedIs
<1>2. PICK p \in 0 .. Len(l) : HitAt(l, v, p) BY <1>1, HitIs
<1>3. ~(i <= p) BY <1>1, <1>2 DEF HitAt
<1>4. ~(v < l[i].min) /\ i > p BY <1>1, <1>3
<1>7. ~\A k \in 1 .. Len(l) : k > p => v < l[k].min BY <1>4
<1>5. /\ p + 1 \in 1 .. Len(l) /\ l[p + 1].min <= v /\ v <= l[p + 1].max
      /\ HitStatus(l, v, TRUE) = Status(p + 1, 0)
      /\ HitStatus(l, v, FALSE) = Status(p + 1, 0)
  BY <1>2, <1>7 DEF HitAt
<1>6. p + 1 = i
  <2>1. CASE p + 1 < i
    <3>1. l[p + 1].max + 1 < l[i].min BY <1>1, <1>5, <2>1
    <3> QED BY <1>1, <1>5, <3>1
  <2> QED BY <1>3, <2>1
<1> QED BY <1>5, <1>6

(* removeRange of a part of the i-th range goes to needSplit.              *)
LEMMA RemoveRangeSplits ==
  ASSUME NEW l, Ordered(l), NEW i \in 1 .. Len(l), NEW min \in Numbers, NEW max \in Numbers,
         min <= max, l[i].min <= min, max <= l[i].max
  PROVE  RemoveRange(l, min, max) = Split(l, i, LongRange(min, max))
<1>1. /\ min \in Int /\ max \in Int /\ i \in Int /\ i # 0
      /\ l[i].min \in Int /\ l[i].max \in Int
  BY OrderedIs, RangeAssumption DEF Numbers
<1>2. l[i].min <= max /\ min <= l[i].max BY <1>1
<1>3. HitStatus(l, min, TRUE) = Status(i, 0) /\ HitStatus(l, min, FALSE) = Status(i, 0)
  BY <1>1, <1>2, HitInside
<1>4. HitStatus(l, max, TRUE) = Status(i, 0) /\ HitStatus(l, max, FALSE) = Status(i, 0)
  BY <1>1, <1>2, HitInside
<1>5. Status(i, 0).included = i BY DEF Status
<1>6. Inclusion(l, min, max) = [first |-> i + 1, count |-> (i - 1) - (i + 1) + 1]
  BY <1>1, <1>3, <1>4, <1>5 DEF Inclusion, Between
<1>7. (i - 1) - (i + 1) + 1 <= 0 BY <1>1
<1>8. Cut(l, Inclusion(l, min, max)) = l
  <2> DEFINE c == (i - 1) - (i + 1) + 1
             inc == [first |-> i + 1, count |-> c]
  <2>1. inc.count <= 0 BY <1>7
  <2> HIDE DEF inc
  <2>2. Cut(l, inc) = l BY <2>1 DEF Cut
  <2> QED BY <1>6, <2>2 DEF inc
<1> DEFINE low == HitStatus(l, min, FALSE).included
           high == HitStatus(l, max, TRUE).included
           count == Inclusion(l, min, max).count
<1>9. RemoveRange(l, min, max) = Removed(l, LongRange(min, max), low, high, count)
  BY <1>8 DEF RemoveRange
<1>10. low = i /\ high = i BY <1>3, <1>4, <1>5
<1> HIDE DEF low, high, count
<1> QED BY <1>1, <1>9, <1>10 DEF Removed

Inserted(e, d, i, x) ==
  /\ e \in Seq(Ranges) /\ Len(e) = Len(d) + 1
  /\ \A k \in 1 .. Len(d) + 1 : e[k] = IF k < i THEN d[k] ELSE IF k = i THEN x ELSE d[k - 1]

LEMMA InsertedIs ==
  ASSUME NEW d \in Seq(Ranges), NEW i \in 1 .. Len(d) + 1, NEW x \in Ranges
  PROVE  Inserted(InsertAt(d, i, x), d, i, x)
BY InsertAtIs DEF Inserted

(* Taking a part out of a range keeps a list in order, and takes out these *)
(* numbers and no others.                                                  *)
LEMMA RemoveRangeIs ==
  ASSUME NEW l, Ordered(l), NEW i \in 1 .. Len(l), NEW min \in Numbers, NEW max \in Numbers,
         min <= max, l[i].min <= min, max <= l[i].max
  PROVE  /\ Ordered(RemoveRange(l, min, max))
         /\ Elements(RemoveRange(l, min, max)) = Elements(l) \ (min .. max)
<1> DEFINE n == Len(l)
           range == LongRange(min, max)
           m == RemoveRange(l, min, max)
           low == LongRange(l[i].min, min - 1)
           high == LongRange(max + 1, l[i].max)
<1>1. /\ n \in Nat /\ min \in Int /\ max \in Int /\ l \in Seq(Ranges) /\ i \in Int /\ i # 0
      /\ \A k \in 1 .. n : l[k].min \in Int /\ l[k].max \in Int /\ l[k].min <= l[k].max
      /\ \A j, k \in 1 .. n : j < k => l[j].max + 1 < l[k].min
      /\ l[i] = LongRange(l[i].min, l[i].max) /\ l[i].min \in Numbers /\ l[i].max \in Numbers
  <2>1. min \in Int /\ max \in Int BY RangeAssumption DEF Numbers
  <2>2. /\ n \in Nat /\ l \in Seq(Ranges) /\ l[i] \in Ranges
        /\ \A k \in 1 .. n : l[k].min \in Int /\ l[k].max \in Int /\ l[k].min <= l[k].max
        /\ \A j, k \in 1 .. n : j < k => l[j].max + 1 < l[k].min
    BY OrderedIs
  <2>3. l[i] = LongRange(l[i].min, l[i].max) /\ l[i].min \in Numbers /\ l[i].max \in Numbers
    BY <2>2, RangeIs
  <2>4. i \in Int /\ i # 0 BY <2>2
  <2> HIDE DEF n
  <2> QED BY <2>1, <2>2, <2>3, <2>4
<1>2. range.min = min /\ range.max = max BY RangeIs
<1>3. /\ l[i].min < min => low \in Ranges /\ low.min = l[i].min /\ low.max = min - 1
      /\ max < l[i].max => high \in Ranges /\ high.min = max + 1 /\ high.max = l[i].max
  <2>1. l[i].min < min => min - 1 \in Numbers BY <1>1, RangeAssumption DEF Numbers
  <2>2. max < l[i].max => max + 1 \in Numbers BY <1>1, RangeAssumption DEF Numbers
  <2> QED BY <1>1, <2>1, <2>2, RangeIs
<1>4. m = Split(l, i, range) BY RemoveRangeSplits
<1>5. \A k \in 1 .. n : k # i => l[k].max < min \/ max < l[k].min
  <2> SUFFICES ASSUME NEW k \in 1 .. n, k # i PROVE l[k].max < min \/ max < l[k].min OBVIOUS
  <2>1. CASE k < i BY <1>1, <2>1
  <2>2. CASE k > i
    <3>1. l[i].max + 1 < l[k].min BY <1>1, <2>2
    <3> QED BY <1>1, <3>1
  <2> QED BY <1>1, <2>1, <2>2
<1>6. [l[i] EXCEPT !.min = max + 1] = high /\ [l[i] EXCEPT !.max = min - 1] = low
  BY <1>1 DEF LongRange
<1>9. i \in 1 .. n /\ \A k \in 1 .. n : l[k] \in Ranges BY <1>1
<1> HIDE DEF n, range, m, low, high
<1>7. l[i].min = min \/ l[i].min < min BY <1>1, <1>9
<1>8. l[i].max = max \/ max < l[i].max BY <1>1, <1>9
<1>10. CASE l[i].min < min /\ max < l[i].max
  <2> DEFINE d == [l EXCEPT ![i] = high]
             e == InsertAt(d, i, low)
  <2>1. m = e
    <3>1. m = InsertAt([l EXCEPT ![i].min = max + 1], i, low)
      BY <1>1, <1>2, <1>4, <1>10 DEF Split, low
    <3>2. [l EXCEPT ![i].min = max + 1] = d BY <1>6
    <3> QED BY <3>1, <3>2
  <2>2. d \in Seq(Ranges) /\ Len(d) = n /\ \A k \in 1 .. n : d[k] = IF k = i THEN high ELSE l[k]
    BY <1>1, <1>3, <1>10 DEF n
  <2> HIDE DEF d
  <2>3. /\ e \in Seq(Ranges) /\ Len(e) = n + 1
        /\ \A k \in 1 .. n + 1 : e[k] = IF k < i THEN d[k] ELSE IF k = i THEN low ELSE d[k - 1]
    <3>1. i \in 1 .. Len(d) + 1 /\ low \in Ranges /\ e = InsertAt(d, i, low)
      BY <1>1, <1>3, <1>9, <1>10, <2>2
    <3>2. d \in Seq(Ranges) /\ Len(d) = n BY <2>2
    <3> HIDE DEF e
    <3>3. Inserted(InsertAt(d, i, low), d, i, low) BY <3>1, <3>2, InsertedIs
    <3>4. Inserted(e, d, i, low) BY <3>1, <3>3
    <3> QED BY <3>2, <3>4 DEF Inserted
  <2> HIDE DEF e
  <2>4. \A k \in 1 .. n + 1 : /\ k < i => k \in 1 .. n /\ e[k] = l[k]
                              /\ k = i => e[k] = low
                              /\ k = i + 1 => e[k] = high
                              /\ k > i + 1 => k - 1 \in 1 .. n /\ e[k] = l[k - 1]
    <3> SUFFICES ASSUME NEW k \in 1 .. n + 1
                 PROVE  /\ k < i => k \in 1 .. n /\ e[k] = l[k]
                        /\ k = i => e[k] = low
                        /\ k = i + 1 => e[k] = high
                        /\ k > i + 1 => k - 1 \in 1 .. n /\ e[k] = l[k - 1]
      OBVIOUS
    <3>1. CASE k < i BY <1>1, <1>9, <2>2, <2>3, <3>1
    <3>2. CASE k = i BY <1>1, <2>3, <3>2
    <3>3. CASE k = i + 1
      <4>1. k - 1 = i BY <1>1, <3>3
      <4> QED BY <1>1, <1>9, <2>2, <2>3, <3>3, <4>1
    <3>4. CASE k > i + 1
      <4>1. k - 1 \in 1 .. n /\ k - 1 # i BY <1>1, <3>4
      <4> QED BY <1>1, <2>2, <2>3, <3>4, <4>1
    <3> QED BY <1>1, <3>1, <3>2, <3>3, <3>4
  <2> DEFINE g == [k \in 1 .. n + 1 |-> IF k <= i THEN k ELSE k - 1]
  <2>5. \A k \in 1 .. n + 1 : g[k] = IF k <= i THEN k ELSE k - 1 OBVIOUS
  <2> HIDE DEF g
  <2>6. Parts(e, l, i, min, max, g)
    <3>1. ASSUME NEW k \in 1 .. n + 1
          PROVE  /\ g[k] \in 1 .. n /\ e[k].min <= e[k].max
                 /\ l[g[k]].min <= e[k].min /\ e[k].max <= l[g[k]].max
                 /\ e[k].max < min \/ max < e[k].min
      <4>1. CASE k < i
        <5>1. g[k] = k /\ k \in 1 .. n /\ e[k] = l[k] /\ k # i BY <1>1, <2>4, <2>5, <4>1
        <5> QED BY <1>1, <1>5, <5>1
      <4>2. CASE k = i
        <5>1. g[k] = i /\ e[k] = low BY <1>1, <2>4, <2>5, <4>2
        <5> QED BY <1>1, <1>3, <1>9, <1>10, <5>1
      <4>3. CASE k = i + 1
        <5>1. g[k] = i /\ e[k] = high BY <1>1, <2>4, <2>5, <4>3
        <5> QED BY <1>1, <1>3, <1>9, <1>10, <5>1
      <4>4. CASE k > i + 1
        <5>1. g[k] = k - 1 /\ k - 1 \in 1 .. n /\ e[k] = l[k - 1] /\ k - 1 # i
          BY <1>1, <2>4, <2>5, <4>4
        <5> QED BY <1>1, <1>5, <5>1
      <4> QED BY <1>1, <4>1, <4>2, <4>3, <4>4
    <3>2. ASSUME NEW j \in 1 .. n + 1, NEW k \in 1 .. n + 1, j < k
          PROVE  g[j] < g[k] \/ (g[j] = g[k] /\ e[j].max + 1 < e[k].min)
      <4>1. CASE j = i /\ k = i + 1
        <5>1. g[j] = i /\ g[k] = i /\ e[j] = low /\ e[k] = high BY <1>1, <2>4, <2>5, <4>1
        <5> QED BY <1>1, <1>3, <1>10, <5>1
      <4>2. CASE ~(j = i /\ k = i + 1)
        <5>1. g[j] < g[k] BY <1>1, <2>5, <3>2, <4>2
        <5> QED BY <5>1
      <4> QED BY <4>1, <4>2
    <3>3. ASSUME NEW j \in 1 .. n, j # i PROVE \E k \in 1 .. n + 1 : e[k] = l[j]
      <4>1. CASE j < i
        <5>1. j \in 1 .. n + 1 /\ e[j] = l[j] BY <1>1, <2>4, <4>1
        <5> QED BY <5>1
      <4>2. CASE j > i
        <5>1. j + 1 \in 1 .. n + 1 /\ j + 1 > i + 1 /\ (j + 1) - 1 = j BY <1>1, <4>2
        <5>2. e[j + 1] = l[j] BY <2>4, <5>1
        <5> QED BY <5>1, <5>2
      <4> QED BY <1>1, <3>3, <4>1, <4>2
    <3>4. \E k \in 1 .. n + 1 : e[k].min = l[i].min /\ e[k].max = min - 1
      <4>1. i \in 1 .. n + 1 /\ e[i] = low BY <1>1, <1>9, <2>4
      <4> QED BY <1>3, <1>10, <4>1
    <3>5. \E k \in 1 .. n + 1 : e[k].min = max + 1 /\ e[k].max = l[i].max
      <4>1. i + 1 \in 1 .. n + 1 /\ e[i + 1] = high BY <1>1, <1>9, <2>4
      <4> QED BY <1>3, <1>10, <4>1
    <3> QED BY <2>3, <3>1, <3>2, <3>3, <3>4, <3>5 DEF Parts, n
  <2> QED BY <2>1, <2>6, PartsAre DEF m
<1>11. ASSUME NEW r \in Ranges, m = [l EXCEPT ![i] = r],
              r.min <= r.max, l[i].min <= r.min, r.max <= l[i].max, r.max < min \/ max < r.min,
              l[i].min < min => r.min = l[i].min /\ r.max = min - 1,
              max < l[i].max => r.min = max + 1 /\ r.max = l[i].max
       PROVE  Ordered(m) /\ Elements(m) = Elements(l) \ (min .. max)
  <2> DEFINE g == [k \in 1 .. n |-> k]
  <2>1. m \in Seq(Ranges) /\ Len(m) = n /\ \A k \in 1 .. n : m[k] = IF k = i THEN r ELSE l[k]
    BY <1>1, <1>11 DEF n
  <2>2. \A k \in 1 .. n : g[k] = k OBVIOUS
  <2> HIDE DEF g
  <2>3. ASSUME NEW k \in 1 .. n
        PROVE  /\ g[k] \in 1 .. n /\ m[k].min <= m[k].max
               /\ l[g[k]].min <= m[k].min /\ m[k].max <= l[g[k]].max
               /\ m[k].max < min \/ max < m[k].min
    <3>1. CASE k = i BY <1>11, <2>1, <2>2, <3>1
    <3>2. CASE k # i BY <1>1, <1>5, <2>1, <2>2, <3>2
    <3> QED BY <3>1, <3>2
  <2>4. \A j, k \in 1 .. n : j < k => g[j] < g[k] \/ (g[j] = g[k] /\ m[j].max + 1 < m[k].min)
    BY <2>2
  <2>5. \A j \in 1 .. n : j # i => \E k \in 1 .. n : m[k] = l[j] BY <2>1
  <2>6. m[i] = r BY <1>9, <2>1
  <2>7. Parts(m, l, i, min, max, g)
    BY <1>9, <1>11, <2>1, <2>3, <2>4, <2>5, <2>6 DEF Parts, n
  <2> QED BY <2>7, PartsAre
<1>12. CASE l[i].min = min /\ max < l[i].max
  <2>1. m = [l EXCEPT ![i].min = max + 1] BY <1>1, <1>2, <1>4, <1>12 DEF Split
  <2>2. m = [l EXCEPT ![i] = high] BY <1>6, <2>1
  <2>3. /\ high \in Ranges /\ high.min <= high.max /\ l[i].min <= high.min /\ high.max <= l[i].max
        /\ max < high.min /\ high.min = max + 1 /\ high.max = l[i].max /\ ~(l[i].min < min)
    BY <1>1, <1>3, <1>9, <1>12
  <2> QED BY <1>11, <2>2, <2>3 DEF m
<1>13. CASE l[i].min < min /\ l[i].max = max
  <2>1. m = [l EXCEPT ![i].max = min - 1] BY <1>1, <1>2, <1>4, <1>13 DEF Split
  <2>2. m = [l EXCEPT ![i] = low] BY <1>6, <2>1
  <2>3. /\ low \in Ranges /\ low.min <= low.max /\ l[i].min <= low.min /\ low.max <= l[i].max
        /\ low.max < min /\ low.min = l[i].min /\ low.max = min - 1 /\ ~(max < l[i].max)
    BY <1>1, <1>3, <1>9, <1>13
  <2> QED BY <1>11, <2>2, <2>3 DEF m
<1>14. CASE l[i].min = min /\ l[i].max = max
  <2> DEFINE g == [k \in 1 .. n |-> IF k < i THEN k ELSE k + 1]
  <2>1. m = RemoveAt(l, i) BY <1>1, <1>2, <1>4, <1>14 DEF Split
  <2>2. /\ m \in Seq(Ranges) /\ Len(m) = n - 1
        /\ \A k \in 1 .. n - 1 : m[k] = IF k < i THEN l[k] ELSE l[k + 1]
    BY <1>1, <1>9, <2>1, RemoveAtIs DEF n
  <2>3. \A k \in 1 .. n - 1 : g[k] = IF k < i THEN k ELSE k + 1 BY <1>1
  <2> HIDE DEF g
  <2>4. \A k \in 1 .. n - 1 : g[k] \in 1 .. n /\ g[k] # i /\ m[k] = l[g[k]] BY <1>1, <2>2, <2>3
  <2>5. \A k \in 1 .. n - 1 : /\ g[k] \in 1 .. n /\ m[k].min <= m[k].max
                              /\ l[g[k]].min <= m[k].min /\ m[k].max <= l[g[k]].max
                              /\ m[k].max < min \/ max < m[k].min
    BY <1>1, <1>5, <2>4
  <2>6. \A j, k \in 1 .. n - 1 : j < k => g[j] < g[k] BY <1>1, <2>3
  <2>7. ASSUME NEW j \in 1 .. n, j # i PROVE \E k \in 1 .. n - 1 : m[k] = l[j]
    <3>1. CASE j < i
      <4>1. j \in 1 .. n - 1 /\ m[j] = l[j] BY <1>1, <1>9, <2>2, <3>1
      <4> QED BY <4>1
    <3>2. CASE j > i
      <4>1. j - 1 \in 1 .. n - 1 /\ ~(j - 1 < i) /\ (j - 1) + 1 = j BY <1>1, <1>9, <3>2
      <4>2. m[j - 1] = l[j] BY <2>2, <4>1
      <4> QED BY <4>1, <4>2
    <3> QED BY <1>1, <2>7, <3>1, <3>2
  <2>8. ~(l[i].min < min) /\ ~(max < l[i].max) BY <1>1, <1>14
  <2>9. Parts(m, l, i, min, max, g) BY <2>2, <2>5, <2>6, <2>7, <2>8 DEF Parts, n
  <2> QED BY <2>9, PartsAre DEF m
<1> QED BY <1>7, <1>8, <1>10, <1>12, <1>13, <1>14 DEF m

-----------------------------------------------------------------------------
(* A range above all others goes to the end.                               *)
LEMMA AddedLast ==
  ASSUME NEW l, Ordered(l), NEW min \in Numbers, NEW max \in Numbers, min <= max,
         \A i \in 1 .. Len(l) : l[i].max + 1 < min
  PROVE  AddRange(l, min, max) = Append(l, LongRange(min, max))
<1> DEFINE r == LongRange(min, max)
           m == AddRange(l, min, max)
           n == Len(l)
<1>1. /\ n \in Nat /\ min \in Int /\ max \in Int /\ r \in Ranges /\ l \in Seq(Ranges)
      /\ \A i \in 1 .. n : l[i].min \in Int /\ l[i].max \in Int /\ l[i].min <= l[i].max
  BY OrderedIs, RangeIs, RangeAssumption DEF Numbers
<1>2. CASE l = <<>>
  <2>1. m = <<r>> BY <1>2 DEF AddRange
  <2> HIDE DEF r, m
  <2> QED BY <1>2, <2>1 DEF r, m
<1>3. CASE l # <<>>
  <2>1. PICK p \in 0 .. n, q \in 1 .. n + 1 : Places(l, min, max, p, q) BY <1>3, PlacesAre
  <2>2. p <= q /\ \A i \in 1 .. n : /\ i = q => max <= l[i].max
                                    /\ p < i /\ i < q => min <= l[i].min
    BY <2>1 DEF Places, Spot
  <2>3. q = n + 1
    <3> SUFFICES ASSUME q \in 1 .. n PROVE FALSE BY <1>1
    <3>1. max <= l[q].max /\ l[q].max + 1 < min BY <2>2
    <3> QED BY <1>1, <3>1
  <2>4. p = n
    <3> SUFFICES ASSUME n \in 1 .. n, p < n, n < q PROVE FALSE BY <1>1, <2>3
    <3>1. min <= l[n].min /\ l[n].max + 1 < min BY <2>2
    <3> QED BY <1>1, <3>1
  <2>5. ~LowMeets(l, min, p)
    <3> SUFFICES ASSUME p >= 1, l[p].max + 1 >= min PROVE FALSE BY DEF LowMeets
    <3>1. p \in 1 .. n BY <1>1, <2>4
    <3>2. l[p].max + 1 < min BY <3>1
    <3> QED BY <1>1, <3>1, <3>2
  <2>6. ~HighMeets(l, max, q) BY <1>1, <2>3 DEF HighMeets
  <2>7. /\ From(l, min, p) = min /\ To(l, max, q) = max
        /\ Below(l, min, p) = n /\ Above(l, max, q) = n + 1
    BY <2>3, <2>4, <2>5, <2>6 DEF From, To, Below, Above
  <2>8. Spliced(m, l, n, n + 1, r) BY <1>3, <2>1, <2>7, AddRangeSplices
  <2> HIDE DEF m, r
  <2>9. m \in Seq(Ranges) /\ Len(m) = n + n - (n + 1) + 2 BY <2>8 DEF Spliced
  <2>10. Len(m) = n + 1 BY <1>1, <2>9
  <2>11. \A k \in 1 .. Len(m) :
           m[k] = IF k <= n THEN l[k] ELSE IF k = n + 1 THEN r ELSE l[k - n + (n + 1) - 2]
    BY <2>8 DEF Spliced
  <2> DEFINE a == Append(l, r)
  <2>12. /\ a \in Seq(Ranges) /\ Len(a) = n + 1 /\ a[n + 1] = r
         /\ \A k \in 1 .. n : a[k] = l[k]
    BY <1>1
  <2> HIDE DEF a, n
  <2>13. \A k \in 1 .. n + 1 : m[k] = a[k]
    <3> SUFFICES ASSUME NEW k \in 1 .. n + 1 PROVE m[k] = a[k] OBVIOUS
    <3>1. CASE k = n + 1
      <4>1. ~(k <= n) /\ k \in 1 .. Len(m) BY <1>1, <2>10, <3>1
      <4> QED BY <2>11, <2>12, <3>1, <4>1
    <3>2. CASE k # n + 1
      <4>1. k \in 1 .. n /\ k <= n /\ k \in 1 .. Len(m) BY <1>1, <2>10, <3>2
      <4> QED BY <2>11, <2>12, <4>1
    <3> QED BY <3>1, <3>2
  <2>14. m = a BY <2>9, <2>10, <2>12, <2>13
  <2> QED BY <2>14 DEF m, a, r
<1> QED BY <1>2, <1>3

IsRead(f, l) ==
  f = [n \in 0 .. Len(l) |-> IF n = 0 THEN <<>> ELSE AddRange(f[n - 1], l[n].min, l[n].max)]

LEMMA ReloadedIs ==
  ASSUME NEW l
  PROVE  Reloaded(l) = (CHOOSE f : IsRead(f, l))[Len(l)]
BY DEF Reloaded, IsRead

(* Reading back n ranges of a list gives its first n ranges.               *)
LEMMA ReadNext ==
  ASSUME NEW l, Ordered(l), NEW n \in 1 .. Len(l)
  PROVE  AddRange(SubSeq(l, 1, n - 1), l[n].min, l[n].max) = SubSeq(l, 1, n)
<1> DEFINE p == SubSeq(l, 1, n - 1)
<1>1. /\ l \in Seq(Ranges) /\ n - 1 \in Nat /\ n \in Int /\ Len(l) \in Nat /\ l[n] \in Ranges
      /\ \A i \in 1 .. Len(l) : l[i] \in Ranges /\ l[i].min \in Int /\ l[i].max \in Int /\ l[i].min <= l[i].max
      /\ \A i, j \in 1 .. Len(l) : i < j => l[i].max + 1 < l[j].min
  BY OrderedIs
<1>2. /\ p \in Seq(Ranges) /\ Len(p) = n - 1 /\ DOMAIN p = 1 .. n - 1
      /\ \A i \in 1 .. n - 1 : p[i] = l[i] /\ i \in 1 .. Len(l)
  BY <1>1
<1>3. SubSeq(l, 1, n) = Append(p, l[n]) BY <1>1
<1>4. l[n].min \in Numbers /\ l[n].max \in Numbers /\ l[n] = LongRange(l[n].min, l[n].max)
  BY <1>1, RangeIs
<1> HIDE DEF p
<1>5. Ordered(p)
  <2>1. \A i \in 1 .. n - 1 : p[i].min <= p[i].max BY <1>1, <1>2
  <2>2. \A i, j \in 1 .. n - 1 : i < j => p[i].max + 1 < p[j].min BY <1>1, <1>2
  <2> QED BY <1>2, <2>1, <2>2 DEF Ordered
<1>6. \A i \in 1 .. Len(p) : p[i].max + 1 < l[n].min BY <1>1, <1>2
<1>7. AddRange(p, l[n].min, l[n].max) = Append(p, LongRange(l[n].min, l[n].max))
  BY <1>1, <1>4, <1>5, <1>6, AddedLast
<1> QED BY <1>3, <1>4, <1>7 DEF p

LEMMA ReloadedSame ==
  ASSUME NEW l, Ordered(l)
  PROVE  Reloaded(l) = l
<1> DEFINE n == Len(l)
           f == [k \in 0 .. n |-> SubSeq(l, 1, k)]
           g == CHOOSE g : IsRead(g, l)
<1>1. n \in Nat /\ l \in Seq(Ranges) BY OrderedIs
<1>2. IsRead(f, l)
  <2>1. \A k \in 0 .. n : f[k] = SubSeq(l, 1, k) OBVIOUS
  <2>2. f = [k \in 0 .. n |-> f[k]] OBVIOUS
  <2>3. SubSeq(l, 1, 0) = <<>> BY <1>1
  <2> HIDE DEF f
  <2>4. ASSUME NEW k \in 0 .. n
        PROVE  f[k] = IF k = 0 THEN <<>> ELSE AddRange(f[k - 1], l[k].min, l[k].max)
    <3>1. CASE k = 0 BY <1>1, <2>1, <2>3, <3>1
    <3>2. CASE k # 0
      <4>1. k \in 1 .. n /\ k - 1 \in 0 .. n BY <1>1, <3>2
      <4>2. f[k - 1] = SubSeq(l, 1, k - 1) /\ f[k] = SubSeq(l, 1, k) BY <2>1, <4>1
      <4> QED BY <3>2, <4>1, <4>2, ReadNext
    <3> QED BY <3>1, <3>2
  <2> QED BY <2>2, <2>4 DEF IsRead
<1>3. IsRead(g, l) BY <1>2
<1> HIDE DEF g, f
<1>4. \A k \in 0 .. n : g[k] = IF k = 0 THEN <<>> ELSE AddRange(g[k - 1], l[k].min, l[k].max)
  BY <1>3 DEF IsRead
<1> DEFINE T == {k \in Nat : k <= n => g[k] = SubSeq(l, 1, k)}
<1>5. 0 \in T
  <2>1. g[0] = <<>> BY <1>1, <1>4
  <2>2. SubSeq(l, 1, 0) = <<>> BY <1>1
  <2> QED BY <2>1, <2>2
<1>6. ASSUME NEW k \in Nat, k \in T PROVE k + 1 \in T
  <2> SUFFICES ASSUME k + 1 <= n PROVE g[k + 1] = SubSeq(l, 1, k + 1) OBVIOUS
  <2> DEFINE i == k + 1
  <2>1. i \in 1 .. n /\ i \in 0 .. n /\ i # 0 /\ i - 1 = k BY <1>1
  <2>2. g[k] = SubSeq(l, 1, k) BY <1>1, <1>6
  <2> HIDE DEF i
  <2>3. g[i] = AddRange(g[i - 1], l[i].min, l[i].max) BY <1>4, <2>1
  <2>4. AddRange(SubSeq(l, 1, i - 1), l[i].min, l[i].max) = SubSeq(l, 1, i) BY <2>1, ReadNext
  <2> QED BY <2>1, <2>2, <2>3, <2>4 DEF i
<1>7. n \in T
  <2> HIDE DEF T
  <2> QED BY <1>1, <1>5, <1>6, NatUpwards
<1>8. g[n] = SubSeq(l, 1, n) BY <1>1, <1>7
<1>9. SubSeq(l, 1, n) = l BY <1>1
<1> QED BY <1>8, <1>9, ReloadedIs DEF g

-----------------------------------------------------------------------------
(* However ranges are added and parts of them removed, the list ascends    *)
(* with a gap between any two ranges: the binary search stays right.       *)
THEOREM CanonicalAlways == RemoveInside => (ListSpec => []Canonical)
<1> SUFFICES ASSUME RemoveInside PROVE ListSpec => []Canonical OBVIOUS
<1>1. Canonical <=> Ordered(list) BY DEF Canonical, ListTypeOK, Ordered
<1>2. EmptyList => Canonical BY DEF EmptyList, Canonical, ListTypeOK
<1>3. ASSUME Canonical, [ListNext]_list PROVE Canonical'
  <2>1. CASE UNCHANGED list BY <1>3, <2>1 DEF Canonical, ListTypeOK
  <2>2. ASSUME NEW min \in Numbers, NEW max \in Numbers, min <= max, CallAddRange(min, max)
        PROVE  Canonical'
    <3>1. Ordered(AddRange(list, min, max)) BY <1>1, <1>3, <2>2, AddRangeIs
    <3>2. Ordered(list') BY <2>2, <3>1 DEF CallAddRange
    <3> QED BY <3>2 DEF Canonical, ListTypeOK, Ordered
  <2>3. ASSUME NEW min \in Numbers, NEW max \in Numbers, min <= max, CallRemoveRange(min, max)
        PROVE  Canonical'
    <3>1. PICK i \in DOMAIN list : list[i].min <= min /\ max <= list[i].max
      BY <2>3 DEF CallRemoveRange, Removable
    <3>2. i \in 1 .. Len(list) BY <1>1, <1>3, OrderedIs
    <3>3. Ordered(RemoveRange(list, min, max)) BY <1>1, <1>3, <2>3, <3>1, <3>2, RemoveRangeIs
    <3>4. Ordered(list') BY <2>3, <3>3 DEF CallRemoveRange
    <3> QED BY <3>4 DEF Canonical, ListTypeOK, Ordered
  <2>4. CASE Reload
    <3>1. list' = list BY <1>1, <1>3, <2>4, ReloadedSame DEF Reload
    <3> QED BY <1>3, <3>1 DEF Canonical, ListTypeOK
  <2> QED BY <1>3, <2>1, <2>2, <2>3, <2>4 DEF ListNext
<1> QED BY <1>2, <1>3, PTL DEF ListSpec

(* addRange: whatever the list and wherever the new range lies, the        *)
(* numbers of the list become the union.                                   *)
THEOREM AddRangeAlwaysUnion == RemoveInside => (ListSpec => []AddRangeIsUnion)
<1> SUFFICES ASSUME RemoveInside PROVE ListSpec => []AddRangeIsUnion OBVIOUS
<1>1. Canonical => AddRangeIsUnion
  <2> SUFFICES ASSUME Canonical PROVE AddRangeIsUnion OBVIOUS
  <2>1. Ordered(list) BY DEF Canonical, ListTypeOK, Ordered
  <2> QED BY <2>1, AddRangeIs DEF AddRangeIsUnion
<1>2. ListSpec => []Canonical BY CanonicalAlways
<1> QED BY <1>1, <1>2, PTL

(* removeRange takes out the numbers of its range and no others.           *)
THEOREM RemoveRangeAlwaysDifference == RemoveInside => (ListSpec => []RemoveRangeIsDifference)
<1> SUFFICES ASSUME RemoveInside PROVE ListSpec => []RemoveRangeIsDifference OBVIOUS
<1>1. Canonical => RemoveRangeIsDifference
  <2> SUFFICES ASSUME Canonical, NEW min \in Numbers, NEW max \in Numbers, Removable(min, max)
               PROVE  Elements(RemoveRange(list, min, max)) = Elements(list) \ (min .. max)
    BY DEF RemoveRangeIsDifference
  <2>1. Ordered(list) BY DEF Canonical, ListTypeOK, Ordered
  <2>2. PICK i \in DOMAIN list : list[i].min <= min /\ max <= list[i].max BY DEF Removable
  <2>3. i \in 1 .. Len(list) /\ min <= max BY <2>1, OrderedIs DEF Removable
  <2> QED BY <2>1, <2>2, <2>3, RemoveRangeIs
<1>2. ListSpec => []Canonical BY CanonicalAlways
<1> QED BY <1>1, <1>2, PTL

(* A list written to its file and read back has the same ranges.           *)
THEOREM ReloadedAlwaysSame == RemoveInside => (ListSpec => []ReloadedIsSame)
<1> SUFFICES ASSUME RemoveInside PROVE ListSpec => []ReloadedIsSame OBVIOUS
<1>1. Canonical => ReloadedIsSame
  <2> SUFFICES ASSUME Canonical PROVE ReloadedIsSame OBVIOUS
  <2>1. Ordered(list) BY DEF Canonical, ListTypeOK, Ordered
  <2> QED BY <2>1, ReloadedSame DEF ReloadedIsSame
<1>2. ListSpec => []Canonical BY CanonicalAlways
<1> QED BY <1>1, <1>2, PTL

-----------------------------------------------------------------------------
(* The variable block store.                                               *)

(* A quotient is known by the multiples of the divisor around it.          *)
LEMMA Quotient ==
  ASSUME NEW a \in Int, NEW d \in Nat \ {0}, NEW q \in Int, NEW r \in Int,
         a = d * q + r, 0 <= r, r < d
  PROVE  a \div d = q /\ a % d = r
<1>1. /\ a \div d \in Int /\ a % d \in Int
      /\ a = d * (a \div d) + (a % d) /\ 0 <= a % d /\ a % d < d
  BY SMT
<1>2. d * (q - (a \div d)) = (a % d) - r
  BY <1>1, SMT
<1>3. q - (a \div d) < 1
  <2>1. SUFFICES ASSUME q - (a \div d) >= 1 PROVE FALSE
    BY <1>1, SMT
  <2>2. d * (q - (a \div d)) >= d
    BY <1>1, <2>1, SMT
  <2> QED BY <1>1, <1>2, <2>2, SMT
<1>4. q - (a \div d) > -1
  <2>1. SUFFICES ASSUME q - (a \div d) <= -1 PROVE FALSE
    BY <1>1, SMT
  <2>2. d * (q - (a \div d)) <= -d
    BY <1>1, <2>1, SMT
  <2> QED BY <1>1, <1>2, <2>2, SMT
<1>5. q = a \div d
  BY <1>1, <1>3, <1>4, SMT
<1> QED BY <1>1, <1>5, SMT

(* getNumAllocationBlocks takes as many units as toBlockSize works out for *)
(* a block that uses size bytes.                                           *)
THEOREM UnitsTakenAreUnitsDerived ==
  ASSUME NEW size \in Nat
  PROVE  NumAllocationBlocks(size) = ToBlockUnits(size)
<1> USE StoreAssumption DEF HEADER_SIZE
<1> DEFINE remain == size - (UnitSize - HEADER_SIZE)
           q == remain \div UnitSize
           r == remain % UnitSize
<1>1. CASE remain <= 0
  <2>1. CASE remain = 0
    <3>1. size + HEADER_SIZE = UnitSize * 1 + 0
      BY <2>1
    <3>2. (size + HEADER_SIZE) \div UnitSize = 1 /\ (size + HEADER_SIZE) % UnitSize = 0
      BY <3>1, Quotient
    <3> QED BY <2>1, <3>2 DEF NumAllocationBlocks, ToBlockUnits
  <2>2. CASE remain < 0
    <3>1. size + HEADER_SIZE = UnitSize * 0 + (size + HEADER_SIZE)
      BY SMT
    <3>2. (size + HEADER_SIZE) \div UnitSize = 0
          /\ (size + HEADER_SIZE) % UnitSize = size + HEADER_SIZE
      BY <3>1, <2>2, Quotient
    <3> QED BY <2>2, <3>2 DEF NumAllocationBlocks, ToBlockUnits
  <2> QED BY <1>1, <2>1, <2>2
<1>2. CASE remain > 0
  <2>1. q \in Int /\ r \in Int /\ remain = UnitSize * q + r /\ 0 <= r /\ r < UnitSize
    BY SMT
  <2>2. size + HEADER_SIZE = UnitSize * (q + 1) + r
    BY <2>1, SMT
  <2>3. (size + HEADER_SIZE) \div UnitSize = q + 1 /\ (size + HEADER_SIZE) % UnitSize = r
    <3> HIDE DEF q, r
    <3> QED BY <2>1, <2>2, Quotient
  <2>4. NumAllocationBlocks(size) = q + (IF r = 0 THEN 1 ELSE 2)
    BY <1>2 DEF NumAllocationBlocks
  <2>5. ToBlockUnits(size) = q + 1 + (IF r = 0 THEN 0 ELSE 1)
    BY <2>3 DEF ToBlockUnits
  <2> HIDE DEF q, r
  <2> QED BY <2>1, <2>4, <2>5
<1> QED BY <1>1, <1>2

(* A range that is taken whole is derived whole (allocateAll).             *)
THEOREM WholeRangeIsDerived ==
  ASSUME NEW n \in Nat \ {0}
  PROVE  ToBlockUnits(DataSize(n)) = n
<1> USE StoreAssumption DEF HEADER_SIZE
<1>1. DataSize(n) + HEADER_SIZE = UnitSize * n + 0 /\ DataSize(n) + HEADER_SIZE \in Int
  BY SMT DEF DataSize
<1>2. (DataSize(n) + HEADER_SIZE) \div UnitSize = n
      /\ (DataSize(n) + HEADER_SIZE) % UnitSize = 0
  BY <1>1, Quotient
<1> QED BY <1>2 DEF ToBlockUnits
-----------------------------------------------------------------------------
(* The invariant.  A block of a chain, the units worked out of what it     *)
(* uses, blocks that do not overlap, and the header that each one has on   *)
(* disk.                                                                   *)
BlockSet == [pos : Units, units : Nat \ {0}, used : Nat]

Derived(c) == \A k \in DOMAIN c : c[k].units = ToBlockUnits(c[k].used)
Apart(c) == \A j, k \in DOMAIN c : j # k => UnitsOf(c[j]) \cap UnitsOf(c[k]) = {}
OnDisk(d, c) ==
  \A k \in DOMAIN c : /\ d[c[k].pos].used = c[k].used
                      /\ d[c[k].pos].next = IF k < Len(c) THEN c[k + 1].pos ELSE 0
Blocks(c, n) ==
  c \in Seq(BlockSet) /\ Derived(c) /\ Apart(c) /\ Holds(c) \subseteq 0 .. n - 1

(* What getBlockList reads from u on: a chain of which only the first      *)
(* block may be at 0.                                                      *)
Chain(d, u, c, n) ==
  /\ Blocks(c, n) /\ c # <<>> /\ c[1].pos = u /\ OnDisk(d, c)
  /\ \A k \in DOMAIN c : k > 1 => c[k].pos # 0

StoreTypes ==
  /\ TypeOK
  /\ saved \in [available : SUBSET Units, numBlocks : 1 .. MaxUnits]
  /\ saved.available \subseteq 0 .. saved.numBlocks - 1
  /\ opened => numBlocks = saved.numBlocks /\ available \subseteq 0 .. numBlocks - 1
  /\ call = NoCall \/ (InCall /\ opened)

(* Objects that can be read back, share nothing, and have no unit of free. *)
Objects(U, d, n, free) ==
  /\ \A u \in U : Chain(d, u, BlockList(d, u), n) /\ Holds(BlockList(d, u)) \cap free = {}
  /\ \A u, w \in U : u # w => Holds(BlockList(d, u)) \cap Holds(BlockList(d, w)) = {}

(* Neither the free list nor the one in the header file has a unit of an   *)
(* object.                                                                 *)
ObjectsApart ==
  Objects(Settled, disk, saved.numBlocks,
          saved.available \cup (IF opened THEN available ELSE {}))

(* The blocks taken so far, and what the free units can still give.        *)
CallKinds ==
  /\ call = [kind |-> call.kind, fpos |-> call.fpos, size |-> call.size, val |-> call.val,
             remain |-> call.remain, blocks |-> call.blocks, old |-> call.old]
  /\ call.size \in Sizes /\ call.remain \in Nat /\ call.val \in Values
  /\ \/ call.kind = "alloc" /\ call.fpos = -1
     \/ call.kind = "realloc" /\ call.fpos \in handles

CallBlocks ==
  /\ Blocks(call.blocks, numBlocks)
  /\ Holds(call.blocks) \cap available = {}
  /\ \A u \in Settled : Holds(call.blocks) \cap Holds(BlockList(disk, u)) = {}
  /\ call.kind = "realloc" => IF call.blocks = <<>> THEN call.fpos \in available
                              ELSE call.blocks[1].pos = call.fpos

CallRoom ==
  /\ call.blocks = <<>> => call.remain = call.size /\ available # {}
  /\ call.remain > 0 =>
       /\ AvailableSize(call.blocks) = call.size - call.remain
       /\ Capacity(available) >=
            call.remain + (IF call.kind = "realloc" /\ call.blocks = <<>> THEN HEADER_SIZE ELSE 0)
  /\ call.remain = 0 /\ call.blocks # <<>> => AvailableSize(call.blocks) - call.size < UnitSize

CallFits == InCall => CallKinds /\ CallBlocks /\ CallRoom

StoreInv == StoreTypes /\ ObjectsApart /\ CallFits

(* Where the object at 0 stays and no used field overflows: 0 is taken as  *)
(* long as there is an object, so that no chain goes on at 0, and what is  *)
(* not free is part of a chain.                                            *)
FirstKept ==
  /\ handles # {} => 0 \in handles
  /\ InCall => /\ call.blocks # <<>> => 0 \notin available
               /\ \A k \in DOMAIN call.blocks : k > 1 => call.blocks[k].pos # 0
               /\ call.kind = "alloc" /\ handles = {} /\ call.blocks # <<>>
                    => call.blocks[1].pos = 0

UsedFits ==
  InCall => /\ call.remain <= MaxUsed
            /\ \A k \in DOMAIN call.blocks : call.blocks[k].used <= MaxUsed

Owned == (UNION {Holds(BlockList(disk, u)) : u \in Settled})
           \cup (IF InCall THEN Holds(call.blocks) ELSE {})

AllOwned ==
  /\ opened => available \cup Owned = 0 .. numBlocks - 1
  /\ ~opened => saved.available \cup Owned = 0 .. saved.numBlocks - 1

KeptInv == FirstKept /\ UsedFits /\ AllOwned /\ HeaderIsCurrent

(* Where no length is 0 besides: an object reads as some bytes of one      *)
(* value, and the blocks of a call use the bytes placed so far.            *)
Useds(c) == [k \in DOMAIN c |-> c[k].used]
ObjectSet == [size : Sizes, val : Values]

ReadInv ==
  /\ \A u \in Settled : ObjectAt(disk, u) \in ObjectSet
  /\ InCall => Total(Useds(call.blocks)) = call.size - call.remain
  /\ call.kind = "realloc" => call.old \in ObjectSet

-----------------------------------------------------------------------------
(* Units and bytes: a block has the units that its bytes and its header    *)
(* need, and no more.                                                      *)
LEMMA UnitsAreEnough ==
  ASSUME NEW x \in Nat
  PROVE  /\ ToBlockUnits(x) \in Nat \ {0}
         /\ x <= DataSize(ToBlockUnits(x)) /\ DataSize(ToBlockUnits(x)) - x < UnitSize
<1> USE StoreAssumption DEF HEADER_SIZE
<1> DEFINE t == x + HEADER_SIZE
           q == t \div UnitSize
           r == t % UnitSize
           qU == q * UnitSize
<1>1. q \in Int /\ r \in Int /\ t = UnitSize * q + r /\ 0 <= r /\ r < UnitSize
  BY SMT
<1>2. ToBlockUnits(x) = q + (IF r = 0 THEN 0 ELSE 1)
  BY DEF ToBlockUnits
<1>3. qU \in Int /\ t = qU + r /\ t = x + 10 /\ t \in Nat
  BY <1>1, SMT
<1>4. DataSize(q) = qU - 10 /\ DataSize(q + 1) = qU + UnitSize - 10
  <2> HIDE DEF q
  <2> QED BY <1>1, SMT DEF DataSize
<1>5. q >= 0 /\ (q = 0 => r # 0)
  <2>1. SUFFICES ASSUME q < 0 PROVE FALSE
    <3>1. q = 0 => qU = 0
      <4> HIDE DEF q
      <4> QED BY SMT
    <3> HIDE DEF q, r, qU, t
    <3> QED BY <1>1, <1>3, <3>1
  <2>2. qU <= -UnitSize
    <3> HIDE DEF q
    <3> QED BY <1>1, <2>1, SMT
  <2> HIDE DEF q, r, qU, t
  <2> QED BY <1>1, <1>3, <2>2
<1> HIDE DEF q, r, qU, t
<1>6. CASE r = 0
  <2>1. ToBlockUnits(x) = q BY <1>1, <1>2, <1>6
  <2>2. q \in Nat \ {0} BY <1>1, <1>5, <1>6
  <2>3. DataSize(q) = x BY <1>1, <1>3, <1>4, <1>6
  <2>4. x - x < UnitSize BY SMT
  <2> QED BY <2>1, <2>2, <2>3, <2>4
<1>7. CASE r # 0
  BY <1>1, <1>2, <1>3, <1>4, <1>5, <1>7
<1> QED BY <1>6, <1>7

(* Bytes that lack less than a unit of a block's room need all its units.  *)
LEMMA UnitsAreNeeded ==
  ASSUME NEW x \in Nat, NEW n \in Nat \ {0}, x <= DataSize(n), DataSize(n) - x < UnitSize
  PROVE  ToBlockUnits(x) = n
<1> USE StoreAssumption DEF HEADER_SIZE
<1> DEFINE m == ToBlockUnits(x)
<1>1. m \in Nat \ {0} /\ x <= DataSize(m) /\ DataSize(m) - x < UnitSize
  BY UnitsAreEnough
<1> HIDE DEF m
<1>2. DataSize(m) = m * UnitSize - 10 /\ DataSize(n) = n * UnitSize - 10
  BY DEF DataSize
<1>3. (m - n) * UnitSize < UnitSize /\ (n - m) * UnitSize < UnitSize
  <2> DEFINE a == m * UnitSize
             b == n * UnitSize
  <2>1. a \in Int /\ b \in Int /\ (m - n) * UnitSize = a - b /\ (n - m) * UnitSize = b - a
    BY <1>1, SMT
  <2> HIDE DEF a, b
  <2>2. DataSize(m) = a - 10 /\ DataSize(n) = b - 10 BY <1>2 DEF a, b
  <2> QED BY <1>1, <2>1, <2>2
<1>4. ~(m - n >= 1)
  <2> SUFFICES ASSUME m - n >= 1 PROVE FALSE OBVIOUS
  <2>1. (m - n) * UnitSize >= UnitSize BY <1>1, SMT
  <2> QED BY <1>1, <1>3, <2>1, SMT
<1>5. ~(n - m >= 1)
  <2> SUFFICES ASSUME n - m >= 1 PROVE FALSE OBVIOUS
  <2>1. (n - m) * UnitSize >= UnitSize BY <1>1, SMT
  <2> QED BY <1>1, <1>3, <2>1, SMT
<1> QED BY <1>1, <1>4, <1>5 DEF m

LEMMA DataSizeIs ==
  ASSUME NEW n \in Nat \ {0}
  PROVE  DataSize(n) \in Nat /\ DataSize(n) = n * UnitSize - HEADER_SIZE
<1>1. n * UnitSize >= UnitSize BY StoreAssumption, SMT
<1> QED BY <1>1, StoreAssumption, SMT DEF DataSize, HEADER_SIZE

(* More bytes need no fewer units.                                         *)
LEMMA FewerUnits ==
  ASSUME NEW x \in Nat, NEW n \in Nat \ {0}, x <= DataSize(n)
  PROVE  ToBlockUnits(x) <= n
<1> USE StoreAssumption DEF HEADER_SIZE
<1> DEFINE m == ToBlockUnits(x)
<1>1. m \in Nat \ {0} /\ x <= DataSize(m) /\ DataSize(m) - x < UnitSize
  BY UnitsAreEnough
<1> HIDE DEF m
<1> SUFFICES ASSUME m >= n + 1 PROVE FALSE
  BY <1>1 DEF m
<1>2. m * UnitSize >= n * UnitSize + UnitSize
  BY <1>1, SMT
<1> QED BY <1>1, <1>2, SMT DEF DataSize

-----------------------------------------------------------------------------
(* Reading a chain.                                                        *)
LEMMA BlockIs ==
  ASSUME NEW b \in BlockSet
  PROVE  /\ b = [pos |-> b.pos, units |-> b.units, used |-> b.used]
         /\ b.pos \in Units /\ b.pos \in Nat /\ b.units \in Nat \ {0} /\ b.used \in Nat
         /\ b.pos \in UnitsOf(b) /\ UnitsOf(b) \subseteq Int
BY StoreAssumption DEF BlockSet, Units, UnitsOf

(* No more blocks than units.                                              *)
LEMMA FewBlocks ==
  ASSUME NEW c, NEW n \in 0 .. MaxUnits, Blocks(c, n)
  PROVE  Len(c) \in 0 .. MaxUnits
<1>1. c \in Seq(BlockSet) /\ Len(c) \in Nat /\ DOMAIN c = 1 .. Len(c)
      /\ \A k \in 1 .. Len(c) : c[k] \in BlockSet
  BY DEF Blocks
<1> DEFINE p == [k \in 1 .. Len(c) |-> c[k].pos]
<1>2. \A k \in 1 .. Len(c) : c[k].pos \in Units /\ c[k].pos \in UnitsOf(c[k])
  BY <1>1, BlockIs
<1>3. p \in [1 .. Len(c) -> Units]
  BY <1>2
<1>4. \A j, k \in 1 .. Len(c) : p[j] = p[k] => j = k
  BY <1>1, <1>2 DEF Blocks, Apart
<1>5. IsFiniteSet(1 .. Len(c)) /\ Cardinality(1 .. Len(c)) = Len(c)
      /\ IsFiniteSet(Units) /\ Cardinality(Units) = MaxUnits
  <2>1. MaxUnits \in Nat /\ 0 \in Int /\ MaxUnits - 1 \in Int /\ 1 \in Int BY StoreAssumption
  <2>2. IsFiniteSet(Units) /\ Cardinality(Units) = IF 0 > MaxUnits - 1 THEN 0 ELSE (MaxUnits - 1) - 0 + 1
    BY <2>1, FS_Interval DEF Units
  <2>3. IsFiniteSet(1 .. Len(c)) /\ Cardinality(1 .. Len(c)) = IF 1 > Len(c) THEN 0 ELSE Len(c) - 1 + 1
    <3>1. Len(c) \in Int BY <1>1
    <3> QED BY <2>1, <3>1, FS_Interval
  <2> QED BY <1>1, <2>1, <2>2, <2>3
<1> HIDE DEF p
<1>6. ~(Cardinality(1 .. Len(c)) > Cardinality(Units))
  BY <1>3, <1>4, <1>5, FS_PigeonHole
<1> QED BY <1>1, <1>5, <1>6, StoreAssumption

IsPos(g, d, u) ==
  g = [n \in 1 .. MaxUnits |-> IF n = 1 THEN u ELSE d[g[n - 1]].next]

LEMMA PosExists ==
  ASSUME NEW d, NEW u
  PROVE  \E g : IsPos(g, d, u)
<1> DEFINE upto(g, m) == g = [n \in 1 .. m |-> IF n = 1 THEN u ELSE d[g[n - 1]].next]
           T == {m \in Nat : \E g : upto(g, m)}
<1>1. 0 \in T
  <2>1. upto([n \in 1 .. 0 |-> u], 0) OBVIOUS
  <2> QED BY <2>1
<1>2. ASSUME NEW m \in Nat, m \in T PROVE m + 1 \in T
  <2>1. PICK g : upto(g, m) BY <1>2
  <2> DEFINE h == [n \in 1 .. m + 1 |-> IF n <= m THEN g[n] ELSE IF n = 1 THEN u ELSE d[g[n - 1]].next]
  <2>2. \A n \in 1 .. m : g[n] = IF n = 1 THEN u ELSE d[g[n - 1]].next BY <2>1
  <2>3. \A n \in 1 .. m + 1 : h[n] = IF n = 1 THEN u ELSE d[h[n - 1]].next
    <3> SUFFICES ASSUME NEW n \in 1 .. m + 1 PROVE h[n] = IF n = 1 THEN u ELSE d[h[n - 1]].next
      OBVIOUS
    <3>1. n # 1 => n - 1 \in 1 .. m + 1 /\ n - 1 <= m /\ h[n - 1] = g[n - 1] OBVIOUS
    <3>2. CASE n <= m BY <2>2, <3>1, <3>2
    <3>3. CASE ~(n <= m) BY <3>1, <3>3
    <3> QED BY <3>2, <3>3
  <2>4. upto(h, m + 1) BY <2>3
  <2> HIDE DEF h
  <2> QED BY <2>4
<1>3. MaxUnits \in T
  <2> HIDE DEF T
  <2> QED BY <1>1, <1>2, NatUpwards, StoreAssumption
<1> QED BY <1>3 DEF IsPos

(* getBlockList follows the chain to its end, and only so far.             *)
LEMMA ChainIsRead ==
  ASSUME NEW d, NEW u, NEW c, NEW n \in 0 .. MaxUnits, Chain(d, u, c, n)
  PROVE  BlockList(d, u) = c
<1> DEFINE Place == CHOOSE g : IsPos(g, d, u)
           ends(l) == /\ d[Place[l]].next = 0 \/ l = MaxUnits
                      /\ \A m \in 1 .. l - 1 : d[Place[m]].next # 0
           len == CHOOSE l \in 1 .. MaxUnits : ends(l)
<1>1. BlockList(d, u) = [k \in 1 .. len |-> Loaded(d, Place[k])]
  BY DEF BlockList, IsPos
<1>2. IsPos(Place, d, u) BY PosExists
<1> HIDE DEF Place
<1>3. \A k \in 1 .. MaxUnits : Place[k] = IF k = 1 THEN u ELSE d[Place[k - 1]].next
  BY <1>2 DEF IsPos
<1>4. /\ c \in Seq(BlockSet) /\ Len(c) \in Nat /\ DOMAIN c = 1 .. Len(c) /\ Len(c) # 0
      /\ \A k \in 1 .. Len(c) : c[k] \in BlockSet
      /\ c[1].pos = u /\ \A k \in 1 .. Len(c) : k > 1 => c[k].pos # 0
      /\ \A k \in 1 .. Len(c) : d[c[k].pos].used = c[k].used /\ c[k].units = ToBlockUnits(c[k].used)
      /\ \A k \in 1 .. Len(c) : d[c[k].pos].next = IF k < Len(c) THEN c[k + 1].pos ELSE 0
  BY DEF Chain, Blocks, OnDisk, Derived
<1>5. Len(c) \in 1 .. MaxUnits
  BY <1>4, FewBlocks, StoreAssumption DEF Chain
<1>0. MaxUnits \in Nat /\ Len(c) \in Nat /\ 1 <= Len(c) /\ Len(c) <= MaxUnits
  BY <1>4, <1>5, StoreAssumption
<1> DEFINE T == {k \in Nat : k + 1 <= Len(c) => Place[k + 1] = c[k + 1].pos}
<1>6. 0 \in T BY <1>0, <1>3, <1>4
<1>7. ASSUME NEW k \in Nat, k \in T PROVE k + 1 \in T
  <2> SUFFICES ASSUME (k + 1) + 1 <= Len(c) PROVE Place[(k + 1) + 1] = c[(k + 1) + 1].pos OBVIOUS
  <2>1. Place[k + 1] = c[k + 1].pos /\ k + 1 \in 1 .. Len(c) /\ k + 1 < Len(c) BY <1>7
  <2>2. (k + 1) + 1 \in 1 .. MaxUnits /\ (k + 1) + 1 # 1 /\ ((k + 1) + 1) - 1 = k + 1 BY <1>0
  <2> QED BY <1>3, <1>4, <2>1, <2>2
<1>8. Nat \subseteq T
  <2> HIDE DEF T
  <2> QED BY <1>6, <1>7, NatUpwards
<1>9. \A k \in 1 .. Len(c) : Place[k] = c[k].pos
  <2> SUFFICES ASSUME NEW k \in 1 .. Len(c) PROVE Place[k] = c[k].pos OBVIOUS
  <2>1. k - 1 \in Nat /\ (k - 1) + 1 = k BY <1>0
  <2>2. (k - 1) + 1 <= Len(c) => Place[(k - 1) + 1] = c[(k - 1) + 1].pos BY <1>8, <2>1
  <2> QED BY <2>1, <2>2
<1> HIDE DEF T
<1>10. \A k \in 1 .. Len(c) : d[Place[k]].next = 0 <=> k = Len(c)
  <2> SUFFICES ASSUME NEW k \in 1 .. Len(c) PROVE d[Place[k]].next = 0 <=> k = Len(c) OBVIOUS
  <2>1. k < Len(c) => k + 1 \in 1 .. Len(c) /\ k + 1 > 1 BY <1>4
  <2> QED BY <1>4, <1>9, <2>1
<1>11. ends(Len(c)) BY <1>0, <1>10
<1>12. ASSUME NEW l \in 1 .. MaxUnits, ends(l) PROVE l = Len(c)
  <2>1. CASE l < Len(c) BY <1>0, <1>10, <1>12, <2>1
  <2>2. CASE l > Len(c) BY <1>0, <1>10, <1>12, <2>2
  <2> QED BY <1>0, <2>1, <2>2
<1>13. len = Len(c) BY <1>5, <1>11, <1>12
<1> HIDE DEF len
<1>14. \A k \in 1 .. Len(c) : Loaded(d, Place[k]) = c[k]
  <2> SUFFICES ASSUME NEW k \in 1 .. Len(c) PROVE Loaded(d, Place[k]) = c[k] OBVIOUS
  <2>1. c[k] = [pos |-> c[k].pos, units |-> c[k].units, used |-> c[k].used] BY <1>4, BlockIs
  <2> QED BY <1>4, <1>9, <2>1 DEF Loaded
<1>15. c = [k \in 1 .. Len(c) |-> c[k]] BY <1>4
<1> QED BY <1>1, <1>13, <1>14, <1>15

(* What every block of a chain is.                                         *)
LEMMA BlocksAre ==
  ASSUME NEW c, NEW n, Blocks(c, n)
  PROVE  /\ c \in Seq(BlockSet) /\ Len(c) \in Nat /\ DOMAIN c = 1 .. Len(c)
         /\ \A k \in 1 .. Len(c) :
              /\ c[k] \in BlockSet /\ c[k].pos \in Units /\ c[k].pos \in Nat
              /\ c[k].units \in Nat \ {0} /\ c[k].used \in Nat
              /\ c[k].units = ToBlockUnits(c[k].used)
              /\ c[k].pos \in UnitsOf(c[k]) /\ UnitsOf(c[k]) \subseteq Holds(c)
         /\ Holds(c) \subseteq 0 .. n - 1
<1>1. c \in Seq(BlockSet) /\ Len(c) \in Nat /\ DOMAIN c = 1 .. Len(c)
      /\ \A k \in 1 .. Len(c) : c[k] \in BlockSet
  BY DEF Blocks
<1>2. \A k \in 1 .. Len(c) : UnitsOf(c[k]) \subseteq Holds(c)
  BY <1>1 DEF Holds
<1>3. \A k \in 1 .. Len(c) : c[k].units = ToBlockUnits(c[k].used)
  BY <1>1 DEF Blocks, Derived
<1>4. Holds(c) \subseteq 0 .. n - 1
  BY DEF Blocks
<1> QED BY <1>1, <1>2, <1>3, <1>4, BlockIs

(* The first blocks of a chain, up to one at 0, are what is read back.     *)
LEMMA ChainIsCut ==
  ASSUME NEW d, NEW c, NEW n, Blocks(c, n), c # <<>>, OnDisk(d, c)
  PROVE  \E m \in 1 .. Len(c) : /\ Chain(d, c[1].pos, SubSeq(c, 1, m), n)
                                /\ Holds(SubSeq(c, 1, m)) \subseteq Holds(c)
                                /\ m = Len(c) \/ c[m + 1].pos = 0
<1>1. /\ c \in Seq(BlockSet) /\ Len(c) \in Nat /\ DOMAIN c = 1 .. Len(c)
      /\ \A k \in 1 .. Len(c) : c[k] \in BlockSet /\ UnitsOf(c[k]) \subseteq Holds(c)
                                /\ c[k].units = ToBlockUnits(c[k].used)
  BY BlocksAre
<1>2. Len(c) \in Nat /\ Len(c) >= 1 BY <1>1
<1> DEFINE T == {k \in 1 .. Len(c) : k = Len(c) \/ c[k + 1].pos = 0}
<1>3. PICK m \in T : \A k \in T : m <= k
  <2>1. T \subseteq Nat /\ Len(c) \in T BY <1>1, <1>2
  <2> HIDE DEF T
  <2> QED BY <2>1, LeastNumber
<1>4. m \in 1 .. Len(c) /\ (m = Len(c) \/ c[m + 1].pos = 0) BY <1>3
<1>0. m \in Nat /\ Len(c) \in Nat /\ 1 <= m /\ m <= Len(c) BY <1>2, <1>4
<1>5. ASSUME NEW k \in 1 .. m, k > 1 PROVE c[k].pos # 0
  <2>1. k - 1 \in 1 .. Len(c) /\ k - 1 # Len(c) /\ (k - 1) + 1 = k /\ k - 1 < m BY <1>0, <1>5
  <2>2. c[k].pos = 0 => k - 1 \in T BY <2>1
  <2>3. k - 1 \notin T
    <3> HIDE DEF T
    <3> QED BY <1>0, <1>3, <2>1
  <2> QED BY <2>2, <2>3
<1> HIDE DEF T
<1> DEFINE s == SubSeq(c, 1, m)
<1>6. s \in Seq(BlockSet) /\ Len(s) = m /\ DOMAIN s = 1 .. m /\ \A k \in 1 .. m : s[k] = c[k]
  BY <1>0, <1>1
<1> HIDE DEF s
<1>7. \A k \in 1 .. m : k \in 1 .. Len(c) BY <1>0
<1>8. Derived(s) BY <1>1, <1>6, <1>7 DEF Derived
<1>9. Apart(s) BY <1>1, <1>6, <1>7 DEF Apart, Blocks
<1>10. Holds(s) \subseteq Holds(c) BY <1>1, <1>6, <1>7 DEF Holds
<1>11. Blocks(s, n) BY <1>6, <1>8, <1>9, <1>10 DEF Blocks
<1>12. OnDisk(d, s)
  <2> SUFFICES ASSUME NEW k \in 1 .. m
               PROVE  /\ d[s[k].pos].used = s[k].used
                      /\ d[s[k].pos].next = IF k < m THEN s[k + 1].pos ELSE 0
    BY <1>6 DEF OnDisk
  <2>1. /\ d[c[k].pos].used = c[k].used
        /\ d[c[k].pos].next = IF k < Len(c) THEN c[k + 1].pos ELSE 0
    BY <1>1, <1>7 DEF OnDisk
  <2>2. k < m => k + 1 \in 1 .. m /\ k < Len(c) BY <1>0
  <2>3. k = m \/ k < m BY <1>0
  <2> QED BY <1>4, <1>6, <2>1, <2>2, <2>3
<1>13. s # <<>> /\ s[1].pos = c[1].pos BY <1>4, <1>6
<1> QED BY <1>4, <1>5, <1>6, <1>10, <1>11, <1>12, <1>13 DEF Chain, s

(* A chain whose units nobody touched is still there.                      *)
LEMMA ChainStays ==
  ASSUME NEW d, NEW e, NEW u, NEW c, NEW n \in Int, NEW m \in Int, n <= m,
         Chain(d, u, c, n), \A x \in Holds(c) : e[x] = d[x]
  PROVE  Chain(e, u, c, m)
<1>1. Blocks(c, n) BY DEF Chain
<1>2. \A k \in DOMAIN c : c[k].pos \in Holds(c) BY <1>1, BlocksAre
<1>3. OnDisk(e, c) BY <1>2 DEF OnDisk, Chain
<1>4. Blocks(c, m) BY <1>1 DEF Blocks
<1> QED BY <1>3, <1>4 DEF Chain

Cells(d) == \A u \in Units : /\ d[u].used \in Nat \cup {Inside} /\ d[u].next \in Units
                             /\ d[u].val \in Values

(* Writing blocks back changes their units only, and leaves each block     *)
(* that could be stored with its header.                                   *)
LEMMA WriteBackIs ==
  ASSUME NEW c, NEW n \in 0 .. MaxUnits, Blocks(c, n), NEW d, NEW val
  PROVE  /\ \A x \in Units \ Holds(c) : WriteBack(d, c, val)[x] = d[x]
         /\ \A k \in 1 .. Len(c) :
              WriteBack(d, c, val)[c[k].pos] =
                IF k \in Storable(c)
                THEN Cell(c[k].used, IF k < Len(c) THEN c[k + 1].pos ELSE 0, val)
                ELSE d[c[k].pos]
         /\ Cells(d) /\ val \in Values => Cells(WriteBack(d, c, val))
<1>1. /\ c \in Seq(BlockSet) /\ Len(c) \in Nat /\ DOMAIN c = 1 .. Len(c)
      /\ \A k \in 1 .. Len(c) : /\ c[k].pos \in Units /\ c[k].used \in Nat
                                /\ c[k].pos \in UnitsOf(c[k]) /\ UnitsOf(c[k]) \subseteq Holds(c)
  BY BlocksAre
<1>2. Storable(c) \subseteq 1 .. Len(c) BY <1>1 DEF Storable
<1>3. \A j, k \in 1 .. Len(c) : j # k => UnitsOf(c[j]) \cap UnitsOf(c[k]) = {}
  BY <1>1 DEF Blocks, Apart
<1> DEFINE W == WriteBack(d, c, val)
           ks(x) == {k \in Storable(c) : x \in UnitsOf(c[k])}
           next(k) == IF k < Len(c) THEN c[k + 1].pos ELSE 0
<1>4. ASSUME NEW x \in Units, ks(x) = {} PROVE W[x] = d[x]
  BY <1>4 DEF WriteBack
<1>5. ASSUME NEW x \in Units, NEW k \in ks(x)
      PROVE  W[x] = IF x = c[k].pos THEN Cell(c[k].used, next(k), val) ELSE Cell(Inside, 0, val)
  <2>1. ks(x) = {k} BY <1>2, <1>3, <1>5
  <2> DEFINE l == CHOOSE j \in ks(x) : \A i \in ks(x) : i <= j
  <2>2. W[x] = IF x = c[l].pos THEN Cell(c[l].used, next(l), val) ELSE Cell(Inside, 0, val)
    BY <2>1 DEF WriteBack
  <2>3. l = k
    <3>1. k \in Nat BY <1>2
    <3> HIDE DEF ks
    <3> QED BY <2>1, <3>1
  <2> HIDE DEF l
  <2> QED BY <2>2, <2>3
<1> HIDE DEF W
<1>6. ASSUME NEW x \in Units \ Holds(c) PROVE W[x] = d[x]
  BY <1>1, <1>2, <1>4
<1>7. ASSUME NEW k \in 1 .. Len(c)
      PROVE  W[c[k].pos] = IF k \in Storable(c) THEN Cell(c[k].used, next(k), val) ELSE d[c[k].pos]
  <2>1. CASE k \in Storable(c)
    <3>1. k \in ks(c[k].pos) BY <1>1, <2>1
    <3> QED BY <1>1, <1>5, <2>1, <3>1
  <2>2. CASE k \notin Storable(c)
    <3>1. ks(c[k].pos) = {} BY <1>1, <1>2, <1>3, <2>2
    <3> QED BY <1>1, <1>4, <2>2, <3>1
  <2> QED BY <2>1, <2>2
<1>8. ASSUME Cells(d), val \in Values PROVE Cells(W)
  <2> SUFFICES ASSUME NEW x \in Units
               PROVE  W[x].used \in Nat \cup {Inside} /\ W[x].next \in Units /\ W[x].val \in Values
    BY DEF Cells
  <2>1. 0 \in Units BY StoreAssumption DEF Units
  <2>2. CASE ks(x) = {} BY <1>4, <1>8, <2>2 DEF Cells
  <2>3. ASSUME NEW k \in ks(x) PROVE W[x].used \in Nat \cup {Inside} /\ W[x].next \in Units /\ W[x].val \in Values
    <3>1. k \in 1 .. Len(c) BY <1>2
    <3>2. k < Len(c) => k + 1 \in 1 .. Len(c) BY <1>1, <3>1
    <3>3. next(k) \in Units BY <1>1, <2>1, <3>2
    <3> HIDE DEF next, ks
    <3>4. W[x] = Cell(c[k].used, next(k), val) \/ W[x] = Cell(Inside, 0, val) BY <1>5
    <3> QED BY <1>1, <1>8, <2>1, <3>1, <3>3, <3>4 DEF Cell
  <2> QED BY <2>2, <2>3
<1> QED BY <1>6, <1>7, <1>8 DEF W

(* Freeing resets headers of the blocks freed only.                        *)
LEMMA HeadersResetIs ==
  ASSUME NEW c, NEW n, Blocks(c, n), NEW d
  PROVE  /\ \A x \in Units \ Holds(c) : HeadersReset(d, c)[x] = d[x]
         /\ Cells(d) => Cells(HeadersReset(d, c))
<1>1. DOMAIN c = 1 .. Len(c) /\ \A k \in 1 .. Len(c) : c[k].pos \in Holds(c)
  BY BlocksAre
<1>2. 0 \in Units BY StoreAssumption DEF Units
<1>3. \A x \in Units \ Holds(c) : HeadersReset(d, c)[x] = d[x] BY <1>1 DEF HeadersReset
<1>4. ASSUME Cells(d) PROVE Cells(HeadersReset(d, c))
  BY <1>2, <1>4 DEF Cells, HeadersReset, Cell
<1> QED BY <1>3, <1>4

-----------------------------------------------------------------------------
(* The room of blocks, and what write() puts into each.                    *)
Rooms(c) == [k \in DOMAIN c |-> DataSize(c[k].units)]

LEMMA RoomsAre ==
  ASSUME NEW c \in Seq(BlockSet)
  PROVE  /\ Rooms(c) \in Seq(Nat) /\ Len(Rooms(c)) = Len(c)
         /\ \A k \in 1 .. Len(c) : Rooms(c)[k] = DataSize(c[k].units)
         /\ AvailableSize(c) = Total(Rooms(c)) /\ AvailableSize(c) \in Nat
<1>1. Len(c) \in Nat /\ DOMAIN c = 1 .. Len(c) /\ \A k \in 1 .. Len(c) : c[k] \in BlockSet OBVIOUS
<1>2. \A k \in 1 .. Len(c) : DataSize(c[k].units) \in Nat BY <1>1, BlockIs, DataSizeIs
<1>3. Rooms(c) \in [1 .. Len(c) -> Nat] BY <1>1, <1>2 DEF Rooms
<1>4. \A k \in 1 .. Len(c) : Rooms(c)[k] = DataSize(c[k].units) BY <1>1 DEF Rooms
<1>5. Rooms(c) \in Seq(Nat) /\ Len(Rooms(c)) = Len(c) BY <1>1, <1>3
<1>6. AvailableSize(c) = Total(Rooms(c)) BY DEF AvailableSize, Rooms
<1> QED BY <1>4, <1>5, <1>6, TotalNat

LEMMA RoomOfNone == AvailableSize(<<>>) = 0
<1>1. Rooms(<<>>) = <<>>
  <2>1. <<>> \in Seq(BlockSet) /\ Len(<<>>) = 0 OBVIOUS
  <2>2. Rooms(<<>>) \in Seq(Nat) /\ Len(Rooms(<<>>)) = 0 BY <2>1, RoomsAre
  <2> QED BY <2>2
<1>2. <<>> \in Seq(BlockSet) OBVIOUS
<1> QED BY <1>1, <1>2, RoomsAre, TotalEmpty

LEMMA RoomOfOneMore ==
  ASSUME NEW c \in Seq(BlockSet), NEW b \in BlockSet
  PROVE  AvailableSize(Append(c, b)) = AvailableSize(c) + DataSize(b.units)
<1>1. /\ Append(c, b) \in Seq(BlockSet) /\ Len(c) \in Nat /\ Len(Append(c, b)) = Len(c) + 1
      /\ Append(c, b)[Len(c) + 1] = b /\ \A k \in 1 .. Len(c) : Append(c, b)[k] = c[k]
  OBVIOUS
<1> DEFINE s == Rooms(c)
           t == Rooms(Append(c, b))
           n == Len(c)
<1>2. /\ s \in Seq(Nat) /\ Len(s) = n /\ \A k \in 1 .. n : s[k] = DataSize(c[k].units)
      /\ AvailableSize(c) = Total(s)
  BY RoomsAre
<1>3. /\ t \in Seq(Nat) /\ Len(t) = n + 1
      /\ \A k \in 1 .. n + 1 : t[k] = DataSize(Append(c, b)[k].units)
      /\ AvailableSize(Append(c, b)) = Total(t)
  BY <1>1, RoomsAre
<1>4. n \in Nat BY <1>1
<1> HIDE DEF s, t
<1>5. t[n + 1] = DataSize(b.units) BY <1>1, <1>3, <1>4
<1>6. \A k \in 1 .. n : t[k] = s[k] BY <1>1, <1>2, <1>3, <1>4
<1>7. s \in Seq(Int) /\ t \in Seq(Int) BY <1>2, <1>3
<1> HIDE DEF n
<1> QED BY <1>2, <1>3, <1>4, <1>5, <1>6, <1>7, TotalLonger

LEMMA RoomOfFirst ==
  ASSUME NEW c \in Seq(BlockSet), NEW k \in 1 .. Len(c)
  PROVE  /\ AvailableSize(SubSeq(c, 1, k - 1)) \in Nat /\ AvailableSize(c) \in Nat
         /\ AvailableSize(SubSeq(c, 1, k)) <= AvailableSize(c)
         /\ AvailableSize(SubSeq(c, 1, k)) =
              AvailableSize(SubSeq(c, 1, k - 1)) + DataSize(c[k].units)
<1> DEFINE s == Rooms(c)
<1>1. /\ s \in Seq(Nat) /\ Len(s) = Len(c) /\ \A j \in 1 .. Len(c) : s[j] = DataSize(c[j].units)
      /\ AvailableSize(c) = Total(s) /\ AvailableSize(c) \in Nat
  BY RoomsAre
<1>0. Len(c) \in Nat /\ k \in Nat /\ \A j \in 1 .. Len(c) : c[j] \in BlockSet OBVIOUS
<1> HIDE DEF s
<1>2. ASSUME NEW j \in 0 .. Len(c) PROVE AvailableSize(SubSeq(c, 1, j)) = Total(SubSeq(s, 1, j))
  <2>0. j \in Nat /\ \A i \in 1 .. j : i \in 1 .. Len(c) BY <1>0
  <2>1. SubSeq(c, 1, j) \in Seq(BlockSet) /\ Len(SubSeq(c, 1, j)) = j
        /\ \A i \in 1 .. j : SubSeq(c, 1, j)[i] = c[i]
    BY <1>0, <2>0
  <2>2. SubSeq(s, 1, j) \in Seq(Nat) /\ Len(SubSeq(s, 1, j)) = j
        /\ \A i \in 1 .. j : SubSeq(s, 1, j)[i] = s[i]
    BY <1>1, <2>0
  <2>3. /\ Rooms(SubSeq(c, 1, j)) \in Seq(Nat) /\ Len(Rooms(SubSeq(c, 1, j))) = j
        /\ \A i \in 1 .. j : Rooms(SubSeq(c, 1, j))[i] = DataSize(SubSeq(c, 1, j)[i].units)
        /\ AvailableSize(SubSeq(c, 1, j)) = Total(Rooms(SubSeq(c, 1, j)))
    BY <2>1, RoomsAre
  <2>4. \A i \in 1 .. j : Rooms(SubSeq(c, 1, j))[i] = SubSeq(s, 1, j)[i]
    BY <1>1, <2>0, <2>1, <2>2, <2>3
  <2>5. Rooms(SubSeq(c, 1, j)) = SubSeq(s, 1, j) BY <2>2, <2>3, <2>4, SeqEqual
  <2> QED BY <2>3, <2>5
<1>3. k \in 1 .. Len(s) /\ k - 1 \in 0 .. Len(c) /\ k \in 0 .. Len(c) BY <1>0, <1>1
<1>4. /\ Total(SubSeq(s, 1, k - 1)) \in Nat /\ Total(SubSeq(s, 1, k)) <= Total(s)
      /\ Total(SubSeq(s, 1, k)) = Total(SubSeq(s, 1, k - 1)) + s[k]
  BY <1>1, <1>3, TotalPrefix
<1> QED BY <1>1, <1>2, <1>3, <1>4

(* What write() puts into the block k of c.                                *)
Share(c, length, k) ==
  Minimum(IF length > AvailableSize(SubSeq(c, 1, k - 1))
          THEN length - AvailableSize(SubSeq(c, 1, k - 1)) ELSE 0,
          DataSize(c[k].units))

(* Blocks that are filled up to less than a unit keep their units, so that *)
(* what is derived when they are read is what they have.                   *)
LEMMA FilledIs ==
  ASSUME NEW c, NEW n, Blocks(c, n), NEW length \in Nat, AvailableSize(c) - length < UnitSize
  PROVE  /\ Blocks(Filled(c, length), n) /\ Len(Filled(c, length)) = Len(c)
         /\ Holds(Filled(c, length)) = Holds(c)
         /\ \A k \in 1 .. Len(c) : /\ Filled(c, length)[k].pos = c[k].pos
                                   /\ Filled(c, length)[k].units = c[k].units
                                   /\ Filled(c, length)[k].used = Share(c, length, k)
<1>1. /\ c \in Seq(BlockSet) /\ Len(c) \in Nat /\ DOMAIN c = 1 .. Len(c)
      /\ \A k \in 1 .. Len(c) : c[k] \in BlockSet /\ c[k].units \in Nat \ {0}
  BY BlocksAre
<1> DEFINE f == Filled(c, length)
           before(k) == AvailableSize(SubSeq(c, 1, k - 1))
           room(k) == DataSize(c[k].units)
           rest(k) == IF length > before(k) THEN length - before(k) ELSE 0
<1>2. f = [k \in 1 .. Len(c) |-> [c[k] EXCEPT !.used = Minimum(rest(k), room(k))]]
  BY <1>1 DEF Filled
<1>3. ASSUME NEW k \in 1 .. Len(c)
      PROVE  /\ Minimum(rest(k), room(k)) \in Nat
             /\ ToBlockUnits(Minimum(rest(k), room(k))) = c[k].units
  <2>1. /\ before(k) \in Nat /\ AvailableSize(c) \in Nat
        /\ before(k) + room(k) <= AvailableSize(c)
    BY <1>1, RoomOfFirst
  <2>2. room(k) \in Nat BY <1>1, DataSizeIs
  <2> DEFINE u == Minimum(rest(k), room(k))
             B == before(k)
             R == room(k)
             A == AvailableSize(c)
  <2>3. u = (IF (IF length > B THEN length - B ELSE 0) < R
             THEN (IF length > B THEN length - B ELSE 0) ELSE R)
    BY DEF Minimum
  <2>4. /\ B \in Nat /\ A \in Nat /\ R \in Nat /\ B + R <= A /\ A - length < UnitSize
        /\ UnitSize \in Nat /\ UnitSize > 10
    BY <2>1, <2>2, StoreAssumption DEF HEADER_SIZE
  <2> HIDE DEF u, B, R, A
  <2>5. u \in Nat /\ u <= R /\ R - u < UnitSize BY <2>3, <2>4
  <2>6. ToBlockUnits(u) = c[k].units
    BY <1>1, <2>5, UnitsAreNeeded DEF R
  <2> QED BY <2>5, <2>6 DEF u
<1> HIDE DEF f, before, room, rest
<1>4. ASSUME NEW k \in 1 .. Len(c)
      PROVE  /\ f[k] \in BlockSet /\ f[k].pos = c[k].pos /\ f[k].units = c[k].units
             /\ f[k].used = Minimum(rest(k), room(k))
             /\ f[k].units = ToBlockUnits(f[k].used)
  <2>1. f[k] = [c[k] EXCEPT !.used = Minimum(rest(k), room(k))] BY <1>2
  <2>2. c[k] = [pos |-> c[k].pos, units |-> c[k].units, used |-> c[k].used] /\ c[k].pos \in Units
    BY <1>1, BlockIs
  <2>3. f[k] = [pos |-> c[k].pos, units |-> c[k].units, used |-> Minimum(rest(k), room(k))]
    BY <2>1, <2>2
  <2> QED BY <1>1, <1>3, <2>2, <2>3 DEF BlockSet
<1>5. f \in [1 .. Len(c) -> BlockSet] BY <1>2, <1>4
<1>6. f \in Seq(BlockSet) /\ Len(f) = Len(c) /\ DOMAIN f = 1 .. Len(c) BY <1>1, <1>5
<1>7. \A k \in 1 .. Len(c) : UnitsOf(f[k]) = UnitsOf(c[k]) BY <1>4 DEF UnitsOf
<1>8. Holds(f) = Holds(c) BY <1>1, <1>6, <1>7 DEF Holds
<1>9. Derived(f) BY <1>4, <1>6 DEF Derived
<1>10. Apart(f) BY <1>1, <1>6, <1>7 DEF Apart, Blocks
<1>11. Blocks(f, n) BY <1>6, <1>8, <1>9, <1>10 DEF Blocks
<1>12. \A k \in 1 .. Len(c) : f[k].used = Share(c, length, k)
  BY <1>4 DEF Share, rest, room, before
<1> QED BY <1>4, <1>6, <1>8, <1>11, <1>12 DEF f

(* So a write in place leaves a chain of the same units, even if a used    *)
(* field overflows half way.                                               *)
LEMMA WrittenInPlace ==
  ASSUME NEW d, NEW u, NEW c, NEW n \in 0 .. MaxUnits, Chain(d, u, c, n),
         NEW length \in Nat, AvailableSize(c) - length < UnitSize, NEW val
  PROVE  \E e : /\ Chain(WriteBack(d, Filled(c, length), val), u, e, n)
                /\ Holds(e) = Holds(c)
<1> DEFINE f == Filled(c, length)
           w == WriteBack(d, f, val)
           e == [k \in 1 .. Len(c) |-> IF k \in Storable(f) THEN f[k] ELSE c[k]]
<1>0. Blocks(c, n) /\ c # <<>> /\ c[1].pos = u /\ OnDisk(d, c)
      /\ \A k \in DOMAIN c : k > 1 => c[k].pos # 0
  BY DEF Chain
<1>1. /\ c \in Seq(BlockSet) /\ Len(c) \in Nat /\ DOMAIN c = 1 .. Len(c)
      /\ \A k \in 1 .. Len(c) : c[k] \in BlockSet /\ c[k].units = ToBlockUnits(c[k].used)
  BY <1>0, BlocksAre
<1>2. /\ Blocks(f, n) /\ Len(f) = Len(c) /\ Holds(f) = Holds(c)
      /\ \A k \in 1 .. Len(c) : f[k].pos = c[k].pos /\ f[k].units = c[k].units
  BY <1>0, FilledIs
<1> HIDE DEF f
<1>3. \A k \in 1 .. Len(c) : f[k] \in BlockSet /\ f[k].units = ToBlockUnits(f[k].used)
  BY <1>2, BlocksAre
<1>4. \A k \in 1 .. Len(c) :
        w[c[k].pos] = IF k \in Storable(f)
                      THEN Cell(f[k].used, IF k < Len(c) THEN f[k + 1].pos ELSE 0, val)
                      ELSE d[c[k].pos]
  BY <1>2, WriteBackIs
<1>5. \A k \in 1 .. Len(c) : e[k] = IF k \in Storable(f) THEN f[k] ELSE c[k] OBVIOUS
<1>6. e \in [1 .. Len(c) -> BlockSet] BY <1>1, <1>3
<1> HIDE DEF w, e
<1>7. e \in Seq(BlockSet) /\ Len(e) = Len(c) /\ DOMAIN e = 1 .. Len(c) BY <1>1, <1>6
<1>8. \A k \in 1 .. Len(c) : /\ e[k].pos = c[k].pos /\ e[k].units = c[k].units
                             /\ e[k].units = ToBlockUnits(e[k].used)
  BY <1>1, <1>2, <1>3, <1>5
<1>9. \A k \in 1 .. Len(c) : UnitsOf(e[k]) = UnitsOf(c[k]) BY <1>8 DEF UnitsOf
<1>10. Holds(e) = Holds(c) BY <1>1, <1>7, <1>9 DEF Holds
<1>11. Blocks(e, n)
  <2>1. Derived(e) BY <1>7, <1>8 DEF Derived
  <2>2. Apart(e) BY <1>0, <1>1, <1>7, <1>9 DEF Apart, Blocks
  <2> QED BY <1>0, <1>7, <1>10, <2>1, <2>2 DEF Blocks
<1>12. OnDisk(w, e)
  <2> SUFFICES ASSUME NEW k \in 1 .. Len(c)
               PROVE  /\ w[e[k].pos].used = e[k].used
                      /\ w[e[k].pos].next = IF k < Len(c) THEN e[k + 1].pos ELSE 0
    BY <1>7 DEF OnDisk
  <2>1. k < Len(c) => k + 1 \in 1 .. Len(c) BY <1>1
  <2>2. k < Len(c) => e[k + 1].pos = c[k + 1].pos /\ f[k + 1].pos = c[k + 1].pos
    BY <1>2, <1>8, <2>1
  <2>3. /\ d[c[k].pos].used = c[k].used
        /\ d[c[k].pos].next = IF k < Len(c) THEN c[k + 1].pos ELSE 0
    BY <1>0, <1>1 DEF OnDisk
  <2>4. e[k].pos = c[k].pos BY <1>8
  <2>5. CASE k \in Storable(f)
    <3>1. w[e[k].pos] = Cell(f[k].used, IF k < Len(c) THEN f[k + 1].pos ELSE 0, val)
      BY <1>4, <2>4, <2>5
    <3>2. e[k] = f[k] BY <1>5, <2>5
    <3> QED BY <2>2, <3>1, <3>2 DEF Cell
  <2>6. CASE k \notin Storable(f)
    <3>1. w[e[k].pos] = d[c[k].pos] BY <1>4, <2>4, <2>6
    <3>2. e[k] = c[k] BY <1>5, <2>6
    <3> QED BY <2>2, <2>3, <3>1, <3>2
  <2> QED BY <2>5, <2>6
<1>13. 1 \in 1 .. Len(c) BY <1>0, <1>1
<1>14. e # <<>> /\ e[1].pos = u BY <1>0, <1>7, <1>8, <1>13
<1>15. Chain(w, u, e, n) BY <1>0, <1>1, <1>7, <1>8, <1>11, <1>12, <1>14 DEF Chain
<1> QED BY <1>10, <1>15 DEF w, f

-----------------------------------------------------------------------------
(* The ranges of the free list and what they can hold.                     *)
IsRun(free, a, m) == a \in free /\ m \in free /\ a <= m /\ a .. m \subseteq free /\ m + 1 \notin free

LEMMA RangeFromIs ==
  ASSUME NEW free, NEW n \in Nat, free \subseteq 0 .. n - 1, NEW u \in free
  PROVE  \E m \in free : RangeFrom(free, u) = LongRange(u, m) /\ IsRun(free, u, m)
<1>1. u \in Nat /\ u < n BY SMT
<1> DEFINE T == {x \in Nat : x > u /\ x \notin free}
           M == {x \in free : u <= x /\ u .. x \subseteq free /\ x + 1 \notin free}
<1>2. n \in T BY <1>1
<1>3. PICK x \in T : \A y \in T : x <= y
  <2>1. T \subseteq Nat OBVIOUS
  <2> HIDE DEF T
  <2> QED BY <1>2, <2>1, LeastNumber
<1>4. u .. x - 1 \subseteq free
  <2> SUFFICES ASSUME NEW y \in u .. x - 1, y \notin free PROVE FALSE OBVIOUS
  <2>1. y \in T BY <1>1, <1>3
  <2>2. x <= y BY <1>3, <2>1
  <2> QED BY <1>1, <1>3, <2>2
<1>5. x - 1 \in M
  <2>1. x - 1 \in u .. x - 1 /\ u <= x - 1 /\ (x - 1) + 1 = x BY <1>1, <1>3
  <2> QED BY <1>3, <1>4, <2>1
<1> DEFINE m == CHOOSE y \in free : u <= y /\ u .. y \subseteq free /\ y + 1 \notin free
<1>6. m \in M BY <1>5
<1>7. RangeFrom(free, u) = LongRange(u, m) BY DEF RangeFrom
<1> HIDE DEF m
<1> QED BY <1>6, <1>7 DEF IsRun

LEMMA FirstRangeIs ==
  ASSUME NEW free, NEW n \in Nat, free \subseteq 0 .. n - 1, free # {}
  PROVE  \E a, m \in free : /\ FirstRange(free) = LongRange(a, m) /\ IsRun(free, a, m)
                            /\ \A w \in free : a <= w
<1> DEFINE a == CHOOSE u \in free : \A w \in free : u <= w
<1>1. free \subseteq Nat BY SMT
<1>2. a \in free /\ \A w \in free : a <= w BY <1>1, LeastNumber
<1>3. FirstRange(free) = RangeFrom(free, a) BY DEF FirstRange
<1> HIDE DEF a
<1>4. PICK m \in free : RangeFrom(free, a) = LongRange(a, m) /\ IsRun(free, a, m)
  BY <1>2, RangeFromIs
<1> QED BY <1>2, <1>3, <1>4

Starts(free) == {u \in free : u - 1 \notin free}

LEMMA CapacityIs ==
  ASSUME NEW free, NEW n \in Nat, free \subseteq 0 .. n - 1
  PROVE  /\ IsFiniteSet(free) /\ Cardinality(free) \in Nat
         /\ IsFiniteSet(Starts(free)) /\ Cardinality(Starts(free)) \in Nat
         /\ Capacity(free) \in Int
         /\ Capacity(free) = Cardinality(free) * UnitSize - Cardinality(Starts(free)) * HEADER_SIZE
<1>1. 0 \in Int /\ n - 1 \in Int OBVIOUS
<1>2. IsFiniteSet(0 .. n - 1) BY <1>1, FS_Interval
<1>3. IsFiniteSet(free) BY <1>2, FS_Subset
<1>4. Starts(free) \in SUBSET free BY DEF Starts
<1>5. IsFiniteSet(Starts(free)) BY <1>3, <1>4, FS_Subset
<1>6. Cardinality(free) \in Nat /\ Cardinality(Starts(free)) \in Nat BY <1>3, <1>5, FS_CardinalityType
<1>7. Capacity(free) = Cardinality(free) * UnitSize - Cardinality(Starts(free)) * HEADER_SIZE
  BY DEF Capacity, Starts
<1> DEFINE a == Cardinality(free)
           b == Cardinality(Starts(free))
<1>8. a \in Nat /\ b \in Nat /\ Capacity(free) = a * UnitSize - b * HEADER_SIZE BY <1>6, <1>7
<1> HIDE DEF a, b
<1>9. Capacity(free) \in Int BY <1>8, StoreAssumption, SMT DEF HEADER_SIZE
<1> QED BY <1>3, <1>5, <1>6, <1>7, <1>9

LEMMA CapacityOfNone == Capacity({}) = 0
<1>1. Starts({}) = {} BY DEF Starts
<1>2. Cardinality({}) = 0 BY FS_EmptySet
<1>3. {} \subseteq 0 .. 0 - 1 /\ 0 \in Nat OBVIOUS
<1>4. Capacity({}) = Cardinality({}) * UnitSize - Cardinality(Starts({})) * HEADER_SIZE
  BY <1>3, CapacityIs
<1> QED BY <1>1, <1>2, <1>4, StoreAssumption DEF HEADER_SIZE

(* What the free ranges can hold falls by what a run has, or, where the    *)
(* run leaves the beginning of its range behind, by one header more.       *)
LEMMA CapacityTaken ==
  ASSUME NEW free, NEW n \in Nat, free \subseteq 0 .. n - 1, NEW a, NEW m, IsRun(free, a, m)
  PROVE  /\ a \in Nat /\ m \in Nat /\ m - a + 1 \in Nat \ {0}
         /\ Capacity(free) \in Int /\ Capacity(free \ (a .. m)) \in Int
         /\ Capacity(free \ (a .. m)) >= Capacity(free) - DataSize(m - a + 1) - HEADER_SIZE
         /\ a - 1 \notin free => Capacity(free \ (a .. m)) >= Capacity(free) - DataSize(m - a + 1)
<1> DEFINE rest == free \ (a .. m)
           w == m - a + 1
<1>1. /\ a \in Nat /\ m \in Nat /\ a <= m /\ a .. m \subseteq free /\ m + 1 \notin free
      /\ a \in free /\ free \subseteq Nat
  BY DEF IsRun
<1>2. rest \subseteq 0 .. n - 1 /\ w \in Nat \ {0} BY <1>1
<1>3. Starts(rest) = Starts(free) \ {a}
  <2>1. ASSUME NEW u \in Starts(rest) PROVE u \in Starts(free) \ {a}
    <3>1. u \in free /\ u \notin a .. m /\ u \in Nat /\ ~(u - 1 \in free /\ u - 1 \notin a .. m)
      BY <1>1, <2>1 DEF Starts
    <3>2. u - 1 \in a .. m => u = m + 1 BY <1>1, <3>1
    <3>3. u # a BY <1>1, <3>1
    <3> QED BY <1>1, <3>1, <3>2, <3>3 DEF Starts
  <2>2. ASSUME NEW u \in Starts(free), u # a PROVE u \in Starts(rest)
    <3>1. u \in free /\ u \in Nat /\ u - 1 \notin free BY <1>1 DEF Starts
    <3>2. u \notin a .. m
      <4> SUFFICES ASSUME u \in a .. m PROVE FALSE OBVIOUS
      <4>1. u - 1 \in a .. m BY <1>1, <2>2, <3>1
      <4> QED BY <1>1, <3>1, <4>1
    <3> QED BY <3>1, <3>2 DEF Starts
  <2> QED BY <2>1, <2>2
<1>4. /\ IsFiniteSet(free) /\ IsFiniteSet(Starts(free))
      /\ Cardinality(free) \in Nat /\ Cardinality(Starts(free)) \in Nat
      /\ Capacity(free) \in Int
      /\ Capacity(free) = Cardinality(free) * UnitSize - Cardinality(Starts(free)) * HEADER_SIZE
  BY CapacityIs
<1>5. /\ Cardinality(rest) \in Nat /\ Cardinality(Starts(rest)) \in Nat
      /\ Capacity(rest) \in Int
      /\ Capacity(rest) = Cardinality(rest) * UnitSize - Cardinality(Starts(rest)) * HEADER_SIZE
  BY <1>2, CapacityIs
<1>6. Cardinality(rest) = Cardinality(free) - w
  <2>1. free \cap (a .. m) = a .. m BY <1>1
  <2>2. Cardinality(a .. m) = m - a + 1 BY <1>1, FS_Interval
  <2>3. Cardinality(rest) = Cardinality(free) - Cardinality(free \cap (a .. m)) BY <1>4, FS_Difference
  <2> QED BY <2>1, <2>2, <2>3
<1>7. Cardinality(Starts(rest)) =
        IF a \in Starts(free) THEN Cardinality(Starts(free)) - 1 ELSE Cardinality(Starts(free))
  BY <1>3, <1>4, FS_RemoveElement
<1>8. a \in Starts(free) <=> a - 1 \notin free BY <1>1 DEF Starts
<1> DEFINE C == Cardinality(free)
           D == Cardinality(rest)
           E == Cardinality(Starts(free))
           F == Cardinality(Starts(rest))
           K == Capacity(free)
           L == Capacity(rest)
<1>9. DataSize(w) = w * UnitSize - 10 /\ HEADER_SIZE = 10 BY DEF DataSize, HEADER_SIZE
<1>10. /\ C \in Nat /\ D \in Nat /\ E \in Nat /\ F \in Nat /\ K \in Int /\ L \in Int
       /\ K = C * UnitSize - E * 10 /\ L = D * UnitSize - F * 10 /\ D = C - w
       /\ F = (IF a - 1 \notin free THEN E - 1 ELSE E)
  BY <1>4, <1>5, <1>6, <1>7, <1>8, <1>9
<1> HIDE DEF C, D, E, F, K, L, w, rest
<1>11. D * UnitSize = C * UnitSize - w * UnitSize
  BY <1>2, <1>10, StoreAssumption, SMT
<1> DEFINE cu == C * UnitSize
           du == D * UnitSize
           wu == w * UnitSize
<1>12. cu \in Int /\ du \in Int /\ wu \in Int /\ du = cu - wu /\ K = cu - E * 10 /\ L = du - F * 10
       /\ DataSize(w) = wu - 10
  BY <1>2, <1>9, <1>10, <1>11, StoreAssumption, SMT
<1> HIDE DEF cu, du, wu
<1>13. L >= K - DataSize(w) - 10 /\ (a - 1 \notin free => L >= K - DataSize(w))
  BY <1>10, <1>12
<1> QED BY <1>1, <1>2, <1>9, <1>10, <1>13 DEF K, L, w, rest

-----------------------------------------------------------------------------
(* Objects stay where no unit of theirs is written, in a file that grows.  *)
Untouched(V, d, e, left) ==
  \A u \in V : \A x \in Holds(BlockList(d, u)) : e[x] = d[x] /\ x \notin left

LEMMA ObjectsStay ==
  ASSUME NEW U, NEW V, V \subseteq U, NEW d, NEW e, NEW n \in 0 .. MaxUnits, NEW m \in 0 .. MaxUnits,
         n <= m, NEW free, NEW left, Objects(U, d, n, free), Untouched(V, d, e, left)
  PROVE  Objects(V, e, m, left) /\ \A u \in V : BlockList(e, u) = BlockList(d, u)
<1>1. ASSUME NEW u \in V
      PROVE  /\ BlockList(e, u) = BlockList(d, u) /\ Chain(e, u, BlockList(d, u), m)
             /\ Holds(BlockList(d, u)) \cap left = {}
  <2>1. u \in U /\ Chain(d, u, BlockList(d, u), n) BY DEF Objects
  <2>2. \A x \in Holds(BlockList(d, u)) : e[x] = d[x] /\ x \notin left BY DEF Untouched
  <2>3. n \in Int /\ m \in Int BY StoreAssumption
  <2>4. Chain(e, u, BlockList(d, u), m) BY <2>1, <2>2, <2>3, ChainStays
  <2> QED BY <2>2, <2>4, ChainIsRead
<1>2. \A u, w \in U : u # w => Holds(BlockList(d, u)) \cap Holds(BlockList(d, w)) = {}
  BY DEF Objects
<1> QED BY <1>1, <1>2 DEF Objects

(* One object more.                                                        *)
LEMMA ObjectsMore ==
  ASSUME NEW V, NEW e, NEW m \in 0 .. MaxUnits, NEW free, Objects(V, e, m, free),
         NEW u, NEW c, Chain(e, u, c, m), Holds(c) \cap free = {}, u \notin V,
         \A w \in V : Holds(c) \cap Holds(BlockList(e, w)) = {}
  PROVE  Objects(V \cup {u}, e, m, free) /\ BlockList(e, u) = c
<1>1. BlockList(e, u) = c BY ChainIsRead
<1>2. /\ \A w \in V : Chain(e, w, BlockList(e, w), m) /\ Holds(BlockList(e, w)) \cap free = {}
      /\ \A v, w \in V : v # w => Holds(BlockList(e, v)) \cap Holds(BlockList(e, w)) = {}
  BY DEF Objects
<1>3. \A w \in V \cup {u} : Chain(e, w, BlockList(e, w), m) /\ Holds(BlockList(e, w)) \cap free = {}
  BY <1>1, <1>2
<1>4. \A v, w \in V \cup {u} : v # w => Holds(BlockList(e, v)) \cap Holds(BlockList(e, w)) = {}
  BY <1>1, <1>2
<1> QED BY <1>1, <1>3, <1>4 DEF Objects

(* What is known of a state: the free units lie in the file and an object  *)
(* holds the unit of its position.                                         *)
LEMMA TypesAre ==
  ASSUME StoreInv
  PROVE  /\ MaxUnits \in Nat /\ saved.numBlocks \in 1 .. MaxUnits /\ saved.available \subseteq Units
         /\ saved = [available |-> saved.available, numBlocks |-> saved.numBlocks]
         /\ saved.available \subseteq 0 .. saved.numBlocks - 1
         /\ Cells(disk) /\ handles \subseteq Units /\ opened \in BOOLEAN
         /\ available \subseteq Units /\ numBlocks \in 0 .. MaxUnits
         /\ opened => numBlocks = saved.numBlocks /\ available \subseteq 0 .. numBlocks - 1
         /\ call = NoCall \/ (InCall /\ opened)
         /\ ~InCall => Settled = handles
BY StoreAssumption DEF StoreInv, StoreTypes, TypeOK, Cells, Settled

LEMMA ObjectIs ==
  ASSUME StoreInv, NEW u \in Settled
  PROVE  /\ Chain(disk, u, BlockList(disk, u), saved.numBlocks)
         /\ Blocks(BlockList(disk, u), saved.numBlocks)
         /\ u \in Holds(BlockList(disk, u))
         /\ Holds(BlockList(disk, u)) \cap saved.available = {}
         /\ opened => Holds(BlockList(disk, u)) \cap available = {}
         /\ Holds(BlockList(disk, u)) \subseteq 0 .. saved.numBlocks - 1
         /\ Holds(BlockList(disk, u)) \subseteq Units
<1>1. /\ Chain(disk, u, BlockList(disk, u), saved.numBlocks)
      /\ Holds(BlockList(disk, u)) \cap (saved.available \cup (IF opened THEN available ELSE {})) = {}
  BY DEF StoreInv, ObjectsApart, Objects
<1> DEFINE c == BlockList(disk, u)
<1>2. Blocks(c, saved.numBlocks) /\ c # <<>> /\ c[1].pos = u BY <1>1 DEF Chain
<1> HIDE DEF c
<1>3. /\ Len(c) \in Nat /\ c \in Seq(BlockSet) /\ Holds(c) \subseteq 0 .. saved.numBlocks - 1
      /\ \A k \in 1 .. Len(c) : c[k].pos \in UnitsOf(c[k]) /\ UnitsOf(c[k]) \subseteq Holds(c)
  BY <1>2, BlocksAre
<1>4. 1 \in 1 .. Len(c) BY <1>2, <1>3
<1>5. u \in Holds(c) BY <1>2, <1>3, <1>4
<1>6. saved.numBlocks \in Int /\ saved.numBlocks <= MaxUnits /\ MaxUnits \in Int BY TypesAre
<1>7. Holds(c) \subseteq Units BY <1>3, <1>6 DEF Units
<1> QED BY <1>1, <1>2, <1>3, <1>5, <1>7 DEF c

(* The extension of the file before an allocation.                         *)
LEMMA BeginIs ==
  ASSUME NEW free, NEW file, NEW size \in Nat, NEW spare \in Nat, NEW next, EnoughRoom,
         numBlocks \in 1 .. MaxUnits, free \subseteq 0 .. numBlocks - 1,
         Begin(free, file, size, spare, next)
  PROVE  /\ numBlocks' \in 1 .. MaxUnits /\ numBlocks <= numBlocks'
         /\ available' = free \cup (numBlocks .. numBlocks' - 1) /\ available' # {}
         /\ available' \subseteq 0 .. numBlocks' - 1
         /\ Capacity(available') >= size + spare
         /\ call' = next
         /\ \/ saved' = [available |-> available', numBlocks |-> numBlocks']
            \/ saved' = file /\ numBlocks' = numBlocks /\ available' = free
<1>1. /\ numBlocks' = NumExtended(free, size) /\ numBlocks' <= MaxUnits
      /\ available' = Extended(free, size) /\ Capacity(available') >= size + spare
      /\ call' = next
      /\ saved' = IF Short(free, size)
                  THEN [available |-> available', numBlocks |-> numBlocks'] ELSE file
  BY DEF Begin
<1>2. numBlocks \in Nat /\ numBlocks >= 1 /\ ExtendUnits \in Nat /\ ExtendUnits >= 1 /\ MaxUnits \in Nat
  BY StoreAssumption
<1>3. CASE Short(free, size)
  <2>1. /\ numBlocks' = numBlocks + ExtendUnits
        /\ available' = free \cup (numBlocks .. numBlocks + ExtendUnits - 1)
    BY <1>1, <1>3 DEF NumExtended, Extended
  <2>2. numBlocks \in numBlocks .. numBlocks + ExtendUnits - 1 BY <1>2
  <2>3. numBlocks' \in 1 .. MaxUnits /\ numBlocks <= numBlocks' BY <1>1, <1>2, <2>1
  <2>4. available' \subseteq 0 .. numBlocks' - 1 BY <1>2, <2>1
  <2>5. available' = free \cup (numBlocks .. numBlocks' - 1) /\ available' # {}
    <3>0. numBlocks' - 1 = numBlocks + ExtendUnits - 1 BY <1>2, <2>1
    <3>1. numBlocks .. numBlocks' - 1 = numBlocks .. numBlocks + ExtendUnits - 1 BY <3>0, Zenon
    <3>2. available' = free \cup (numBlocks .. numBlocks' - 1) BY <2>1, <3>1, Zenon
    <3>3. numBlocks \in available' BY <2>1, <2>2, Zenon
    <3> QED BY <3>2, <3>3, Zenon
  <2>6. saved' = [available |-> available', numBlocks |-> numBlocks'] BY <1>1, <1>3
  <2> QED BY <1>1, <2>3, <2>4, <2>5, <2>6
<1>4. CASE ~Short(free, size)
  <2>1. numBlocks' = numBlocks /\ available' = free /\ free # {}
    BY <1>1, <1>4 DEF NumExtended, Extended, Short
  <2>2. numBlocks .. numBlocks' - 1 = {} BY <1>2, <2>1
  <2> QED BY <1>1, <1>2, <1>4, <2>1, <2>2
<1> QED BY <1>3, <1>4

-----------------------------------------------------------------------------
(* A fragment: a block at a free unit, of the units its bytes need, which  *)
(* either takes its range to the end or takes what is left of the object.  *)
Fragment(b) ==
  /\ b \in BlockSet /\ b.units = ToBlockUnits(b.used)
  /\ UnitsOf(b) \subseteq available
  /\ b.used <= call.remain
  /\ \/ /\ b.used = DataSize(b.units) /\ b.used < call.remain
        /\ IsRun(available, b.pos, b.pos + b.units - 1)
     \/ b.used = call.remain /\ DataSize(b.units) - b.used < UnitSize
  /\ IF call.kind = "realloc" /\ call.blocks = <<>> THEN b.pos = call.fpos
     ELSE \A w \in available : b.pos <= w
  /\ available' = available \ UnitsOf(b)
  /\ call' = [call EXCEPT !.remain = @ - b.used, !.blocks = Append(@, b)]

(* The list is never empty here, so that the range is one it has.          *)
LEMMA TakesFragment ==
  ASSUME StoreInv, TakeFragment
  PROVE  \E b : Fragment(b)
<1>1. InCall /\ (call.remain > 0 \/ call.blocks = <<>>) BY DEF TakeFragment, InCall
<1>2. opened /\ available \subseteq 0 .. numBlocks - 1 /\ numBlocks \in Nat /\ MaxUnits \in Nat
      /\ available \subseteq Units
  BY <1>1, TypesAre DEF InCall, NoCall
<1>3. call.remain \in Nat /\ CallRoom /\ CallBlocks BY <1>1 DEF StoreInv, CallFits, CallKinds
<1>4. available # {}
  <2> SUFFICES ASSUME available = {} PROVE FALSE OBVIOUS
  <2>1. call.blocks # <<>> BY <1>3 DEF CallRoom
  <2>2. call.remain > 0 BY <1>1, <2>1
  <2>3. Capacity(available) >= call.remain BY <1>3, <2>1, <2>2 DEF CallRoom
  <2>4. Capacity(available) = 0 BY CapacityOfNone
  <2> QED BY <1>3, <2>2, <2>3, <2>4
<1> DEFINE first == ~(call.kind = "realloc" /\ call.blocks = <<>>)
           range == IF call.kind = "realloc" /\ call.blocks = <<>>
                    THEN RangeFrom(available, call.fpos) ELSE FirstRange(available)
           all == call.remain > DataSize(Width(range))
           units == IF all THEN Width(range) ELSE NumAllocationBlocks(call.remain)
           used == IF all THEN DataSize(units) ELSE call.remain
           b == [pos |-> range.min, units |-> units, used |-> used]
<1>5. /\ available' = available \ UnitsOf(b)
      /\ call' = [call EXCEPT !.remain = @ - used, !.blocks = Append(@, b)]
  BY <1>4 DEF TakeFragment
<1>6. PICK a, m \in available : /\ range = LongRange(a, m) /\ IsRun(available, a, m)
                               /\ IF first THEN \A w \in available : a <= w ELSE a = call.fpos
  <2>1. CASE first
    <3>1. range = FirstRange(available) BY <2>1
    <3> QED BY <1>2, <1>4, <2>1, <3>1, FirstRangeIs
  <2>2. CASE ~first
    <3>1. range = RangeFrom(available, call.fpos) BY <2>2
    <3>2. call.fpos \in available BY <1>3, <2>2 DEF CallBlocks
    <3> QED BY <1>2, <2>2, <3>1, <3>2, RangeFromIs
  <2> QED BY <2>1, <2>2
<1>7. a \in Nat /\ m \in Nat /\ a <= m /\ a .. m \subseteq available BY <1>2, <1>6 DEF IsRun
<1>8. range.min = a /\ Width(range) = m - a + 1 BY <1>6, <1>7 DEF LongRange, Width
<1> DEFINE w == m - a + 1
<1>9. w \in Nat \ {0} /\ a + w - 1 = m BY <1>7
<1>10. all <=> call.remain > DataSize(w) BY <1>8
<1> HIDE DEF w, range
<1>11. CASE all
  <2>1. units = w /\ used = DataSize(w) BY <1>8, <1>11 DEF w
  <2>2. used \in Nat /\ used < call.remain /\ ToBlockUnits(used) = w
    BY <1>3, <1>9, <1>10, <1>11, <2>1, DataSizeIs, WholeRangeIsDerived
  <2>3. b = [pos |-> a, units |-> w, used |-> used] BY <1>8, <2>1
  <2> HIDE DEF b, used, units, all
  <2>4. b \in BlockSet BY <1>2, <1>6, <1>9, <2>2, <2>3 DEF BlockSet
  <2>5. b.pos = a /\ b.units = w /\ b.used = used BY <2>3
  <2>6. UnitsOf(b) = a .. m BY <1>9, <2>5 DEF UnitsOf
  <2>7. b.used <= call.remain BY <1>3, <2>2, <2>5
  <2>8. IsRun(available, b.pos, b.pos + b.units - 1) BY <1>6, <1>9, <2>5
  <2> HIDE DEF first
  <2>9. Fragment(b) BY <1>5, <1>6, <1>7, <2>1, <2>2, <2>4, <2>5, <2>6, <2>7, <2>8 DEF Fragment, first
  <2> QED BY <2>9
<1>12. CASE ~all
  <2>1. units = ToBlockUnits(call.remain) /\ used = call.remain
    BY <1>3, <1>12, UnitsTakenAreUnitsDerived
  <2>2. call.remain <= DataSize(w) BY <1>3, <1>9, <1>10, <1>12, DataSizeIs
  <2>3. /\ units \in Nat \ {0} /\ units <= w /\ DataSize(units) - used < UnitSize
    BY <1>3, <1>9, <2>1, <2>2, FewerUnits, UnitsAreEnough
  <2>4. b = [pos |-> a, units |-> units, used |-> used] BY <1>8
  <2> HIDE DEF b, used, units, all
  <2>5. b \in BlockSet BY <1>2, <1>3, <1>6, <2>1, <2>3, <2>4 DEF BlockSet
  <2>6. b.pos = a /\ b.units = units /\ b.used = used BY <2>4
  <2>7. UnitsOf(b) \subseteq available
    <3>1. a .. a + units - 1 \subseteq a .. m BY <1>7, <1>9, <2>3
    <3> QED BY <1>7, <2>6, <3>1 DEF UnitsOf
  <2>8. b.used <= call.remain BY <1>3, <2>1, <2>6
  <2> HIDE DEF first
  <2>9. Fragment(b) BY <1>5, <1>6, <2>1, <2>3, <2>5, <2>6, <2>7, <2>8 DEF Fragment, first
  <2> QED BY <2>9
<1> QED BY <1>11, <1>12

-----------------------------------------------------------------------------
(* What each action does to the objects, and that it keeps the invariant.  *)
Undisturbed(V) ==
  \A u \in V : /\ BlockList(disk', u) = BlockList(disk, u)
              /\ \A x \in Holds(BlockList(disk, u)) : disk'[x] = disk[x]

Began(free, size) ==
  /\ Settled = handles /\ ~InCall /\ opened /\ handles' = handles
  /\ InCall' /\ opened' /\ call'.remain = size /\ call'.blocks = <<>>
  /\ numBlocks \in Nat /\ numBlocks' \in Nat /\ numBlocks <= numBlocks'
  /\ available' = free \cup (numBlocks .. numBlocks' - 1)

LEMMA NoBlocks ==
  /\ \A n : Blocks(<<>>, n)
  /\ Holds(<<>>) = {}
BY DEF Blocks, Derived, Apart, Holds

LEMMA IdleIs ==
  ASSUME StoreInv, Idle
  PROVE  /\ ~InCall /\ Settled = handles /\ call = NoCall /\ opened
         /\ numBlocks = saved.numBlocks /\ numBlocks \in 1 .. MaxUnits
         /\ available \subseteq 0 .. numBlocks - 1
         /\ Objects(handles, disk, numBlocks, saved.available \cup available)
<1>1. ~InCall /\ call = NoCall /\ opened BY DEF Idle, InCall, NoCall
<1>2. Settled = handles /\ numBlocks = saved.numBlocks /\ available \subseteq 0 .. numBlocks - 1
      /\ saved.numBlocks \in 1 .. MaxUnits
  BY <1>1, TypesAre
<1> QED BY <1>1, <1>2 DEF StoreInv, ObjectsApart

LEMMA AllocKeeps ==
  ASSUME StoreInv, EnoughRoom, NEW size \in Sizes, Alloc(size)
  PROVE  StoreInv' /\ Undisturbed(handles) /\ Settled' = handles /\ Began(available, size)
<1>1. /\ Idle /\ opened' = opened /\ disk' = disk /\ handles' = handles
      /\ Begin(available, saved, size, 0,
           [kind |-> "alloc", fpos |-> -1, size |-> size, val |-> Zero,
            remain |-> size, blocks |-> <<>>, old |-> [size |-> size, val |-> Zero]])
  BY DEF Alloc
<1>2. /\ ~InCall /\ Settled = handles /\ call = NoCall /\ opened
      /\ numBlocks = saved.numBlocks /\ numBlocks \in 1 .. MaxUnits
      /\ available \subseteq 0 .. numBlocks - 1
      /\ Objects(handles, disk, numBlocks, saved.available \cup available)
  BY <1>1, IdleIs
<1>3. size \in Nat /\ size + 0 = size /\ 0 \in Nat /\ Zero \in Values BY StoreAssumption
<1>4. /\ numBlocks' \in 1 .. MaxUnits /\ numBlocks <= numBlocks'
      /\ available' = available \cup (numBlocks .. numBlocks' - 1) /\ available' # {}
      /\ available' \subseteq 0 .. numBlocks' - 1
      /\ Capacity(available') >= size + 0
      /\ call' = [kind |-> "alloc", fpos |-> -1, size |-> size, val |-> Zero,
            remain |-> size, blocks |-> <<>>, old |-> [size |-> size, val |-> Zero]]
      /\ \/ saved' = [available |-> available', numBlocks |-> numBlocks']
         \/ saved' = saved /\ numBlocks' = numBlocks /\ available' = available
  BY <1>1, <1>2, <1>3, BeginIs
<1>5. /\ call'.kind = "alloc" /\ call'.fpos = -1 /\ call'.size = size /\ call'.val = Zero
      /\ call'.remain = size /\ call'.blocks = <<>>
  BY <1>4
<1>6. InCall' BY <1>5 DEF InCall
<1>7. MaxUnits \in Nat /\ handles \subseteq Units /\ Cells(disk) /\ saved.available \subseteq Units
      /\ saved.available \subseteq 0 .. saved.numBlocks - 1
      /\ saved = [available |-> saved.available, numBlocks |-> saved.numBlocks]
  BY TypesAre
<1>8. -1 \notin handles BY <1>7 DEF Units
<1>9. Settled' = handles BY <1>1, <1>5, <1>6, <1>8 DEF Settled
<1>10. available' \subseteq Units BY <1>4, <1>7 DEF Units
<1>11. /\ saved'.numBlocks = numBlocks' /\ saved'.available \subseteq saved.available \cup available'
       /\ saved'.available \subseteq 0 .. numBlocks' - 1
       /\ saved' \in [available : SUBSET Units, numBlocks : 1 .. MaxUnits]
  <2>1. CASE saved' = [available |-> available', numBlocks |-> numBlocks']
    BY <1>4, <1>10, <2>1
  <2>2. CASE saved' = saved /\ numBlocks' = numBlocks /\ available' = available
    BY <1>2, <1>4, <1>7, <2>2
  <2> QED BY <1>4, <2>1, <2>2
<1>12. StoreTypes'
  <2>1. TypeOK' BY <1>1, <1>2, <1>3, <1>4, <1>5, <1>7, <1>10 DEF TypeOK, Cells
  <2> QED BY <1>1, <1>2, <1>4, <1>6, <1>11, <2>1 DEF StoreTypes
<1> DEFINE left == saved'.available \cup available'
<1>13. Objects(handles, disk, numBlocks', left) /\ Undisturbed(handles)
  <2>1. ASSUME NEW u \in handles, NEW x \in Holds(BlockList(disk, u)) PROVE x \notin left
    <3>1. x \in 0 .. saved.numBlocks - 1 /\ x \notin saved.available /\ x \notin available
      BY <1>2, ObjectIs
    <3>2. x \notin numBlocks .. numBlocks' - 1 BY <1>2, <3>1
    <3> QED BY <1>4, <1>11, <3>1, <3>2
  <2>2. numBlocks \in 0 .. MaxUnits /\ numBlocks' \in 0 .. MaxUnits BY <1>2, <1>4
  <2> HIDE DEF left
  <2>3. Untouched(handles, disk, disk, left) BY <2>1 DEF Untouched
  <2>4. Objects(handles, disk, numBlocks', left) BY <1>2, <1>4, <2>2, <2>3, ObjectsStay
  <2> QED BY <1>1, <2>4 DEF Undisturbed
<1>14. ObjectsApart' BY <1>1, <1>2, <1>9, <1>11, <1>13 DEF ObjectsApart
<1>15. CallFits'
  <2>1. CallKinds' BY <1>3, <1>4, <1>5 DEF CallKinds
  <2>2. CallBlocks' BY <1>5, NoBlocks DEF CallBlocks
  <2>3. CallRoom' BY <1>3, <1>4, <1>5, RoomOfNone DEF CallRoom
  <2> QED BY <2>1, <2>2, <2>3 DEF CallFits
<1>16. Began(available, size)
  <2>1. numBlocks \in Nat /\ numBlocks' \in Nat BY <1>2, <1>4, <1>7
  <2> QED BY <1>1, <1>2, <1>4, <1>5, <1>6, <2>1 DEF Began
<1> QED BY <1>9, <1>12, <1>13, <1>14, <1>15, <1>16 DEF StoreInv

LEMMA FreedIs ==
  ASSUME NEW free, NEW c
  PROVE  Freed(free, c) = free \cup Holds(c)
BY DEF Freed, Holds

(* The other objects have no unit of one object.                           *)
LEMMA OthersApart ==
  ASSUME StoreInv, NEW u \in Settled, NEW w \in Settled, u # w
  PROVE  Holds(BlockList(disk, u)) \cap Holds(BlockList(disk, w)) = {}
BY DEF StoreInv, ObjectsApart, Objects

LEMMA BeginRewriteKeeps ==
  ASSUME StoreInv, EnoughRoom, NEW u, NEW size \in Sizes, NEW val \in Values,
         BeginRewrite(u, size, val)
  PROVE  /\ StoreInv' /\ Undisturbed(handles \ {u}) /\ Settled' = handles \ {u} /\ u \in handles
         /\ Began(available \cup Holds(BlockList(disk, u)), size)
<1> DEFINE c == BlockList(disk, u)
           free == available \cup Holds(c)
           file == [available |-> free, numBlocks |-> numBlocks]
           next == [kind |-> "realloc", fpos |-> u, size |-> size, val |-> val,
                    remain |-> size, blocks |-> <<>>, old |-> ObjectAt(disk, u)]
<1>1. /\ Idle /\ u \in handles /\ opened' = opened /\ handles' = handles
      /\ disk' = HeadersReset(disk, c)
      /\ Begin(free, file, size, HEADER_SIZE, next)
  BY FreedIs DEF BeginRewrite
<1>2. /\ ~InCall /\ Settled = handles /\ call = NoCall /\ opened
      /\ numBlocks = saved.numBlocks /\ numBlocks \in 1 .. MaxUnits
      /\ available \subseteq 0 .. numBlocks - 1
      /\ Objects(handles, disk, numBlocks, saved.available \cup available)
  BY <1>1, IdleIs
<1>3. /\ u \in Holds(c) /\ Blocks(c, numBlocks) /\ Holds(c) \subseteq 0 .. numBlocks - 1
      /\ Holds(c) \subseteq Units
  BY <1>1, <1>2, ObjectIs
<1> HIDE DEF c
<1>4. size \in Nat /\ HEADER_SIZE \in Nat /\ free \subseteq 0 .. numBlocks - 1
  BY <1>2, <1>3, StoreAssumption DEF HEADER_SIZE
<1> HIDE DEF free, file, next
<1>5. /\ numBlocks' \in 1 .. MaxUnits /\ numBlocks <= numBlocks'
      /\ available' = free \cup (numBlocks .. numBlocks' - 1) /\ available' # {}
      /\ available' \subseteq 0 .. numBlocks' - 1
      /\ Capacity(available') >= size + HEADER_SIZE
      /\ call' = next
      /\ \/ saved' = [available |-> available', numBlocks |-> numBlocks']
         \/ saved' = file /\ numBlocks' = numBlocks /\ available' = free
  BY <1>1, <1>2, <1>4, BeginIs
<1>6. /\ call'.kind = "realloc" /\ call'.fpos = u /\ call'.size = size /\ call'.val = val
      /\ call'.remain = size /\ call'.blocks = <<>>
      /\ call' = [kind |-> call'.kind, fpos |-> call'.fpos, size |-> call'.size, val |-> call'.val,
                  remain |-> call'.remain, blocks |-> call'.blocks, old |-> call'.old]
  BY <1>5 DEF next
<1>7. InCall' BY <1>6 DEF InCall
<1>8. MaxUnits \in Nat /\ handles \subseteq Units /\ Cells(disk)
  BY TypesAre
<1>9. Settled' = handles \ {u} BY <1>1, <1>6, <1>7 DEF Settled
<1>10. available' \subseteq Units BY <1>5, <1>8 DEF Units
<1>11. /\ saved'.numBlocks = numBlocks' /\ saved'.available \subseteq available'
       /\ saved' \in [available : SUBSET Units, numBlocks : 1 .. MaxUnits]
  <2>1. CASE saved' = [available |-> available', numBlocks |-> numBlocks']
    BY <1>5, <1>10, <2>1
  <2>2. CASE saved' = file /\ numBlocks' = numBlocks /\ available' = free
    BY <1>5, <1>10, <2>2 DEF file
  <2> QED BY <1>5, <2>1, <2>2
<1>12. StoreTypes'
  <2>1. Cells(disk') BY <1>1, <1>3, <1>8, HeadersResetIs
  <2>2. TypeOK' BY <1>1, <1>2, <1>4, <1>5, <1>6, <1>8, <1>10, <2>1 DEF TypeOK, Cells
  <2>3. saved'.available \subseteq 0 .. saved'.numBlocks - 1 BY <1>5, <1>11
  <2> QED BY <1>1, <1>2, <1>5, <1>7, <1>11, <2>2, <2>3 DEF StoreTypes
<1> DEFINE left == saved'.available \cup available'
           V == handles \ {u}
<1>13. Objects(V, disk', numBlocks', left) /\ Undisturbed(V)
  <2>1. ASSUME NEW w \in V, NEW x \in Holds(BlockList(disk, w)) PROVE disk'[x] = disk[x] /\ x \notin left
    <3>1. x \in 0 .. numBlocks - 1 /\ x \notin available /\ x \in Units
      BY <1>2, ObjectIs
    <3>2. x \notin numBlocks .. numBlocks' - 1 BY <1>2, <3>1
    <3>3. x \notin Holds(c) BY <1>1, <1>2, OthersApart DEF c
    <3>4. disk'[x] = disk[x] BY <1>1, <1>3, <3>1, <3>3, HeadersResetIs
    <3> QED BY <1>5, <1>11, <3>1, <3>2, <3>3, <3>4 DEF free
  <2>2. numBlocks \in 0 .. MaxUnits /\ numBlocks' \in 0 .. MaxUnits BY <1>2, <1>5
  <2>3. V \subseteq handles OBVIOUS
  <2> HIDE DEF left, V
  <2>4. Untouched(V, disk, disk', left) BY <2>1 DEF Untouched
  <2>5. /\ Objects(V, disk', numBlocks', left)
        /\ \A w \in V : BlockList(disk', w) = BlockList(disk, w)
    BY <1>2, <1>5, <2>2, <2>3, <2>4, ObjectsStay
  <2> QED BY <2>1, <2>5 DEF Undisturbed
<1>14. ObjectsApart' BY <1>1, <1>2, <1>9, <1>11, <1>13 DEF ObjectsApart
<1>15. CallFits'
  <2>1. CallKinds' BY <1>1, <1>4, <1>6 DEF CallKinds
  <2>2. CallBlocks' BY <1>3, <1>5, <1>6, NoBlocks DEF CallBlocks, free
  <2>3. CallRoom' BY <1>4, <1>5, <1>6, RoomOfNone DEF CallRoom
  <2> QED BY <2>1, <2>2, <2>3 DEF CallFits
<1>16. Began(free, size)
  <2>1. numBlocks \in Nat /\ numBlocks' \in Nat BY <1>2, <1>5, <1>8
  <2> QED BY <1>1, <1>2, <1>5, <1>6, <1>7, <2>1 DEF Began
<1> QED BY <1>1, <1>9, <1>12, <1>13, <1>14, <1>15, <1>16 DEF StoreInv, free, c

(* One block more, of free units.                                          *)
LEMMA BlocksAppend ==
  ASSUME NEW c, NEW n, Blocks(c, n), NEW b \in BlockSet, b.units = ToBlockUnits(b.used),
         UnitsOf(b) \subseteq 0 .. n - 1, Holds(c) \cap UnitsOf(b) = {}
  PROVE  Blocks(Append(c, b), n) /\ Holds(Append(c, b)) = Holds(c) \cup UnitsOf(b)
<1>1. /\ c \in Seq(BlockSet) /\ Len(c) \in Nat /\ DOMAIN c = 1 .. Len(c)
      /\ \A k \in 1 .. Len(c) : c[k].units = ToBlockUnits(c[k].used) /\ UnitsOf(c[k]) \subseteq Holds(c)
      /\ Holds(c) \subseteq 0 .. n - 1
  BY BlocksAre
<1> DEFINE s == Append(c, b)
<1>2. /\ s \in Seq(BlockSet) /\ Len(s) = Len(c) + 1 /\ DOMAIN s = 1 .. Len(c) + 1
      /\ s[Len(c) + 1] = b /\ \A k \in 1 .. Len(c) : s[k] = c[k]
  BY <1>1
<1> HIDE DEF s
<1>3. \A k \in DOMAIN s : (k \in 1 .. Len(c) /\ s[k] = c[k]) \/ (k = Len(c) + 1 /\ s[k] = b)
  BY <1>1, <1>2
<1>4. Derived(s) BY <1>1, <1>3 DEF Derived
<1>5. Apart(s)
  <2>1. \A j, k \in 1 .. Len(c) : j # k => UnitsOf(c[j]) \cap UnitsOf(c[k]) = {}
    BY <1>1 DEF Blocks, Apart
  <2>2. \A k \in 1 .. Len(c) : UnitsOf(c[k]) \cap UnitsOf(b) = {} BY <1>1
  <2> QED BY <1>3, <2>1, <2>2 DEF Apart
<1>6. Holds(s) = Holds(c) \cup UnitsOf(b)
  <2>1. \A k \in DOMAIN s : UnitsOf(s[k]) \subseteq Holds(c) \cup UnitsOf(b) BY <1>1, <1>3
  <2>2. \A k \in 1 .. Len(c) : k \in DOMAIN s /\ UnitsOf(s[k]) = UnitsOf(c[k]) BY <1>1, <1>2
  <2>3. Len(c) + 1 \in DOMAIN s BY <1>1, <1>2
  <2> QED BY <1>1, <1>2, <2>1, <2>2, <2>3 DEF Holds
<1> QED BY <1>1, <1>2, <1>4, <1>5, <1>6 DEF Blocks, s

(* The part of TakeFragment outside the call.                              *)
LEMMA TakeFragmentKeeps ==
  ASSUME StoreInv, TakeFragment, NEW b, Fragment(b)
  PROVE  /\ StoreInv' /\ Settled' = Settled /\ InCall /\ InCall'
         /\ call'.kind = call.kind /\ call'.fpos = call.fpos /\ call'.size = call.size
         /\ call'.old = call.old
         /\ call'.remain = call.remain - b.used /\ call'.blocks = Append(call.blocks, b)
         /\ call.blocks \in Seq(BlockSet) /\ b \in BlockSet
         /\ Holds(call'.blocks) = Holds(call.blocks) \cup UnitsOf(b)
<1>1. /\ InCall /\ opened' = opened /\ numBlocks' = numBlocks /\ saved' = saved /\ disk' = disk
      /\ handles' = handles /\ (call.remain > 0 \/ call.blocks = <<>>)
  BY DEF TakeFragment, InCall
<1>2. /\ b \in BlockSet /\ b.units = ToBlockUnits(b.used) /\ UnitsOf(b) \subseteq available
      /\ b.used <= call.remain /\ available' = available \ UnitsOf(b)
      /\ call' = [call EXCEPT !.remain = @ - b.used, !.blocks = Append(@, b)]
      /\ IF call.kind = "realloc" /\ call.blocks = <<>> THEN b.pos = call.fpos
         ELSE \A w \in available : b.pos <= w
  BY DEF Fragment
<1>3. /\ opened /\ MaxUnits \in Nat /\ Cells(disk) /\ handles \subseteq Units
      /\ available \subseteq Units /\ numBlocks \in 0 .. MaxUnits /\ numBlocks = saved.numBlocks
      /\ available \subseteq 0 .. numBlocks - 1
  BY <1>1, TypesAre DEF InCall, NoCall
<1>4. CallKinds /\ CallBlocks /\ CallRoom BY <1>1 DEF StoreInv, CallFits
<1>5. /\ call = [kind |-> call.kind, fpos |-> call.fpos, size |-> call.size, val |-> call.val,
                 remain |-> call.remain, blocks |-> call.blocks, old |-> call.old]
      /\ call.size \in Sizes /\ call.remain \in Nat /\ call.val \in Values /\ call.size \in Nat
  BY <1>4, StoreAssumption DEF CallKinds
<1>6. call' = [kind |-> call.kind, fpos |-> call.fpos, size |-> call.size, val |-> call.val,
               remain |-> call.remain - b.used, blocks |-> Append(call.blocks, b), old |-> call.old]
  <2>1. \A c, k, f, z, v, r, l, o, x :
          c = [kind |-> k, fpos |-> f, size |-> z, val |-> v, remain |-> r, blocks |-> l, old |-> o]
          => /\ [c EXCEPT !.remain = x]
                = [kind |-> k, fpos |-> f, size |-> z, val |-> v, remain |-> x, blocks |-> l, old |-> o]
             /\ [c EXCEPT !.blocks = x]
                = [kind |-> k, fpos |-> f, size |-> z, val |-> v, remain |-> r, blocks |-> x, old |-> o]
    OBVIOUS
  <2>2. \A c, x, y : [c EXCEPT !.remain = x, !.blocks = y] = [[c EXCEPT !.remain = x] EXCEPT !.blocks = y]
    OBVIOUS
  <2> DEFINE x == call.remain - b.used
             y == Append(call.blocks, b)
  <2>3. call' = [call EXCEPT !.remain = x, !.blocks = y] BY <1>2
  <2> HIDE DEF x, y
  <2> DEFINE mid == [call EXCEPT !.remain = x]
  <2>4. call' = [mid EXCEPT !.blocks = y] BY <2>2, <2>3
  <2>5. mid =
          [kind |-> call.kind, fpos |-> call.fpos, size |-> call.size, val |-> call.val,
           remain |-> x, blocks |-> call.blocks, old |-> call.old]
    BY <1>5, <2>1
  <2> HIDE DEF mid
  <2>6. call' = [kind |-> call.kind, fpos |-> call.fpos, size |-> call.size, val |-> call.val,
                 remain |-> x, blocks |-> y, old |-> call.old]
    BY <2>1, <2>4, <2>5
  <2> QED BY <2>6 DEF x, y
<1>7. /\ call'.kind = call.kind /\ call'.fpos = call.fpos /\ call'.size = call.size
      /\ call'.val = call.val /\ call'.old = call.old
      /\ call'.remain = call.remain - b.used /\ call'.blocks = Append(call.blocks, b)
  BY <1>6
<1>8. InCall' BY <1>1, <1>7 DEF InCall
<1>9. Settled' = Settled BY <1>1, <1>7, <1>8 DEF Settled
<1>10. b.used \in Nat /\ b.units \in Nat \ {0} /\ b.pos \in UnitsOf(b) /\ b.pos \in Nat
       /\ call'.remain \in Nat
  BY <1>2, <1>5, <1>7, BlockIs
<1>11. /\ Blocks(call.blocks, numBlocks) /\ Holds(call.blocks) \cap available = {}
       /\ call.blocks \in Seq(BlockSet) /\ Len(call.blocks) \in Nat
  BY <1>4, BlocksAre DEF CallBlocks
<1>12. Blocks(call'.blocks, numBlocks) /\ Holds(call'.blocks) = Holds(call.blocks) \cup UnitsOf(b)
  <2>1. UnitsOf(b) \subseteq 0 .. numBlocks - 1 BY <1>2, <1>3
  <2>2. Holds(call.blocks) \cap UnitsOf(b) = {} BY <1>2, <1>11
  <2> QED BY <1>2, <1>7, <1>11, <2>1, <2>2, BlocksAppend
<1>13. StoreTypes'
  <2>1. StoreTypes /\ TypeOK BY DEF StoreInv, StoreTypes
  <2>2. available' \subseteq available BY <1>2
  <2>3. TypeOK' BY <1>1, <1>3, <1>5, <1>7, <1>10, <2>2 DEF TypeOK, Cells
  <2>4. available' \subseteq 0 .. numBlocks' - 1 BY <1>1, <1>3, <2>2
  <2> QED BY <1>1, <1>3, <1>8, <2>1, <2>3, <2>4 DEF StoreTypes
<1>14. ObjectsApart'
  <2>1. Objects(Settled, disk, numBlocks, saved.available \cup available)
    BY <1>3 DEF StoreInv, ObjectsApart
  <2>2. Objects(Settled, disk, numBlocks, saved.available \cup available')
    BY <1>2, <2>1 DEF Objects
  <2> QED BY <1>1, <1>3, <1>9, <2>2 DEF ObjectsApart
<1>15. CallKinds' BY <1>1, <1>4, <1>5, <1>6, <1>7, <1>10 DEF CallKinds
<1>16. CallBlocks'
  <2>1. Holds(call'.blocks) \cap available' = {} BY <1>2, <1>11, <1>12
  <2>2. ASSUME NEW u \in Settled PROVE Holds(call'.blocks) \cap Holds(BlockList(disk, u)) = {}
    <3>1. Holds(call.blocks) \cap Holds(BlockList(disk, u)) = {} BY <1>4 DEF CallBlocks
    <3>2. Holds(BlockList(disk, u)) \cap available = {} BY <1>3, ObjectIs
    <3> QED BY <1>2, <1>12, <3>1, <3>2
  <2>3. ASSUME call.kind = "realloc"
        PROVE  call'.blocks # <<>> /\ call'.blocks[1].pos = call.fpos
    <3>1. CASE call.blocks = <<>>
      <4>1. call'.blocks = <<b>> BY <1>7, <3>1
      <4> QED BY <1>2, <2>3, <3>1, <4>1
    <3>2. CASE call.blocks # <<>>
      <4>1. call.blocks[1].pos = call.fpos BY <1>4, <2>3, <3>2 DEF CallBlocks
      <4>2. 1 \in 1 .. Len(call.blocks) BY <1>11, <3>2
      <4>3. call'.blocks[1] = call.blocks[1] /\ call'.blocks # <<>> BY <1>2, <1>7, <1>11, <4>2
      <4> QED BY <4>1, <4>3
    <3> QED BY <3>1, <3>2
  <2> QED BY <1>1, <1>7, <1>9, <1>12, <2>1, <2>2, <2>3 DEF CallBlocks
<1>17. CallRoom'
  <2> DEFINE A == AvailableSize(call.blocks)
             B == AvailableSize(call'.blocks)
  <2>1. call'.blocks # <<>> BY <1>2, <1>7, <1>11
  <2>2. B = A + DataSize(b.units) BY <1>2, <1>7, <1>11, RoomOfOneMore
  <2>3. A = call.size - call.remain
    <3>1. CASE call.blocks = <<>> BY <1>4, <1>5, <3>1, RoomOfNone DEF CallRoom
    <3>2. CASE call.remain > 0 BY <1>4, <3>2 DEF CallRoom
    <3> QED BY <1>1, <3>1, <3>2
  <2>4. DataSize(b.units) \in Nat BY <1>10, DataSizeIs
  <2>5. CASE b.used = call.remain /\ DataSize(b.units) - b.used < UnitSize
    <3>1. call'.remain = 0 BY <1>5, <1>7, <2>5
    <3>2. B - call'.size < UnitSize BY <1>5, <1>7, <1>10, <2>2, <2>3, <2>4, <2>5
    <3> QED BY <2>1, <3>1, <3>2 DEF CallRoom
  <2>6. CASE /\ b.used = DataSize(b.units) /\ b.used < call.remain
             /\ IsRun(available, b.pos, b.pos + b.units - 1)
    <3>1. call'.remain > 0 /\ call'.remain # 0 BY <1>5, <1>7, <1>10, <2>6
    <3>2. B = call'.size - call'.remain BY <1>5, <1>7, <1>10, <2>2, <2>3, <2>6
    <3> DEFINE m == b.pos + b.units - 1
    <3>3. m - b.pos + 1 = b.units BY <1>10
    <3>4. UnitsOf(b) = b.pos .. m BY DEF UnitsOf
    <3>5. /\ Capacity(available) \in Int /\ Capacity(available \ (b.pos .. m)) \in Int
          /\ Capacity(available \ (b.pos .. m)) >= Capacity(available) - DataSize(m - b.pos + 1) - HEADER_SIZE
          /\ b.pos - 1 \notin available
               => Capacity(available \ (b.pos .. m)) >= Capacity(available) - DataSize(m - b.pos + 1)
      <4> HIDE DEF m
      <4>1. IsRun(available, b.pos, m) BY <2>6 DEF m
      <4>2. numBlocks \in Nat BY <1>3
      <4> QED BY <1>3, <4>1, <4>2, CapacityTaken
    <3> DEFINE C == Capacity(available)
               D == Capacity(available')
               S == DataSize(b.units)
    <3>6. /\ C \in Int /\ D \in Int /\ S \in Nat /\ D >= C - S - 10
          /\ b.pos - 1 \notin available => D >= C - S
      <4> HIDE DEF m
      <4> QED BY <1>2, <2>4, <3>3, <3>4, <3>5 DEF HEADER_SIZE
    <3>7. C >= call.remain /\ (call.kind = "realloc" /\ call.blocks = <<>> => C >= call.remain + 10)
      <4>1. call.remain > 0 BY <1>5, <1>10, <2>6
      <4>2. C >= call.remain + (IF call.kind = "realloc" /\ call.blocks = <<>> THEN 10 ELSE 0)
        BY <1>4, <4>1 DEF CallRoom, HEADER_SIZE
      <4> HIDE DEF C
      <4> QED BY <1>5, <3>6, <4>2
    <3>8. ~(call.kind = "realloc" /\ call.blocks = <<>>) => b.pos - 1 \notin available
      BY <1>2, <1>3, <1>10
    <3> HIDE DEF C, D, S, m
    <3>9. D >= call.remain - S BY <1>5, <3>6, <3>7, <3>8
    <3>10. S = b.used BY <2>6 DEF S
    <3>11. Capacity(available') >= call'.remain + 0 BY <1>5, <1>7, <1>10, <3>6, <3>9, <3>10 DEF D
    <3> QED BY <2>1, <3>1, <3>2, <3>11 DEF CallRoom
  <2> QED BY <2>5, <2>6 DEF Fragment
<1> QED BY <1>1, <1>2, <1>7, <1>8, <1>9, <1>11, <1>12, <1>13, <1>14, <1>15, <1>16, <1>17 DEF StoreInv, CallFits

(* Every chain holds its own position.                                     *)
LEMMA ChainHolds ==
  ASSUME NEW d, NEW u, NEW c, NEW n, Chain(d, u, c, n)
  PROVE  Blocks(c, n) /\ u \in Holds(c) /\ u \in Units
<1>1. Blocks(c, n) /\ c # <<>> /\ c[1].pos = u BY DEF Chain
<1>2. Len(c) \in Nat /\ c \in Seq(BlockSet)
      /\ \A k \in 1 .. Len(c) : /\ c[k].pos \in UnitsOf(c[k]) /\ c[k].pos \in Units
                                /\ UnitsOf(c[k]) \subseteq Holds(c)
  BY <1>1, BlocksAre
<1>3. 1 \in 1 .. Len(c) BY <1>1, <1>2
<1> QED BY <1>1, <1>2, <1>3

(* The end of a call: only the units taken in it have been written, and    *)
(* there is one object more, or none.                                      *)
LEMMA CallEnds ==
  ASSUME StoreInv, InCall, opened' = opened, available' = available, numBlocks' = numBlocks,
         call' = NoCall,
         saved' = saved \/ saved' = [available |-> available, numBlocks |-> numBlocks],
         Cells(disk'), \A x \in Units \ Holds(call.blocks) : disk'[x] = disk[x],
         NEW u, NEW c,
         \/ handles' = Settled
         \/ /\ handles' = Settled \cup {u} /\ Chain(disk', u, c, numBlocks)
            /\ Holds(c) \subseteq Holds(call.blocks)
            /\ saved' = [available |-> available, numBlocks |-> numBlocks]
  PROVE  /\ StoreInv' /\ Undisturbed(Settled) /\ Settled' = handles' /\ opened' /\ ~InCall'
         /\ handles' # Settled => BlockList(disk', u) = c
<1>1. /\ MaxUnits \in Nat /\ saved.numBlocks \in 1 .. MaxUnits /\ saved.available \subseteq Units
      /\ saved = [available |-> saved.available, numBlocks |-> saved.numBlocks]
      /\ saved.available \subseteq 0 .. saved.numBlocks - 1
      /\ handles \subseteq Units /\ available \subseteq Units
      /\ opened /\ numBlocks = saved.numBlocks /\ available \subseteq 0 .. numBlocks - 1
  BY TypesAre DEF InCall, NoCall
<1>2. ~InCall' /\ Settled' = handles' /\ opened'
  <2>1. ~InCall' BY DEF InCall, NoCall
  <2> QED BY <1>1, <2>1 DEF Settled
<1>3. saved' \in [available : SUBSET Units, numBlocks : 1 .. MaxUnits]
      /\ saved'.numBlocks = numBlocks /\ saved'.available \subseteq saved.available \cup available
      /\ saved'.available \subseteq 0 .. numBlocks - 1
  <2>1. CASE saved' = saved BY <1>1, <2>1
  <2>2. CASE saved' = [available |-> available, numBlocks |-> numBlocks] BY <1>1, <2>2
  <2> QED BY <2>1, <2>2
<1>4. handles' \subseteq Units
  <2>1. Settled \subseteq Units BY <1>1 DEF Settled
  <2> QED BY <2>1, ChainHolds
<1>5. StoreTypes'
  <2>1. numBlocks \in 0 .. MaxUnits BY <1>1
  <2>2. TypeOK' BY <1>1, <1>2, <1>4, <2>1 DEF TypeOK, Cells
  <2> QED BY <1>1, <1>3, <2>2 DEF StoreTypes
<1> DEFINE left == saved'.available \cup available
<1>6. Objects(Settled, disk', numBlocks, left) /\ Undisturbed(Settled)
  <2>1. ASSUME NEW w \in Settled, NEW x \in Holds(BlockList(disk, w))
        PROVE  disk'[x] = disk[x] /\ x \notin left
    <3>1. x \in Units /\ x \notin available /\ x \notin saved.available BY <1>1, ObjectIs
    <3>2. x \notin Holds(call.blocks) BY DEF StoreInv, CallFits, CallBlocks
    <3> QED BY <1>3, <3>1, <3>2
  <2>2. Objects(Settled, disk, numBlocks, saved.available \cup available)
    BY <1>1 DEF StoreInv, ObjectsApart
  <2>3. numBlocks \in 0 .. MaxUnits /\ numBlocks <= numBlocks BY <1>1
  <2> HIDE DEF left
  <2>4. Untouched(Settled, disk, disk', left) BY <2>1 DEF Untouched
  <2>5. Settled \subseteq Settled OBVIOUS
  <2>6. /\ Objects(Settled, disk', numBlocks, left)
        /\ \A w \in Settled : BlockList(disk', w) = BlockList(disk, w)
    BY <2>2, <2>3, <2>4, <2>5, ObjectsStay
  <2> QED BY <2>1, <2>6 DEF Undisturbed
<1>7. CASE handles' = Settled
  <2>1. ObjectsApart' BY <1>1, <1>2, <1>3, <1>6, <1>7 DEF ObjectsApart
  <2> QED BY <1>1, <1>2, <1>5, <1>6, <1>7, <2>1 DEF StoreInv, CallFits
<1>8. CASE /\ handles' = Settled \cup {u} /\ Chain(disk', u, c, numBlocks)
           /\ Holds(c) \subseteq Holds(call.blocks)
           /\ saved' = [available |-> available, numBlocks |-> numBlocks]
  <2>1. Holds(call.blocks) \cap available = {}
        /\ \A w \in Settled : Holds(call.blocks) \cap Holds(BlockList(disk, w)) = {}
    BY DEF StoreInv, CallFits, CallBlocks
  <2>2. u \in Holds(c) BY <1>8, ChainHolds
  <2>3. u \notin Settled BY <1>8, <2>1, <2>2, ObjectIs
  <2>4. \A w \in Settled : Holds(c) \cap Holds(BlockList(disk', w)) = {}
    BY <1>6, <1>8, <2>1 DEF Undisturbed
  <2>5. numBlocks \in 0 .. MaxUnits BY <1>1
  <2>6. Holds(c) \cap left = {} BY <1>8, <2>1
  <2> HIDE DEF left
  <2>7. Objects(Settled \cup {u}, disk', numBlocks, left) /\ BlockList(disk', u) = c
    BY <1>6, <1>8, <2>3, <2>4, <2>5, <2>6, ObjectsMore
  <2>8. ObjectsApart' BY <1>1, <1>2, <1>3, <1>8, <2>7 DEF ObjectsApart, left
  <2> QED BY <1>1, <1>2, <1>5, <1>6, <1>8, <2>7, <2>8 DEF StoreInv, CallFits
<1> QED BY <1>7, <1>8

(* What a call leaves behind: nothing, if a used field overflows, or the   *)
(* object it wrote, up to a block at 0 if there is one.                    *)
CallEnded ==
  LET blocks == call.blocks IN
  \/ Failing(blocks) /\ handles' = Settled
  \/ /\ ~Failing(blocks) /\ Synced
     /\ handles' = Settled \cup {blocks[1].pos}
     /\ \E m \in 1 .. Len(blocks) :
          /\ Holds(BlockList(disk', blocks[1].pos)) = Holds(SubSeq(blocks, 1, m))
          /\ m = Len(blocks) \/ blocks[m + 1].pos = 0

LEMMA WrittenIsOnDisk ==
  ASSUME NEW c, NEW n \in 0 .. MaxUnits, Blocks(c, n), ~Failing(c), NEW d, NEW val
  PROVE  OnDisk(WriteBack(d, c, val), c)
<1>1. Storable(c) = DOMAIN c BY DEF Failing
<1>2. DOMAIN c = 1 .. Len(c) BY BlocksAre
<1>3. \A k \in 1 .. Len(c) :
        WriteBack(d, c, val)[c[k].pos] =
          IF k \in Storable(c)
          THEN Cell(c[k].used, IF k < Len(c) THEN c[k + 1].pos ELSE 0, val)
          ELSE d[c[k].pos]
  BY WriteBackIs
<1>4. \A k \in 1 .. Len(c) :
        WriteBack(d, c, val)[c[k].pos]
          = Cell(c[k].used, IF k < Len(c) THEN c[k + 1].pos ELSE 0, val)
  BY <1>1, <1>2, <1>3
<1> SUFFICES ASSUME NEW k \in 1 .. Len(c)
             PROVE  /\ WriteBack(d, c, val)[c[k].pos].used = c[k].used
                    /\ WriteBack(d, c, val)[c[k].pos].next = IF k < Len(c) THEN c[k + 1].pos ELSE 0
  BY <1>2, Zenon DEF OnDisk
<1> DEFINE next == IF k < Len(c) THEN c[k + 1].pos ELSE 0
<1>5. WriteBack(d, c, val)[c[k].pos] = Cell(c[k].used, next, val) BY <1>4
<1> HIDE DEF next
<1>6. /\ WriteBack(d, c, val)[c[k].pos].used = c[k].used
      /\ WriteBack(d, c, val)[c[k].pos].next = next
  BY <1>5 DEF Cell
<1> QED BY <1>6 DEF next

(* What is known of the call when its loop ends.                           *)
LEMMA CallIs ==
  ASSUME StoreInv, InCall, call.blocks # <<>>
  PROVE  /\ opened /\ numBlocks \in 0 .. MaxUnits /\ Cells(disk) /\ Zero \in Values
         /\ call.val \in Values /\ call.size \in Nat /\ call.remain \in Nat
         /\ Blocks(call.blocks, numBlocks)
         /\ call.remain <= 0 => AvailableSize(call.blocks) - call.size < UnitSize
         /\ call.kind = "alloc" => Settled = handles
         /\ call.kind = "realloc" =>
              /\ call.blocks[1].pos = call.fpos /\ call.fpos \in handles
              /\ Settled = handles \ {call.fpos}
<1>1. /\ opened /\ numBlocks \in 0 .. MaxUnits /\ Cells(disk) /\ handles \subseteq Units
      /\ MaxUnits \in Nat
  BY TypesAre DEF InCall, NoCall
<1>2. CallKinds /\ CallBlocks /\ CallRoom BY DEF StoreInv, CallFits
<1>3. Zero \in Values /\ call.size \in Nat /\ call.val \in Values /\ call.remain \in Nat
  BY <1>2, StoreAssumption DEF CallKinds
<1>4. call.remain <= 0 => AvailableSize(call.blocks) - call.size < UnitSize
  BY <1>2, <1>3 DEF CallRoom
<1>5. call.kind = "alloc" => Settled = handles
  <2>1. -1 \notin handles BY <1>1 DEF Units
  <2> QED BY <1>2, <2>1 DEF CallKinds, Settled
<1>6. call.kind = "realloc" =>
        /\ call.blocks[1].pos = call.fpos /\ call.fpos \in handles
        /\ Settled = handles \ {call.fpos}
  BY <1>2 DEF CallKinds, CallBlocks, Settled
<1> QED BY <1>1, <1>2, <1>3, <1>4, <1>5, <1>6 DEF CallBlocks

LEMMA FinishAllocKeeps ==
  ASSUME StoreInv, FinishAlloc
  PROVE  /\ StoreInv' /\ Undisturbed(Settled) /\ Settled' = handles' /\ opened' /\ ~InCall'
         /\ InCall /\ CallEnded
<1> DEFINE blocks == call.blocks
<1>1. /\ InCall /\ call.kind = "alloc" /\ call.remain <= 0 /\ blocks # <<>>
      /\ disk' = WriteBack(disk, blocks, Zero) /\ call' = NoCall
      /\ opened' = opened /\ available' = available /\ numBlocks' = numBlocks
      /\ \/ ~Failing(blocks) /\ handles' = handles \cup {blocks[1].pos} /\ Synced
         \/ Failing(blocks) /\ handles' = handles /\ saved' = saved
  BY DEF FinishAlloc, InCall, memory
<1>2. /\ numBlocks \in 0 .. MaxUnits /\ Cells(disk) /\ Zero \in Values
      /\ Blocks(blocks, numBlocks) /\ Settled = handles
  BY <1>1, CallIs
<1> HIDE DEF blocks
<1>3. Cells(disk') /\ \A x \in Units \ Holds(blocks) : disk'[x] = disk[x]
  BY <1>1, <1>2, WriteBackIs
<1>4. CASE ~Failing(blocks) /\ handles' = handles \cup {blocks[1].pos} /\ Synced
  <2>1. OnDisk(disk', blocks) BY <1>1, <1>2, <1>4, WrittenIsOnDisk
  <2>2. PICK m \in 1 .. Len(blocks) :
          /\ Chain(disk', blocks[1].pos, SubSeq(blocks, 1, m), numBlocks)
          /\ Holds(SubSeq(blocks, 1, m)) \subseteq Holds(blocks)
          /\ m = Len(blocks) \/ blocks[m + 1].pos = 0
    BY <1>1, <1>2, <2>1, ChainIsCut
  <2> DEFINE c == SubSeq(blocks, 1, m)
             u == blocks[1].pos
  <2> HIDE DEF c, u
  <2>3. /\ handles' = Settled \cup {u} /\ Chain(disk', u, c, numBlocks)
        /\ Holds(c) \subseteq Holds(call.blocks)
        /\ saved' = [available |-> available, numBlocks |-> numBlocks]
    BY <1>2, <1>4, <2>2 DEF c, u, blocks, Synced
  <2>4. /\ StoreInv' /\ Undisturbed(Settled) /\ Settled' = handles' /\ opened' /\ ~InCall'
    BY <1>1, <1>3, <2>3, CallEnds DEF blocks
  <2>5. BlockList(disk', u) = c BY <1>2, <2>3, ChainIsRead
  <2>6. CallEnded BY <1>2, <1>4, <2>2, <2>5 DEF CallEnded, c, u, blocks
  <2> QED BY <1>1, <2>4, <2>6
<1>5. CASE Failing(blocks) /\ handles' = handles /\ saved' = saved
  <2>1. handles' = Settled BY <1>2, <1>5
  <2>2. /\ StoreInv' /\ Undisturbed(Settled) /\ Settled' = handles' /\ opened' /\ ~InCall'
    BY <1>1, <1>3, <1>5, <2>1, CallEnds DEF blocks
  <2>3. CallEnded BY <1>5, <2>1 DEF CallEnded, blocks
  <2> QED BY <1>1, <2>2, <2>3
<1> QED BY <1>1, <1>4, <1>5

LEMMA FinishRewriteKeeps ==
  ASSUME StoreInv, FinishRewrite
  PROVE  /\ StoreInv' /\ Undisturbed(Settled) /\ Settled' = handles' /\ opened' /\ ~InCall'
         /\ InCall /\ CallEnded
<1> DEFINE blocks == call.blocks
           empty == WriteBack(disk, blocks, Zero)
           filled == Filled(BlockList(empty, call.fpos), call.size)
<1>1. /\ InCall /\ call.kind = "realloc" /\ call.remain <= 0 /\ blocks # <<>> /\ call' = NoCall
      /\ opened' = opened /\ available' = available /\ numBlocks' = numBlocks
      /\ \/ ~Failing(blocks) /\ disk' = WriteBack(empty, filled, call.val)
            /\ handles' = handles /\ Synced
         \/ Failing(blocks) /\ disk' = empty /\ handles' = handles \ {call.fpos} /\ saved' = saved
  BY DEF FinishRewrite, InCall, memory
<1>2. /\ numBlocks \in 0 .. MaxUnits /\ Cells(disk) /\ Zero \in Values /\ call.val \in Values
      /\ Blocks(blocks, numBlocks) /\ call.size \in Nat
      /\ AvailableSize(blocks) - call.size < UnitSize
      /\ blocks[1].pos = call.fpos /\ call.fpos \in handles /\ Settled = handles \ {call.fpos}
  BY <1>1, CallIs
<1> HIDE DEF blocks
<1>3. Cells(empty) /\ \A x \in Units \ Holds(blocks) : empty[x] = disk[x]
  BY <1>1, <1>2, WriteBackIs
<1> HIDE DEF empty
<1>4. CASE ~Failing(blocks) /\ disk' = WriteBack(empty, filled, call.val)
           /\ handles' = handles /\ Synced
  <2>1. OnDisk(empty, blocks) BY <1>2, <1>4, WrittenIsOnDisk DEF empty
  <2>2. PICK m \in 1 .. Len(blocks) :
          /\ Chain(empty, blocks[1].pos, SubSeq(blocks, 1, m), numBlocks)
          /\ Holds(SubSeq(blocks, 1, m)) \subseteq Holds(blocks)
          /\ m = Len(blocks) \/ blocks[m + 1].pos = 0
    BY <1>1, <1>2, <2>1, ChainIsCut
  <2> DEFINE c == SubSeq(blocks, 1, m)
             u == call.fpos
  <2>3. Chain(empty, u, c, numBlocks) /\ Blocks(c, numBlocks) BY <1>2, <2>2, ChainHolds
  <2>4. BlockList(empty, u) = c BY <1>2, <2>3, ChainIsRead
  <2>5. AvailableSize(c) - call.size < UnitSize
    <3>1. blocks \in Seq(BlockSet) BY <1>2, BlocksAre
    <3>2. AvailableSize(SubSeq(blocks, 1, m)) <= AvailableSize(blocks) /\ AvailableSize(blocks) \in Nat
      BY <3>1, RoomOfFirst
    <3>3. AvailableSize(c) \in Nat BY <2>3, BlocksAre, RoomsAre
    <3> QED BY <1>2, <3>2, <3>3, StoreAssumption
  <2> HIDE DEF c, u
  <2>6. disk' = WriteBack(empty, Filled(c, call.size), call.val) BY <1>4, <2>4 DEF u
  <2>7. PICK e : Chain(disk', u, e, numBlocks) /\ Holds(e) = Holds(c)
    BY <1>2, <2>3, <2>5, <2>6, WrittenInPlace
  <2>8. Cells(disk') /\ \A x \in Units \ Holds(blocks) : disk'[x] = disk[x]
    <3>1. Blocks(Filled(c, call.size), numBlocks) /\ Holds(Filled(c, call.size)) = Holds(c)
      BY <1>2, <2>3, <2>5, FilledIs
    <3>2. Cells(disk') /\ \A x \in Units \ Holds(c) : disk'[x] = empty[x]
      BY <1>2, <1>3, <2>6, <3>1, WriteBackIs
    <3> QED BY <1>3, <2>2, <3>2 DEF c
  <2>9. /\ handles' = Settled \cup {u} /\ Holds(e) \subseteq Holds(call.blocks)
        /\ saved' = [available |-> available, numBlocks |-> numBlocks]
    BY <1>2, <1>4, <2>2, <2>7 DEF c, u, blocks, Synced
  <2>10. /\ StoreInv' /\ Undisturbed(Settled) /\ Settled' = handles' /\ opened' /\ ~InCall'
    BY <1>1, <2>7, <2>8, <2>9, CallEnds DEF blocks
  <2>11. BlockList(disk', u) = e BY <1>2, <2>7, ChainIsRead
  <2>12. CallEnded BY <1>2, <1>4, <2>2, <2>7, <2>9, <2>11 DEF CallEnded, c, u, blocks
  <2> QED BY <1>1, <2>10, <2>12
<1>5. CASE Failing(blocks) /\ disk' = empty /\ handles' = handles \ {call.fpos} /\ saved' = saved
  <2>1. handles' = Settled BY <1>2, <1>5
  <2>2. /\ StoreInv' /\ Undisturbed(Settled) /\ Settled' = handles' /\ opened' /\ ~InCall'
    BY <1>1, <1>3, <1>5, <2>1, CallEnds DEF blocks
  <2>3. CallEnded BY <1>5, <2>1 DEF CallEnded, blocks
  <2> QED BY <1>1, <2>2, <2>3
<1> QED BY <1>1, <1>4, <1>5

LEMMA WriteInPlaceKeeps ==
  ASSUME StoreInv, NEW u, NEW size \in Sizes, NEW val \in Values, WriteInPlace(u, size, val)
  PROVE  /\ StoreInv' /\ Undisturbed(handles \ {u}) /\ Settled = handles /\ Settled' = handles
         /\ Holds(BlockList(disk', u)) = Holds(BlockList(disk, u)) /\ u \in handles
<1> DEFINE c == BlockList(disk, u)
           V == handles \ {u}
           free == saved.available \cup available
<1>1. /\ Idle /\ u \in handles /\ ~NeedRealloc(c, size)
      /\ disk' = WriteBack(disk, Filled(c, size), val)
      /\ opened' = opened /\ available' = available /\ numBlocks' = numBlocks
      /\ saved' = saved /\ handles' = handles /\ call' = call
  BY DEF WriteInPlace, memory
<1>2. /\ ~InCall /\ Settled = handles /\ call = NoCall /\ opened
      /\ numBlocks = saved.numBlocks /\ numBlocks \in 1 .. MaxUnits
      /\ Objects(handles, disk, numBlocks, free)
  BY <1>1, IdleIs
<1>3. /\ Chain(disk, u, c, numBlocks) /\ Blocks(c, numBlocks)
      /\ Holds(c) \cap free = {} /\ Holds(c) \subseteq Units
  BY <1>1, <1>2, ObjectIs
<1>4. numBlocks \in 0 .. MaxUnits /\ size \in Nat /\ Cells(disk)
  BY <1>2, StoreAssumption, TypesAre
<1>5. AvailableSize(c) - size < UnitSize
  <2>1. AvailableSize(c) \in Nat BY <1>3, BlocksAre, RoomsAre
  <2> QED BY <1>1, <1>4, <2>1, StoreAssumption DEF NeedRealloc
<1> HIDE DEF c, free
<1>6. PICK e : Chain(disk', u, e, numBlocks) /\ Holds(e) = Holds(c)
  BY <1>1, <1>3, <1>4, <1>5, WrittenInPlace
<1>7. Cells(disk') /\ \A x \in Units \ Holds(c) : disk'[x] = disk[x]
  <2>1. Blocks(Filled(c, size), numBlocks) /\ Holds(Filled(c, size)) = Holds(c)
    BY <1>3, <1>4, <1>5, FilledIs
  <2> QED BY <1>1, <1>4, <2>1, WriteBackIs
<1>8. Objects(V, disk', numBlocks, free) /\ Undisturbed(V)
  <2>1. ASSUME NEW w \in V, NEW x \in Holds(BlockList(disk, w))
        PROVE  disk'[x] = disk[x] /\ x \notin free
    <3>1. x \in Units /\ x \notin free BY <1>2, ObjectIs DEF free
    <3>2. x \notin Holds(c) BY <1>1, <1>2, OthersApart DEF c
    <3> QED BY <1>7, <3>1, <3>2
  <2>2. V \subseteq handles /\ numBlocks <= numBlocks BY <1>4
  <2> HIDE DEF V
  <2>3. Untouched(V, disk, disk', free) BY <2>1 DEF Untouched
  <2>4. /\ Objects(V, disk', numBlocks, free)
        /\ \A w \in V : BlockList(disk', w) = BlockList(disk, w)
    BY <1>2, <1>4, <2>2, <2>3, ObjectsStay
  <2> QED BY <2>1, <2>4 DEF Undisturbed
<1>9. \A w \in V : Holds(e) \cap Holds(BlockList(disk', w)) = {}
  BY <1>1, <1>2, <1>6, <1>8, OthersApart DEF Undisturbed, c
<1>10. u \notin V /\ V \cup {u} = handles BY <1>1
<1> HIDE DEF V
<1>11. Objects(V \cup {u}, disk', numBlocks, free) /\ BlockList(disk', u) = e
  BY <1>3, <1>4, <1>6, <1>8, <1>9, <1>10, ObjectsMore
<1>12. ~InCall' /\ Settled' = handles BY <1>1, <1>2 DEF InCall, Settled
<1>13. StoreTypes'
  <2>1. StoreTypes /\ TypeOK BY DEF StoreInv, StoreTypes
  <2>2. TypeOK' BY <1>1, <1>7, <1>12, <2>1 DEF TypeOK, Cells
  <2> QED BY <1>1, <1>2, <2>1, <2>2 DEF StoreTypes
<1>14. ObjectsApart' BY <1>1, <1>2, <1>10, <1>11, <1>12 DEF ObjectsApart, free
<1> QED BY <1>1, <1>2, <1>6, <1>8, <1>11, <1>12, <1>13, <1>14 DEF StoreInv, CallFits, c, V

LEMMA RemoveBlocksKeeps ==
  ASSUME StoreInv, NEW u, RemoveBlocks(u)
  PROVE  /\ StoreInv' /\ Undisturbed(handles \ {u}) /\ Settled = handles /\ Settled' = handles \ {u}
         /\ available' = available \cup Holds(BlockList(disk, u)) /\ u \in handles
         /\ saved' = [available |-> available', numBlocks |-> numBlocks] /\ Idle
<1> DEFINE c == BlockList(disk, u)
           V == handles \ {u}
<1>1. /\ Idle /\ u \in handles /\ available' = available \cup Holds(c)
      /\ disk' = HeadersReset(disk, c) /\ handles' = V
      /\ opened' = opened /\ numBlocks' = numBlocks /\ call' = call
      /\ saved' = [available |-> available', numBlocks |-> numBlocks]
  BY FreedIs DEF RemoveBlocks
<1>2. /\ ~InCall /\ Settled = handles /\ call = NoCall /\ opened
      /\ numBlocks = saved.numBlocks /\ numBlocks \in 1 .. MaxUnits
      /\ available \subseteq 0 .. numBlocks - 1
      /\ Objects(handles, disk, numBlocks, saved.available \cup available)
  BY <1>1, IdleIs
<1>3. /\ Blocks(c, numBlocks) /\ Holds(c) \subseteq 0 .. numBlocks - 1 /\ Holds(c) \subseteq Units
  BY <1>1, <1>2, ObjectIs
<1>4. numBlocks \in 0 .. MaxUnits /\ Cells(disk) /\ handles \subseteq Units /\ available \subseteq Units
  BY <1>2, TypesAre
<1> HIDE DEF c
<1>5. Cells(disk') /\ \A x \in Units \ Holds(c) : disk'[x] = disk[x]
  BY <1>1, <1>3, <1>4, HeadersResetIs
<1>6. available' \subseteq Units /\ available' \subseteq 0 .. numBlocks - 1
  BY <1>1, <1>2, <1>3, <1>4
<1>7. Objects(V, disk', numBlocks, available') /\ Undisturbed(V)
  <2>1. ASSUME NEW w \in V, NEW x \in Holds(BlockList(disk, w))
        PROVE  disk'[x] = disk[x] /\ x \notin available'
    <3>1. x \in Units /\ x \notin available BY <1>2, ObjectIs
    <3>2. x \notin Holds(c) BY <1>1, <1>2, OthersApart DEF c
    <3> QED BY <1>1, <1>5, <3>1, <3>2
  <2>2. V \subseteq handles /\ numBlocks <= numBlocks BY <1>4
  <2> DEFINE free == saved.available \cup available
             left == available'
             e == disk'
  <2>3. Objects(handles, disk, numBlocks, free) BY <1>2
  <2> HIDE DEF V, free, left, e
  <2>4. Untouched(V, disk, e, left) BY <2>1 DEF Untouched, left, e
  <2>5. /\ Objects(V, e, numBlocks, left)
        /\ \A w \in V : BlockList(e, w) = BlockList(disk, w)
    BY <1>4, <2>2, <2>3, <2>4, ObjectsStay
  <2> QED BY <2>1, <2>5 DEF Undisturbed, left, e
<1>8. ~InCall' /\ Settled' = V BY <1>1, <1>2 DEF InCall, Settled
<1>9. StoreTypes'
  <2>1. TypeOK' BY <1>1, <1>2, <1>4, <1>5, <1>6, <1>8 DEF TypeOK, Cells
  <2>2. /\ saved' \in [available : SUBSET Units, numBlocks : 1 .. MaxUnits]
        /\ saved'.available = available' /\ saved'.numBlocks = numBlocks
    BY <1>1, <1>2, <1>6
  <2> QED BY <1>1, <1>2, <1>6, <2>1, <2>2 DEF StoreTypes
<1>10. saved'.available = available' /\ saved'.numBlocks = numBlocks BY <1>1
<1>11. ObjectsApart' BY <1>1, <1>2, <1>7, <1>8, <1>10 DEF ObjectsApart
<1> QED BY <1>1, <1>2, <1>7, <1>8, <1>9, <1>11 DEF StoreInv, CallFits, c

(* Closing and opening.                                                    *)
LEMMA OpenAndClosedKeeps ==
  ASSUME StoreInv, Close \/ Open
  PROVE  /\ StoreInv' /\ Undisturbed(Settled) /\ Settled = handles /\ Settled' = handles
         /\ handles' = handles /\ saved' = saved /\ ~InCall /\ ~InCall'
<1>1. /\ saved' = saved /\ disk' = disk /\ handles' = handles /\ call' = call
      /\ \/ Idle /\ opened' = FALSE /\ available' = {} /\ numBlocks' = 0
         \/ ~opened /\ opened' = TRUE /\ available' = saved.available
            /\ numBlocks' = saved.numBlocks
  BY DEF Close, Open
<1>2. StoreTypes /\ TypeOK BY DEF StoreInv, StoreTypes
<1>3. ~InCall /\ ~InCall' /\ call = NoCall
  BY <1>1, <1>2 DEF StoreTypes, Idle, InCall, NoCall
<1>4. Settled = handles /\ Settled' = handles BY <1>1, <1>3 DEF Settled
<1>5. StoreTypes'
  <2>1. 0 \in 0 .. MaxUnits /\ saved.numBlocks \in 0 .. MaxUnits /\ saved.available \subseteq Units
    BY StoreAssumption, TypesAre
  <2>2. TypeOK' BY <1>1, <1>2, <1>3, <2>1 DEF TypeOK
  <2> QED BY <1>1, <1>2, <1>3, <2>2 DEF StoreTypes
<1>6. ObjectsApart'
  <2>1. Objects(handles, disk, saved.numBlocks, saved.available)
    BY <1>4 DEF StoreInv, ObjectsApart, Objects
  <2>2. (saved.available \cup (IF opened' THEN available' ELSE {})) = saved.available BY <1>1
  <2> QED BY <1>1, <1>4, <2>1, <2>2 DEF ObjectsApart
<1> QED BY <1>1, <1>3, <1>4, <1>5, <1>6 DEF StoreInv, CallFits, Undisturbed

LEMMA StutterKeeps ==
  ASSUME StoreInv, UNCHANGED vars
  PROVE  StoreInv'
<1>1. /\ opened' = opened /\ available' = available /\ numBlocks' = numBlocks /\ saved' = saved
      /\ disk' = disk /\ handles' = handles /\ call' = call
  BY DEF vars, memory
<1>2. InCall' = InCall /\ Settled' = Settled BY <1>1 DEF InCall, Settled
<1>3. StoreTypes' BY <1>1, <1>2 DEF StoreInv, StoreTypes, TypeOK
<1>4. ObjectsApart' BY <1>1, <1>2 DEF StoreInv, ObjectsApart
<1>5. CallFits'
  BY <1>1, <1>2 DEF StoreInv, CallFits, CallKinds, CallBlocks, CallRoom
<1> QED BY <1>3, <1>4, <1>5 DEF StoreInv

-----------------------------------------------------------------------------
(* The invariant holds always, whichever objects are removed and whether a *)
(* used field overflows or not, where calls ask for what the store has.    *)
THEOREM StoreInvAlways == EnoughRoom => (Spec => []StoreInv)
<1> SUFFICES ASSUME EnoughRoom PROVE Spec => []StoreInv
  OBVIOUS
<1>1. Init => StoreInv
  <2> SUFFICES ASSUME Init PROVE StoreInv OBVIOUS
  <2>1. /\ opened = TRUE /\ available = 0 .. InitUnits - 1 /\ numBlocks = InitUnits
        /\ saved = [available |-> 0 .. InitUnits - 1, numBlocks |-> InitUnits]
        /\ disk = [u \in Units |-> Cell(0, 0, Zero)] /\ handles = {} /\ call = NoCall
    BY DEF Init
  <2>2. ~InCall /\ Settled = {} BY <2>1 DEF InCall, NoCall, Settled
  <2>3. InitUnits \in 1 .. MaxUnits /\ 0 \in Units /\ Zero \in Values /\ 0 .. InitUnits - 1 \subseteq Units
        /\ InitUnits \in 0 .. MaxUnits
    BY StoreAssumption DEF Units
  <2>4. Cells(disk) BY <2>1, <2>3 DEF Cells, Cell
  <2>5. TypeOK BY <2>1, <2>2, <2>3, <2>4 DEF TypeOK, Cells
  <2>6. StoreTypes BY <2>1, <2>3, <2>5 DEF StoreTypes
  <2>7. ObjectsApart BY <2>2 DEF ObjectsApart, Objects
  <2> QED BY <2>2, <2>6, <2>7 DEF StoreInv, CallFits
<1>2. StoreInv /\ [Next]_vars => StoreInv'
  <2> SUFFICES ASSUME StoreInv, [Next]_vars PROVE StoreInv' OBVIOUS
  <2>1. ASSUME NEW size \in Sizes, Alloc(size) PROVE StoreInv' BY <2>1, AllocKeeps
  <2>2. ASSUME NEW u \in Units, NEW size \in Sizes, NEW val \in Values, WriteInPlace(u, size, val)
        PROVE  StoreInv'
    BY <2>2, WriteInPlaceKeeps
  <2>3. ASSUME NEW u \in Units, NEW size \in Sizes, NEW val \in Values, BeginRewrite(u, size, val)
        PROVE  StoreInv'
    BY <2>3, BeginRewriteKeeps
  <2>4. ASSUME NEW u \in Units, RemoveBlocks(u) PROVE StoreInv' BY <2>4, RemoveBlocksKeeps
  <2>5. ASSUME TakeFragment PROVE StoreInv' BY <2>5, TakesFragment, TakeFragmentKeeps
  <2>6. ASSUME FinishAlloc PROVE StoreInv' BY <2>6, FinishAllocKeeps
  <2>7. ASSUME FinishRewrite PROVE StoreInv' BY <2>7, FinishRewriteKeeps
  <2>8. ASSUME Close \/ Open PROVE StoreInv' BY <2>8, OpenAndClosedKeeps
  <2>9. ASSUME UNCHANGED vars PROVE StoreInv' BY <2>9, StutterKeeps
  <2> QED BY <2>1, <2>2, <2>3, <2>4, <2>5, <2>6, <2>7, <2>8, <2>9 DEF Next
<1> QED BY <1>1, <1>2, PTL DEF Spec

LEMMA ApartMeansUnshared ==
  ASSUME StoreInv
  PROVE  NothingShared
<1> SUFFICES ASSUME opened PROVE /\ \A c \in Chains : Holds(c) \cap available = {} /\ Apart(c)
                                 /\ \A c, d \in Chains : c # d => Holds(c) \cap Holds(d) = {}
  BY DEF NothingShared, Apart
<1>1. ASSUME NEW u \in Settled
      PROVE  Holds(BlockList(disk, u)) \cap available = {} /\ Apart(BlockList(disk, u))
  BY <1>1, ObjectIs DEF Blocks
<1>2. ASSUME InCall
      PROVE  /\ Holds(call.blocks) \cap available = {} /\ Apart(call.blocks)
             /\ \A u \in Settled : Holds(call.blocks) \cap Holds(BlockList(disk, u)) = {}
  BY <1>2 DEF StoreInv, CallFits, CallBlocks, Blocks
<1>3. \A c \in Chains : \/ \E u \in Settled : c = BlockList(disk, u)
                        \/ InCall /\ c = call.blocks
  BY DEF Chains
<1>4. \A c \in Chains : Holds(c) \cap available = {} /\ Apart(c)
  BY <1>1, <1>2, <1>3
<1>5. ASSUME NEW c \in Chains, NEW d \in Chains, c # d PROVE Holds(c) \cap Holds(d) = {}
  <2>1. CASE (\E u \in Settled : c = BlockList(disk, u)) /\ (\E w \in Settled : d = BlockList(disk, w))
    BY <1>5, <2>1, OthersApart
  <2>2. CASE (\E u \in Settled : c = BlockList(disk, u)) /\ InCall /\ d = call.blocks
    BY <1>2, <2>2
  <2>3. CASE InCall /\ c = call.blocks /\ (\E w \in Settled : d = BlockList(disk, w))
    BY <1>2, <2>3
  <2> QED BY <1>3, <1>5, <2>1, <2>2, <2>3
<1> QED BY <1>4, <1>5

(* No unit is ever handed out twice (allocMaxFragment, freeBlock), even if *)
(* the object at 0 is removed or a used field overflows: units and bytes   *)
(* may then be lost, but what is left of each object stays its own.        *)
THEOREM UnitsAreNeverShared == EnoughRoom => (Spec => []NothingShared)
<1>1. StoreInv => NothingShared BY ApartMeansUnshared
<1> QED BY <1>1, StoreInvAlways, PTL

(* What EnoughRoom assumes of the beginning of an allocation lasts to its  *)
(* end: through all fragments of a call that may fail in between, the free *)
(* list is never asked for a range when it has none (LongRangeList.get),   *)
(* and the call does not hang.  Of calls that ask for more nothing is said *)
(* (VariableBlockFileStore.ts:160).                                        *)
LEMMA ListNeverRunsOut == EnoughRoom => (Spec => [](TypeOK /\ NeverHangs))
<1>1. StoreInv => TypeOK /\ NeverHangs
  <2> SUFFICES ASSUME StoreInv PROVE TypeOK /\ NeverHangs OBVIOUS
  <2>1. TypeOK /\ (call = NoCall \/ InCall) BY DEF StoreInv, StoreTypes
  <2> QED BY <2>1 DEF NeverHangs, InCall, NoCall, Hung
<1> QED BY <1>1, StoreInvAlways, PTL

-----------------------------------------------------------------------------
(* Where the object at 0 stays and every length fits a used field, no unit *)
(* is lost either.                                                         *)
Kept == KeepFirst /\ \A size \in Sizes : size <= MaxUsed

(* Who owns what, unit by unit.                                            *)
LEMMA OwnedIs ==
  \A x : x \in Owned <=> \/ \E u \in Settled : x \in Holds(BlockList(disk, u))
                         \/ InCall /\ x \in Holds(call.blocks)
<1> DEFINE all == UNION {Holds(BlockList(disk, u)) : u \in Settled}
<1>1. \A x : x \in all <=> \E u \in Settled : x \in Holds(BlockList(disk, u)) OBVIOUS
<1>2. Owned = all \cup (IF InCall THEN Holds(call.blocks) ELSE {}) BY DEF Owned
<1> HIDE DEF all
<1>3. \A x : x \in Owned <=> x \in all \/ (InCall /\ x \in Holds(call.blocks))
  <2>1. CASE InCall BY <1>2, <2>1
  <2>2. CASE ~InCall BY <1>2, <2>2
  <2> QED BY <2>1, <2>2
<1> QED BY <1>1, <1>3

LEMMA OwnedWillBe ==
  \A x : x \in Owned' <=> \/ \E u \in Settled' : x \in Holds(BlockList(disk', u))
                          \/ InCall' /\ x \in Holds(call'.blocks)
<1> DEFINE all == UNION {Holds(BlockList(disk', u)) : u \in Settled'}
<1>1. \A x : x \in all <=> \E u \in Settled' : x \in Holds(BlockList(disk', u)) OBVIOUS
<1>2. Owned' = all \cup (IF InCall' THEN Holds(call'.blocks) ELSE {}) BY DEF Owned
<1> HIDE DEF all
<1>3. \A x : x \in Owned' <=> x \in all \/ (InCall' /\ x \in Holds(call'.blocks))
  <2>1. CASE InCall' BY <1>2, <2>1
  <2>2. CASE ~InCall' BY <1>2, <2>2
  <2> QED BY <2>1, <2>2
<1> QED BY <1>1, <1>3

(* The first unit is free between calls only if there is no object.        *)
LEMMA FirstIsTaken ==
  ASSUME StoreInv, KeptInv, opened
  PROVE  /\ 0 \in Settled => 0 \notin available
         /\ Settled = {} /\ (InCall => call.blocks = <<>>) => 0 \in available
<1>1. 0 \in Settled => 0 \notin available BY ObjectIs
<1>2. ASSUME Settled = {}, InCall => call.blocks = <<>> PROVE 0 \in available
  <2>1. \A x : x \notin Owned BY <1>2, OwnedIs, NoBlocks
  <2>2. available \cup Owned = 0 .. numBlocks - 1 BY DEF KeptInv, AllOwned
  <2>3. numBlocks \in Nat /\ numBlocks >= 1 BY TypesAre
  <2>4. 0 \in 0 .. numBlocks - 1 BY <2>3
  <2> QED BY <2>1, <2>2, <2>4
<1> QED BY <1>1, <1>2

LEMMA AllocKept ==
  ASSUME StoreInv, KeptInv, EnoughRoom, Kept, NEW size \in Sizes, Alloc(size)
  PROVE  KeptInv'
<1>1. Undisturbed(handles) /\ Settled' = handles /\ Began(available, size) BY AllocKeeps
<1>2. /\ Settled = handles /\ ~InCall /\ opened /\ handles' = handles
      /\ InCall' /\ opened' /\ call'.remain = size /\ call'.blocks = <<>>
      /\ numBlocks \in Nat /\ numBlocks' \in Nat /\ numBlocks <= numBlocks'
      /\ available' = available \cup (numBlocks .. numBlocks' - 1)
  BY <1>1 DEF Began
<1>3. FirstKept' BY <1>2 DEF FirstKept, KeptInv
<1>4. UsedFits' BY <1>2 DEF UsedFits, Kept
<1>5. Owned' = Owned
  <2>1. \A x : x \in Owned' <=> x \in Owned
    BY <1>1, <1>2, OwnedIs, OwnedWillBe, NoBlocks DEF Undisturbed
  <2> QED BY <2>1
<1>6. AllOwned'
  <2>1. available \cup Owned = 0 .. numBlocks - 1 BY <1>2 DEF KeptInv, AllOwned
  <2>2. 0 .. numBlocks' - 1 = (0 .. numBlocks - 1) \cup (numBlocks .. numBlocks' - 1) BY <1>2
  <2>3. available' \cup Owned' = 0 .. numBlocks' - 1 BY <1>2, <1>5, <2>1, <2>2
  <2> QED BY <1>2, <2>3 DEF AllOwned
<1>7. HeaderIsCurrent' BY <1>2 DEF HeaderIsCurrent, Idle, InCall, NoCall
<1> QED BY <1>3, <1>4, <1>6, <1>7 DEF KeptInv

LEMMA BeginRewriteKept ==
  ASSUME StoreInv, KeptInv, EnoughRoom, Kept, NEW u, NEW size \in Sizes, NEW val \in Values,
         BeginRewrite(u, size, val)
  PROVE  KeptInv'
<1> DEFINE held == Holds(BlockList(disk, u))
<1>1. /\ Undisturbed(handles \ {u}) /\ Settled' = handles \ {u} /\ u \in handles
      /\ Began(available \cup held, size)
  BY BeginRewriteKeeps
<1>2. /\ Settled = handles /\ ~InCall /\ opened /\ handles' = handles
      /\ InCall' /\ opened' /\ call'.remain = size /\ call'.blocks = <<>>
      /\ numBlocks \in Nat /\ numBlocks' \in Nat /\ numBlocks <= numBlocks'
      /\ available' = available \cup held \cup (numBlocks .. numBlocks' - 1)
  BY <1>1 DEF Began
<1>3. FirstKept' BY <1>2 DEF FirstKept, KeptInv
<1>4. UsedFits' BY <1>2 DEF UsedFits, Kept
<1>5. held \cup Owned' = Owned
  <2>1. \A x : x \in held \cup Owned' <=> x \in Owned
    BY <1>1, <1>2, OwnedIs, OwnedWillBe, NoBlocks DEF Undisturbed
  <2> QED BY <2>1
<1>6. AllOwned'
  <2>1. available \cup Owned = 0 .. numBlocks - 1 BY <1>2 DEF KeptInv, AllOwned
  <2>2. 0 .. numBlocks' - 1 = (0 .. numBlocks - 1) \cup (numBlocks .. numBlocks' - 1) BY <1>2
  <2> HIDE DEF held
  <2>3. available' \cup Owned' = 0 .. numBlocks' - 1 BY <1>2, <1>5, <2>1, <2>2
  <2> QED BY <1>2, <2>3 DEF AllOwned
<1>7. HeaderIsCurrent' BY <1>2 DEF HeaderIsCurrent, Idle, InCall, NoCall
<1> QED BY <1>3, <1>4, <1>6, <1>7 DEF KeptInv

LEMMA TakeFragmentKept ==
  ASSUME StoreInv, KeptInv, TakeFragment
  PROVE  KeptInv'
<1>1. PICK b : Fragment(b) BY TakesFragment
<1>2. /\ Settled' = Settled /\ InCall /\ InCall'
      /\ call'.kind = call.kind /\ call'.fpos = call.fpos
      /\ call'.remain = call.remain - b.used /\ call'.blocks = Append(call.blocks, b)
      /\ call.blocks \in Seq(BlockSet) /\ b \in BlockSet
      /\ Holds(call'.blocks) = Holds(call.blocks) \cup UnitsOf(b)
  BY <1>1, TakeFragmentKeeps
<1>3. /\ b.used <= call.remain /\ available' = available \ UnitsOf(b)
      /\ UnitsOf(b) \subseteq available
      /\ IF call.kind = "realloc" /\ call.blocks = <<>> THEN b.pos = call.fpos
         ELSE \A w \in available : b.pos <= w
  BY <1>1 DEF Fragment
<1>4. /\ disk' = disk /\ opened' = opened /\ numBlocks' = numBlocks /\ saved' = saved
      /\ handles' = handles
  BY DEF TakeFragment
<1>5. /\ b.pos \in Nat /\ b.used \in Nat /\ b.pos \in UnitsOf(b) BY <1>2, BlockIs
<1>6. /\ opened /\ call.remain \in Nat /\ CallKinds /\ call.size \in Nat /\ available \subseteq Nat
  <2>1. opened /\ available \subseteq 0 .. numBlocks - 1 BY <1>2, TypesAre DEF InCall, NoCall
  <2>2. CallKinds BY <1>2 DEF StoreInv, CallFits
  <2> QED BY <2>1, <2>2, StoreAssumption DEF CallKinds
<1>7. FirstKept BY DEF KeptInv
<1>8. /\ Len(call.blocks) \in Nat /\ Len(call'.blocks) = Len(call.blocks) + 1
      /\ DOMAIN call'.blocks = 1 .. Len(call.blocks) + 1
      /\ \A k \in 1 .. Len(call.blocks) : call'.blocks[k] = call.blocks[k]
      /\ call'.blocks[Len(call.blocks) + 1] = b
      /\ DOMAIN call.blocks = 1 .. Len(call.blocks)
  BY <1>2
<1>9. ASSUME call.blocks = <<>> PROVE FirstKept'
  <2>1. Len(call.blocks) = 0 BY <1>9
  <2>2. DOMAIN call'.blocks = {1} /\ call'.blocks[1] = b BY <1>8, <2>1
  <2>3. handles = {} => Settled = {} BY DEF Settled
  <2>4. call.kind = "alloc" /\ handles = {} => b.pos = 0
    <3>1. SUFFICES ASSUME call.kind = "alloc", handles = {} PROVE b.pos = 0 OBVIOUS
    <3>2. 0 \in available BY <1>6, <1>9, <2>3, <3>1, FirstIsTaken
    <3>3. b.pos <= 0 BY <1>3, <3>1, <3>2
    <3> QED BY <1>5, <3>3
  <2>5. 0 \notin available'
    <3>1. CASE 0 \in Settled BY <1>3, <1>6, <3>1, FirstIsTaken
    <3>2. CASE 0 \notin Settled
      <4>1. handles = {} \/ (call.kind = "realloc" /\ call.fpos = 0)
        BY <1>2, <1>6, <1>7, <3>2 DEF FirstKept, Settled, CallKinds
      <4>2. CASE handles = {}
        <5>1. call.kind = "alloc" BY <1>6, <4>2 DEF CallKinds
        <5> QED BY <1>3, <1>5, <2>4, <4>2, <5>1
      <4>3. CASE call.kind = "realloc" /\ call.fpos = 0
        BY <1>3, <1>5, <1>9, <4>3
      <4> QED BY <4>1, <4>2, <4>3
    <3> QED BY <3>1, <3>2
  <2>6. \A k \in DOMAIN call'.blocks : ~(k > 1) BY <2>2
  <2> QED BY <1>2, <1>4, <1>7, <2>2, <2>4, <2>5, <2>6 DEF FirstKept
<1>10. ASSUME call.blocks # <<>> PROVE FirstKept'
  <2>1. /\ 0 \notin available /\ \A k \in DOMAIN call.blocks : k > 1 => call.blocks[k].pos # 0
        /\ call.kind = "alloc" /\ handles = {} => call.blocks[1].pos = 0
    BY <1>2, <1>7, <1>10 DEF FirstKept
  <2>2. b.pos # 0 /\ 0 \notin available' BY <1>3, <1>5, <2>1
  <2>3. 1 \in 1 .. Len(call.blocks) BY <1>8, <1>10, <1>2
  <2>4. call'.blocks[1] = call.blocks[1] BY <1>8, <2>3
  <2>5. \A k \in DOMAIN call'.blocks : k > 1 => call'.blocks[k].pos # 0
    <3> SUFFICES ASSUME NEW k \in 1 .. Len(call.blocks) + 1, k > 1 PROVE call'.blocks[k].pos # 0
      BY <1>8
    <3>1. CASE k = Len(call.blocks) + 1 BY <1>8, <2>2, <3>1
    <3>2. CASE k # Len(call.blocks) + 1
      <4>1. k \in 1 .. Len(call.blocks) BY <1>8, <3>2
      <4> QED BY <1>8, <2>1, <4>1
    <3> QED BY <3>1, <3>2
  <2> QED BY <1>2, <1>4, <1>7, <2>1, <2>2, <2>4, <2>5 DEF FirstKept
<1>11. UsedFits'
  <2>1. /\ call.remain <= MaxUsed
        /\ \A k \in DOMAIN call.blocks : call.blocks[k].used <= MaxUsed
    BY <1>2 DEF KeptInv, UsedFits
  <2>2. MaxUsed \in Nat BY StoreAssumption
  <2>3. call'.remain <= MaxUsed /\ b.used <= MaxUsed BY <1>2, <1>3, <1>5, <1>6, <2>1, <2>2
  <2>4. \A k \in DOMAIN call'.blocks : call'.blocks[k].used <= MaxUsed
    <3> SUFFICES ASSUME NEW k \in 1 .. Len(call.blocks) + 1 PROVE call'.blocks[k].used <= MaxUsed
      BY <1>8
    <3>1. CASE k = Len(call.blocks) + 1 BY <1>8, <2>3, <3>1
    <3>2. CASE k # Len(call.blocks) + 1
      <4>1. k \in 1 .. Len(call.blocks) BY <1>8, <3>2
      <4> QED BY <1>8, <2>1, <4>1
    <3> QED BY <3>1, <3>2
  <2> QED BY <2>3, <2>4 DEF UsedFits
<1>12. AllOwned'
  <2>1. available \cup Owned = 0 .. numBlocks - 1 BY <1>6 DEF KeptInv, AllOwned
  <2>2. \A x : x \in Owned' <=> x \in Owned \/ x \in UnitsOf(b)
    BY <1>2, <1>4, OwnedIs, OwnedWillBe
  <2>3. available' \cup Owned' = available \cup Owned BY <1>3, <2>2
  <2> QED BY <1>4, <1>6, <2>1, <2>3 DEF AllOwned
<1>13. HeaderIsCurrent' BY <1>2 DEF HeaderIsCurrent, Idle, InCall, NoCall
<1> QED BY <1>9, <1>10, <1>11, <1>12, <1>13 DEF KeptInv

(* A call that ends has not lost a block: none but the first is at 0, and  *)
(* every used field could be stored.                                       *)
LEMMA FinishKept ==
  ASSUME StoreInv, KeptInv, InCall, call.blocks # <<>>, CallEnded, Undisturbed(Settled),
         Settled' = handles', opened', ~InCall', available' = available, numBlocks' = numBlocks,
         call.kind = "alloc" => Settled = handles,
         call.kind = "realloc" => call.blocks[1].pos = call.fpos /\ Settled = handles \ {call.fpos}
  PROVE  KeptInv'
<1> DEFINE blocks == call.blocks
           u == blocks[1].pos
<1>1. Blocks(blocks, numBlocks) /\ numBlocks \in 0 .. MaxUnits /\ opened BY CallIs
<1>2. blocks \in Seq(BlockSet) /\ Len(blocks) \in Nat /\ DOMAIN blocks = 1 .. Len(blocks)
      /\ \A k \in 1 .. Len(blocks) : blocks[k] \in BlockSet
  BY <1>1, BlocksAre
<1>3. ~Failing(blocks)
  <2>1. \A k \in 1 .. Len(blocks) : blocks[k].used <= MaxUsed
    BY <1>2 DEF KeptInv, UsedFits
  <2>2. \A k \in 1 .. Len(blocks) : \A j \in 1 .. k : j \in 1 .. Len(blocks) BY <1>2
  <2>3. Storable(blocks) = DOMAIN blocks BY <1>2, <2>1, <2>2 DEF Storable
  <2> QED BY <2>3 DEF Failing
<1>4. /\ saved' = [available |-> available, numBlocks |-> numBlocks]
      /\ handles' = Settled \cup {u}
      /\ \E m \in 1 .. Len(blocks) :
           /\ Holds(BlockList(disk', u)) = Holds(SubSeq(blocks, 1, m))
           /\ m = Len(blocks) \/ blocks[m + 1].pos = 0
  BY <1>3 DEF CallEnded, Synced
<1>5. Holds(BlockList(disk', u)) = Holds(blocks)
  <2>1. PICK m \in 1 .. Len(blocks) :
           /\ Holds(BlockList(disk', u)) = Holds(SubSeq(blocks, 1, m))
           /\ m = Len(blocks) \/ blocks[m + 1].pos = 0
    BY <1>4
  <2>2. m # Len(blocks) => m + 1 \in 1 .. Len(blocks) /\ m + 1 > 1 BY <1>2
  <2>3. \A k \in 1 .. Len(blocks) : k > 1 => blocks[k].pos # 0
    BY <1>2 DEF KeptInv, FirstKept
  <2>4. m = Len(blocks) BY <2>1, <2>2, <2>3
  <2>5. SubSeq(blocks, 1, Len(blocks)) = blocks BY <1>2
  <2> QED BY <2>1, <2>4, <2>5
<1> HIDE DEF u, blocks
<1>6. Owned' = Owned
  <2>1. \A x : x \in Owned' <=> x \in Owned
    BY <1>4, <1>5, OwnedIs, OwnedWillBe DEF Undisturbed, blocks
  <2> QED BY <2>1
<1>7. AllOwned' BY <1>1, <1>6 DEF KeptInv, AllOwned
<1>8. HeaderIsCurrent' BY <1>4 DEF HeaderIsCurrent
<1>9. UsedFits' BY DEF UsedFits
<1>10. 0 \in handles'
  <2>1. call.kind = "alloc" \/ call.kind = "realloc" BY DEF InCall
  <2>2. handles # {} => 0 \in handles BY DEF KeptInv, FirstKept
  <2>3. call.kind = "alloc" /\ handles = {} => u = 0
    BY DEF KeptInv, FirstKept, u, blocks
  <2>4. call.kind = "realloc" => handles # {}
    BY DEF StoreInv, CallFits, CallKinds
  <2>5. call.kind = "realloc" => u = call.fpos BY DEF u, blocks
  <2> QED BY <1>4, <2>1, <2>2, <2>3, <2>4, <2>5
<1>11. FirstKept' BY <1>10 DEF FirstKept
<1> QED BY <1>7, <1>8, <1>9, <1>11 DEF KeptInv

LEMMA FinishAllocKept ==
  ASSUME StoreInv, KeptInv, FinishAlloc
  PROVE  KeptInv'
<1>1. /\ Undisturbed(Settled) /\ Settled' = handles' /\ opened' /\ ~InCall' /\ InCall /\ CallEnded
  BY FinishAllocKeeps
<1>2. call.blocks # <<>> /\ available' = available /\ numBlocks' = numBlocks
  BY DEF FinishAlloc, memory
<1>3. /\ call.kind = "alloc" => Settled = handles
      /\ call.kind = "realloc" => call.blocks[1].pos = call.fpos /\ Settled = handles \ {call.fpos}
  BY <1>1, <1>2, CallIs
<1> QED BY <1>1, <1>2, <1>3, FinishKept

LEMMA FinishRewriteKept ==
  ASSUME StoreInv, KeptInv, FinishRewrite
  PROVE  KeptInv'
<1>1. /\ Undisturbed(Settled) /\ Settled' = handles' /\ opened' /\ ~InCall' /\ InCall /\ CallEnded
  BY FinishRewriteKeeps
<1>2. call.blocks # <<>> /\ available' = available /\ numBlocks' = numBlocks
  BY DEF FinishRewrite, memory
<1>3. /\ call.kind = "alloc" => Settled = handles
      /\ call.kind = "realloc" => call.blocks[1].pos = call.fpos /\ Settled = handles \ {call.fpos}
  BY <1>1, <1>2, CallIs
<1> QED BY <1>1, <1>2, <1>3, FinishKept

LEMMA WriteInPlaceKept ==
  ASSUME StoreInv, KeptInv, NEW u, NEW size \in Sizes, NEW val \in Values,
         WriteInPlace(u, size, val)
  PROVE  KeptInv'
<1>1. /\ Undisturbed(handles \ {u}) /\ Settled = handles /\ Settled' = handles
      /\ Holds(BlockList(disk', u)) = Holds(BlockList(disk, u)) /\ u \in handles
  BY WriteInPlaceKeeps
<1>2. /\ opened' = opened /\ available' = available /\ numBlocks' = numBlocks
      /\ saved' = saved /\ handles' = handles /\ call' = call
  BY DEF WriteInPlace, memory
<1>3. InCall' = InCall BY <1>2 DEF InCall
<1>4. Owned' = Owned
  <2>1. \A x : x \in Owned' <=> x \in Owned
    BY <1>1, <1>2, <1>3, OwnedIs, OwnedWillBe DEF Undisturbed
  <2> QED BY <2>1
<1>5. FirstKept' /\ UsedFits' BY <1>2, <1>3 DEF KeptInv, FirstKept, UsedFits
<1>6. AllOwned' /\ HeaderIsCurrent'
  BY <1>2, <1>4 DEF KeptInv, AllOwned, HeaderIsCurrent, Idle
<1> QED BY <1>5, <1>6 DEF KeptInv

LEMMA RemoveBlocksKept ==
  ASSUME StoreInv, KeptInv, Kept, NEW u, RemoveBlocks(u)
  PROVE  KeptInv'
<1>1. /\ Undisturbed(handles \ {u}) /\ Settled = handles /\ Settled' = handles \ {u}
      /\ available' = available \cup Holds(BlockList(disk, u)) /\ u \in handles
      /\ saved' = [available |-> available', numBlocks |-> numBlocks] /\ Idle
  BY RemoveBlocksKeeps
<1>2. /\ opened' = opened /\ numBlocks' = numBlocks /\ call' = call /\ u # 0
      /\ handles' = handles \ {u}
  BY DEF RemoveBlocks, Kept
<1>3. ~InCall /\ ~InCall' /\ opened BY <1>1, <1>2 DEF Idle, InCall, NoCall
<1>4. available' \cup Owned' = available \cup Owned
  <2>1. \A x : x \in Owned <=> x \in Owned' \/ x \in Holds(BlockList(disk, u))
    BY <1>1, <1>2, <1>3, OwnedIs, OwnedWillBe DEF Undisturbed
  <2> QED BY <1>1, <2>1
<1>5. FirstKept' /\ UsedFits' BY <1>2, <1>3 DEF KeptInv, FirstKept, UsedFits
<1>6. AllOwned' BY <1>2, <1>3, <1>4 DEF KeptInv, AllOwned
<1>7. HeaderIsCurrent' BY <1>1, <1>2 DEF HeaderIsCurrent
<1> QED BY <1>5, <1>6, <1>7 DEF KeptInv

LEMMA OpenAndClosedKept ==
  ASSUME StoreInv, KeptInv, Close \/ Open
  PROVE  KeptInv'
<1>1. /\ Undisturbed(Settled) /\ Settled = handles /\ Settled' = handles
      /\ handles' = handles /\ saved' = saved /\ ~InCall /\ ~InCall'
  BY OpenAndClosedKeeps
<1>2. \/ Idle /\ opened' = FALSE
      \/ ~opened /\ opened' = TRUE /\ available' = saved.available /\ numBlocks' = saved.numBlocks
  BY DEF Close, Open
<1>3. saved = [available |-> saved.available, numBlocks |-> saved.numBlocks] BY TypesAre
<1>4. Owned' = Owned
  <2>1. \A x : x \in Owned' <=> x \in Owned BY <1>1, OwnedIs, OwnedWillBe DEF Undisturbed
  <2> QED BY <2>1
<1>5. FirstKept' /\ UsedFits' BY <1>1 DEF KeptInv, FirstKept, UsedFits
<1>6. CASE Idle /\ opened' = FALSE
  <2>1. opened /\ saved = [available |-> available, numBlocks |-> numBlocks]
    BY <1>6 DEF KeptInv, HeaderIsCurrent, Idle
  <2>2. saved.available = available /\ saved.numBlocks = numBlocks BY <2>1
  <2>3. AllOwned' BY <1>1, <1>4, <1>6, <2>1, <2>2 DEF KeptInv, AllOwned
  <2>4. HeaderIsCurrent' BY <1>6 DEF HeaderIsCurrent, Idle
  <2> QED BY <1>5, <2>3, <2>4 DEF KeptInv
<1>7. CASE ~opened /\ opened' = TRUE /\ available' = saved.available
           /\ numBlocks' = saved.numBlocks
  <2>1. AllOwned' BY <1>4, <1>7 DEF KeptInv, AllOwned
  <2>2. HeaderIsCurrent' BY <1>1, <1>3, <1>7 DEF HeaderIsCurrent
  <2> QED BY <1>5, <2>1, <2>2 DEF KeptInv
<1> QED BY <1>2, <1>6, <1>7

LEMMA StutterKept ==
  ASSUME KeptInv, UNCHANGED vars
  PROVE  KeptInv'
BY DEF KeptInv, vars, memory, FirstKept, UsedFits, AllOwned, Owned, Settled, InCall,
       HeaderIsCurrent, Idle

(* What the object at 0 keeps holds always.                                *)
LEMMA KeptInvAlways == EnoughRoom /\ Kept => (Spec => []KeptInv)
<1> SUFFICES ASSUME EnoughRoom, Kept PROVE Spec => []KeptInv
  OBVIOUS
<1>1. Init => KeptInv
  <2> SUFFICES ASSUME Init PROVE KeptInv OBVIOUS
  <2>1. /\ opened = TRUE /\ available = 0 .. InitUnits - 1 /\ numBlocks = InitUnits
        /\ saved = [available |-> 0 .. InitUnits - 1, numBlocks |-> InitUnits]
        /\ handles = {} /\ call = NoCall
    BY DEF Init
  <2>2. ~InCall /\ Settled = {} BY <2>1 DEF InCall, NoCall, Settled
  <2>3. Owned = {} BY <2>2 DEF Owned
  <2>4. AllOwned BY <2>1, <2>3 DEF AllOwned
  <2> QED BY <2>1, <2>2, <2>4 DEF KeptInv, FirstKept, UsedFits, HeaderIsCurrent
<1>2. StoreInv /\ KeptInv /\ [Next]_vars => KeptInv'
  <2> SUFFICES ASSUME StoreInv, KeptInv, [Next]_vars PROVE KeptInv' OBVIOUS
  <2>1. ASSUME NEW size \in Sizes, Alloc(size) PROVE KeptInv' BY <2>1, AllocKept
  <2>2. ASSUME NEW u \in Units, NEW size \in Sizes, NEW val \in Values, WriteInPlace(u, size, val)
        PROVE  KeptInv'
    BY <2>2, WriteInPlaceKept
  <2>3. ASSUME NEW u \in Units, NEW size \in Sizes, NEW val \in Values, BeginRewrite(u, size, val)
        PROVE  KeptInv'
    BY <2>3, BeginRewriteKept
  <2>4. ASSUME NEW u \in Units, RemoveBlocks(u) PROVE KeptInv' BY <2>4, RemoveBlocksKept
  <2>5. ASSUME TakeFragment PROVE KeptInv' BY <2>5, TakeFragmentKept
  <2>6. ASSUME FinishAlloc PROVE KeptInv' BY <2>6, FinishAllocKept
  <2>7. ASSUME FinishRewrite PROVE KeptInv' BY <2>7, FinishRewriteKept
  <2>8. ASSUME Close \/ Open PROVE KeptInv' BY <2>8, OpenAndClosedKept
  <2>9. ASSUME UNCHANGED vars PROVE KeptInv' BY <2>9, StutterKept
  <2> QED BY <2>1, <2>2, <2>3, <2>4, <2>5, <2>6, <2>7, <2>8, <2>9 DEF Next
<1>3. Spec => []StoreInv BY StoreInvAlways
<1> QED BY <1>1, <1>2, <1>3, PTL DEF Spec

(* Every unit has one owner, always, in memory and in the header file, for *)
(* every size of the units, the file and the objects: where the object at  *)
(* 0 stays and no length is beyond what a used field can hold.             *)
THEOREM EveryUnitHasOneOwner == EnoughRoom /\ Kept => (Spec => []StoreConsistent)
<1> SUFFICES ASSUME EnoughRoom, Kept PROVE Spec => []StoreConsistent
  OBVIOUS
<1>1. StoreInv /\ KeptInv => StoreConsistent
  <2> SUFFICES ASSUME StoreInv, KeptInv PROVE StoreConsistent OBVIOUS
  <2>1. TypeOK /\ (call = NoCall \/ InCall) BY DEF StoreInv, StoreTypes
  <2>2. NeverHangs BY <2>1 DEF NeverHangs, InCall, NoCall, Hung
  <2>3. NothingLost
    <3>1. \A x : x \in UNION {Holds(c) : c \in Chains} <=> x \in Owned
      BY OwnedIs DEF Chains
    <3>2. UNION {Holds(c) : c \in Chains} = Owned BY <3>1
    <3> QED BY <3>2 DEF KeptInv, AllOwned, NothingLost
  <2> QED BY <2>1, <2>2, <2>3, ApartMeansUnshared DEF StoreConsistent, KeptInv
<1>2. Spec => []StoreInv BY StoreInvAlways
<1>3. Spec => []KeptInv BY KeptInvAlways
<1> QED BY <1>1, <1>2, <1>3, PTL

-----------------------------------------------------------------------------
(* Reading.  What a chain uses is what was placed in it.                   *)
LEMMA UsedsAre ==
  ASSUME NEW c \in Seq(BlockSet)
  PROVE  /\ Useds(c) \in Seq(Nat) /\ Len(Useds(c)) = Len(c) /\ Total(Useds(c)) \in Nat
         /\ \A k \in 1 .. Len(c) : Useds(c)[k] = c[k].used
<1>1. Len(c) \in Nat /\ DOMAIN c = 1 .. Len(c) /\ \A k \in 1 .. Len(c) : c[k] \in BlockSet OBVIOUS
<1>2. \A k \in 1 .. Len(c) : c[k].used \in Nat BY <1>1, BlockIs
<1>3. Useds(c) \in [1 .. Len(c) -> Nat] BY <1>1, <1>2 DEF Useds
<1>4. \A k \in 1 .. Len(c) : Useds(c)[k] = c[k].used BY <1>1 DEF Useds
<1>5. Useds(c) \in Seq(Nat) /\ Len(Useds(c)) = Len(c) BY <1>1, <1>3
<1> QED BY <1>4, <1>5, TotalNat

LEMMA UsedsOfNone == Total(Useds(<<>>)) = 0
<1>1. <<>> \in Seq(BlockSet) /\ Len(<<>>) = 0 OBVIOUS
<1>2. Useds(<<>>) \in Seq(Nat) /\ Len(Useds(<<>>)) = 0 BY <1>1, UsedsAre
<1>3. Useds(<<>>) = <<>> BY <1>2
<1> QED BY <1>3, TotalEmpty

LEMMA UsedsOfOneMore ==
  ASSUME NEW c \in Seq(BlockSet), NEW b \in BlockSet
  PROVE  Total(Useds(Append(c, b))) = Total(Useds(c)) + b.used
<1>1. /\ Append(c, b) \in Seq(BlockSet) /\ Len(c) \in Nat /\ Len(Append(c, b)) = Len(c) + 1
      /\ Append(c, b)[Len(c) + 1] = b /\ \A k \in 1 .. Len(c) : Append(c, b)[k] = c[k]
  OBVIOUS
<1> DEFINE s == Useds(c)
           t == Useds(Append(c, b))
           n == Len(c)
<1>2. s \in Seq(Nat) /\ Len(s) = n /\ \A k \in 1 .. n : s[k] = c[k].used
  BY UsedsAre
<1>3. /\ t \in Seq(Nat) /\ Len(t) = n + 1
      /\ \A k \in 1 .. n + 1 : t[k] = Append(c, b)[k].used
  BY <1>1, UsedsAre
<1>4. n \in Nat BY <1>1
<1> HIDE DEF s, t
<1>5. t[n + 1] = b.used BY <1>1, <1>3, <1>4
<1>6. \A k \in 1 .. n : t[k] = s[k]
  <2>1. \A k \in 1 .. n : k \in 1 .. n + 1 BY <1>4
  <2>2. \A k \in 1 .. n : Append(c, b)[k] = c[k] BY <1>1
  <2> QED BY <1>2, <1>3, <2>1, <2>2
<1>7. s \in Seq(Int) /\ t \in Seq(Int) BY <1>2, <1>3
<1> HIDE DEF n
<1> QED BY <1>2, <1>3, <1>4, <1>5, <1>6, <1>7, TotalLonger DEF s, t

LEMMA UsedsFit ==
  ASSUME NEW c, NEW n, Blocks(c, n)
  PROVE  Total(Useds(c)) <= AvailableSize(c)
<1>1. /\ c \in Seq(BlockSet) /\ Len(c) \in Nat
      /\ \A k \in 1 .. Len(c) : c[k].used \in Nat /\ c[k].units = ToBlockUnits(c[k].used)
  BY BlocksAre
<1>2. \A k \in 1 .. Len(c) : c[k].used <= DataSize(c[k].units) BY <1>1, UnitsAreEnough
<1>3. /\ Useds(c) \in Seq(Nat) /\ Len(Useds(c)) = Len(c)
      /\ \A k \in 1 .. Len(c) : Useds(c)[k] = c[k].used
  BY <1>1, UsedsAre
<1>4. /\ Rooms(c) \in Seq(Nat) /\ Len(Rooms(c)) = Len(c) /\ AvailableSize(c) = Total(Rooms(c))
      /\ \A k \in 1 .. Len(c) : Rooms(c)[k] = DataSize(c[k].units)
  BY <1>1, RoomsAre
<1>5. \A k \in 1 .. Len(Useds(c)) : Useds(c)[k] <= Rooms(c)[k] BY <1>2, <1>3, <1>4
<1>6. Total(Useds(c)) <= Total(Rooms(c)) BY <1>3, <1>4, <1>5, TotalLess
<1> QED BY <1>4, <1>6

(* Blocks with enough room take all the bytes.                             *)
LEMMA FilledBytes ==
  ASSUME NEW c, NEW n, Blocks(c, n), NEW length \in Nat, length <= AvailableSize(c),
         AvailableSize(c) - length < UnitSize
  PROVE  /\ Total(Useds(Filled(c, length))) = length
         /\ \A k \in 1 .. Len(Filled(c, length)) : Filled(c, length)[k].used <= length
<1> DEFINE f == Filled(c, length)
           s == Useds(f)
           B(k) == AvailableSize(SubSeq(c, 1, k))
           S(k) == Total(SubSeq(s, 1, k))
           len == Len(c)
<1>1. c \in Seq(BlockSet) /\ len \in Nat /\ \A k \in 1 .. len : c[k].units \in Nat \ {0}
  BY BlocksAre
<1>2. /\ Blocks(f, n) /\ Len(f) = len
      /\ \A k \in 1 .. len : f[k].used = Share(c, length, k)
  BY FilledIs
<1> HIDE DEF f
<1>3. f \in Seq(BlockSet) BY <1>2, BlocksAre
<1>4. s \in Seq(Nat) /\ Len(s) = len /\ \A k \in 1 .. len : s[k] = Share(c, length, k)
  BY <1>2, <1>3, UsedsAre
<1> HIDE DEF s
<1>5. ASSUME NEW k \in 1 .. len
      PROVE  /\ S(k - 1) \in Nat /\ S(k) = S(k - 1) + s[k]
             /\ B(k - 1) \in Nat /\ B(k) = B(k - 1) + DataSize(c[k].units)
             /\ DataSize(c[k].units) \in Nat
             /\ s[k] = Minimum(IF length > B(k - 1) THEN length - B(k - 1) ELSE 0, DataSize(c[k].units))
  <2>1. k \in 1 .. Len(s) BY <1>4
  <2>2. S(k - 1) \in Nat /\ S(k) = S(k - 1) + s[k] BY <1>4, <2>1, TotalPrefix
  <2>3. B(k - 1) \in Nat /\ B(k) = B(k - 1) + DataSize(c[k].units) BY <1>1, RoomOfFirst
  <2>4. DataSize(c[k].units) \in Nat BY <1>1, DataSizeIs
  <2> QED BY <1>4, <2>2, <2>3, <2>4 DEF Share
<1>6. S(0) = 0 /\ B(0) = 0
  <2>1. SubSeq(s, 1, 0) = <<>> /\ SubSeq(c, 1, 0) = <<>> BY <1>1, <1>4
  <2> QED BY <2>1, TotalEmpty, RoomOfNone
<1>7. S(len) = Total(s) /\ B(len) = AvailableSize(c)
  <2>1. SubSeq(s, 1, len) = s /\ SubSeq(c, 1, len) = c BY <1>1, <1>4
  <2> QED BY <2>1
<1> HIDE DEF S, B, len
<1> DEFINE T == {k \in Nat : k <= len => S(k) = Minimum(length, B(k)) /\ B(k) \in Nat}
<1>8. 0 \in T BY <1>6 DEF Minimum
<1>9. ASSUME NEW k \in Nat, k \in T PROVE k + 1 \in T
  <2> SUFFICES ASSUME k + 1 <= len PROVE S(k + 1) = Minimum(length, B(k + 1)) /\ B(k + 1) \in Nat
    OBVIOUS
  <2>1. k + 1 \in 1 .. len /\ (k + 1) - 1 = k /\ S(k) = Minimum(length, B(k)) /\ B(k) \in Nat
    BY <1>1, <1>9
  <2> DEFINE R == DataSize(c[k + 1].units)
             x == s[k + 1]
             b == B(k)
  <2>2. /\ S(k + 1) = S(k) + x /\ B(k + 1) = b + R /\ R \in Nat
        /\ x = Minimum(IF length > b THEN length - b ELSE 0, R)
    BY <1>5, <2>1
  <2> HIDE DEF R, x, b
  <2>3. b \in Nat /\ S(k) = Minimum(length, b) BY <2>1 DEF b
  <2>4. S(k) + x = Minimum(length, b + R) BY <2>2, <2>3 DEF Minimum
  <2> QED BY <2>2, <2>3, <2>4
<1>10. Nat \subseteq T
  <2> HIDE DEF T
  <2> QED BY <1>8, <1>9, NatUpwards
<1>11. S(len) = Minimum(length, B(len)) /\ B(len) \in Nat BY <1>1, <1>10
<1>12. Total(s) = length BY <1>7, <1>11 DEF Minimum
<1>13. \A k \in 1 .. len : f[k].used <= length
  <2> SUFFICES ASSUME NEW k \in 1 .. len PROVE f[k].used <= length OBVIOUS
  <2> DEFINE R == DataSize(c[k].units)
             b == B(k - 1)
  <2>1. b \in Nat /\ R \in Nat BY <1>5
  <2>2. f[k].used = Minimum(IF length > b THEN length - b ELSE 0, R) BY <1>2, <1>4, <1>5
  <2> HIDE DEF R, b
  <2> QED BY <2>1, <2>2 DEF Minimum
<1> QED BY <1>2, <1>12, <1>13 DEF f, s

(* A write leaves its value in every unit of the blocks.                   *)
LEMMA WrittenVal ==
  ASSUME NEW c, NEW n \in 0 .. MaxUnits, Blocks(c, n), ~Failing(c), NEW d, NEW val
  PROVE  \A x \in Holds(c) : WriteBack(d, c, val)[x].val = val
<1>1. DOMAIN c = 1 .. Len(c) /\ Len(c) \in Nat /\ Holds(c) \subseteq 0 .. n - 1 BY BlocksAre
<1>2. Storable(c) = DOMAIN c BY DEF Failing
<1> SUFFICES ASSUME NEW x \in Holds(c) PROVE WriteBack(d, c, val)[x].val = val
  OBVIOUS
<1>3. x \in Units BY <1>1, StoreAssumption DEF Units
<1>4. PICK j \in 1 .. Len(c) : x \in UnitsOf(c[j]) BY <1>1 DEF Holds
<1> DEFINE ks == {k \in Storable(c) : x \in UnitsOf(c[k])}
           k == CHOOSE k \in ks : \A i \in ks : i <= k
           next == IF k < Len(c) THEN c[k + 1].pos ELSE 0
<1>5. ks # {} BY <1>1, <1>2, <1>4
<1>6. WriteBack(d, c, val)[x] = IF x = c[k].pos THEN Cell(c[k].used, next, val) ELSE Cell(Inside, 0, val)
  BY <1>3, <1>5 DEF WriteBack
<1> HIDE DEF k, next
<1> QED BY <1>6 DEF Cell

(* The values that an object reads from.                                   *)
Vals(d, c) ==
  UNION {{d[w].val : w \in UnitsOf(c[k]) \cap Units} : k \in {k \in DOMAIN c : c[k].used > 0}}

LEMMA ObjectAtIs ==
  ASSUME NEW d, NEW u
  PROVE  ObjectAt(d, u) =
           [size |-> Total(Useds(BlockList(d, u))),
            val  |-> IF \E v \in Values : Vals(d, BlockList(d, u)) = {v}
                     THEN CHOOSE v \in Vals(d, BlockList(d, u)) : TRUE ELSE "mixed"]
BY DEF ObjectAt, Useds, Vals

(* An object nobody touched reads as before.                               *)
LEMMA ObjectReadsSame ==
  ASSUME NEW d, NEW e, NEW u, BlockList(e, u) = BlockList(d, u),
         \A x \in Holds(BlockList(d, u)) : e[x] = d[x]
  PROVE  ObjectAt(e, u) = ObjectAt(d, u)
<1> DEFINE c == BlockList(d, u)
<1>1. \A k \in DOMAIN c : UnitsOf(c[k]) \subseteq Holds(c) BY DEF Holds
<1>2. BlockList(e, u) = c /\ \A x \in Holds(c) : e[x] = d[x] OBVIOUS
<1>3. ObjectAt(d, u) = [size |-> Total(Useds(c)),
                        val  |-> IF \E v \in Values : Vals(d, c) = {v}
                                 THEN CHOOSE v \in Vals(d, c) : TRUE ELSE "mixed"]
  BY ObjectAtIs
<1> HIDE DEF c
<1>4. ObjectAt(e, u) = [size |-> Total(Useds(c)),
                        val  |-> IF \E v \in Values : Vals(e, c) = {v}
                                 THEN CHOOSE v \in Vals(e, c) : TRUE ELSE "mixed"]
  BY <1>2, ObjectAtIs
<1>5. Vals(e, c) = Vals(d, c)
  <2>1. \A k \in DOMAIN c : {e[w].val : w \in UnitsOf(c[k]) \cap Units}
                              = {d[w].val : w \in UnitsOf(c[k]) \cap Units}
    BY <1>1, <1>2
  <2> QED BY <2>1 DEF Vals
<1> QED BY <1>3, <1>4, <1>5

(* A chain whose units hold one value reads as its bytes of that value.    *)
LEMMA ObjectReads ==
  ASSUME NEW e, NEW u, NEW c, NEW n \in 0 .. MaxUnits, BlockList(e, u) = c, Blocks(c, n),
         NEW size \in Nat \ {0}, Total(Useds(c)) = size,
         NEW v \in Values, \A x \in Holds(c) : e[x].val = v
  PROVE  ObjectAt(e, u) = [size |-> size, val |-> v]
<1>1. /\ c \in Seq(BlockSet) /\ DOMAIN c = 1 .. Len(c) /\ Holds(c) \subseteq 0 .. n - 1
      /\ \A k \in 1 .. Len(c) : /\ c[k].pos \in UnitsOf(c[k]) /\ UnitsOf(c[k]) \subseteq Holds(c)
                                /\ c[k].pos \in Units /\ c[k].used \in Nat
  BY BlocksAre
<1>2. PICK k \in 1 .. Len(c) : c[k].used > 0
  <2>1. /\ Useds(c) \in Seq(Nat) /\ Len(Useds(c)) = Len(c)
        /\ \A k \in 1 .. Len(c) : Useds(c)[k] = c[k].used
    BY <1>1, UsedsAre
  <2>2. \E k \in 1 .. Len(Useds(c)) : Useds(c)[k] # 0 BY <2>1, TotalPositive
  <2> QED BY <1>1, <2>1, <2>2
<1>3. Vals(e, c) = {v}
  <2>1. \A x \in Vals(e, c) : x = v BY <1>1 DEF Vals
  <2> DEFINE S(j) == {e[w].val : w \in UnitsOf(c[j]) \cap Units}
             K == {j \in DOMAIN c : c[j].used > 0}
  <2>2. e[c[k].pos].val \in S(k) BY <1>1
  <2>3. k \in K BY <1>1, <1>2
  <2>4. Vals(e, c) = UNION {S(j) : j \in K} BY DEF Vals
  <2> HIDE DEF S, K
  <2>5. e[c[k].pos].val \in Vals(e, c) BY <2>2, <2>3, <2>4
  <2> QED BY <2>1, <2>5
<1>4. (CHOOSE x \in Vals(e, c) : TRUE) = v BY <1>3
<1>5. (IF \E x \in Values : Vals(e, c) = {x} THEN CHOOSE x \in Vals(e, c) : TRUE ELSE "mixed") = v
  BY <1>3, <1>4
<1> QED BY <1>5, ObjectAtIs

(* A chain none of whose blocks but the first is at 0 is read whole.       *)
LEMMA WholeChain ==
  ASSUME NEW d, NEW c, NEW n \in 0 .. MaxUnits, Blocks(c, n), c # <<>>, ~Failing(c), NEW val,
         \A k \in DOMAIN c : k > 1 => c[k].pos # 0
  PROVE  /\ Chain(WriteBack(d, c, val), c[1].pos, c, n)
         /\ BlockList(WriteBack(d, c, val), c[1].pos) = c
<1>1. OnDisk(WriteBack(d, c, val), c) BY WrittenIsOnDisk
<1>2. Chain(WriteBack(d, c, val), c[1].pos, c, n) BY <1>1 DEF Chain
<1> QED BY <1>2, ChainIsRead

LEMMA FittingIsStorable ==
  ASSUME NEW c \in Seq(BlockSet), \A k \in 1 .. Len(c) : c[k].used <= MaxUsed
  PROVE  ~Failing(c)
<1>1. Len(c) \in Nat /\ DOMAIN c = 1 .. Len(c) OBVIOUS
<1>2. \A k \in 1 .. Len(c) : \A j \in 1 .. k : j \in 1 .. Len(c) BY <1>1
<1>3. Storable(c) = DOMAIN c BY <1>1, <1>2 DEF Storable
<1> QED BY <1>3 DEF Failing

(* A write of bytes that fit is what is read back.                         *)
LEMMA FilledReads ==
  ASSUME NEW d, NEW u, NEW c, NEW n \in 0 .. MaxUnits, Chain(d, u, c, n),
         NEW size \in Nat \ {0}, size <= MaxUsed, size <= AvailableSize(c),
         AvailableSize(c) - size < UnitSize, NEW val \in Values
  PROVE  ObjectAt(WriteBack(d, Filled(c, size), val), u) = [size |-> size, val |-> val]
<1> DEFINE f == Filled(c, size)
           e == WriteBack(d, f, val)
<1>1. Blocks(c, n) /\ c # <<>> /\ c[1].pos = u /\ \A k \in DOMAIN c : k > 1 => c[k].pos # 0
  BY DEF Chain
<1>2. c \in Seq(BlockSet) /\ Len(c) \in Nat /\ DOMAIN c = 1 .. Len(c) BY <1>1, BlocksAre
<1>3. /\ Blocks(f, n) /\ Len(f) = Len(c)
      /\ \A k \in 1 .. Len(c) : f[k].pos = c[k].pos
  BY <1>1, FilledIs
<1>4. Total(Useds(f)) = size /\ \A k \in 1 .. Len(f) : f[k].used <= size
  BY <1>1, FilledBytes
<1> HIDE DEF f
<1>5. f \in Seq(BlockSet) /\ DOMAIN f = 1 .. Len(c) /\ \A k \in 1 .. Len(f) : f[k].used \in Nat
  BY <1>3, BlocksAre
<1>6. \A k \in 1 .. Len(f) : f[k].used <= MaxUsed BY <1>4, <1>5, StoreAssumption
<1>7. ~Failing(f) BY <1>5, <1>6, FittingIsStorable
<1>8. 1 \in 1 .. Len(c) BY <1>1, <1>2
<1>9. f # <<>> /\ f[1].pos = u /\ \A k \in DOMAIN f : k > 1 => f[k].pos # 0
  BY <1>1, <1>2, <1>3, <1>5, <1>8
<1>10. BlockList(e, u) = f BY <1>3, <1>7, <1>9, WholeChain
<1>11. \A x \in Holds(f) : e[x].val = val BY <1>3, <1>7, WrittenVal
<1> HIDE DEF e
<1>12. ObjectAt(e, u) = [size |-> size, val |-> val]
  BY <1>3, <1>4, <1>10, <1>11, ObjectReads
<1> QED BY <1>12 DEF e, f

-----------------------------------------------------------------------------
(* The store as its clients see it, and what each action does to it.       *)
At(u) == IF call.kind = "realloc" /\ u = call.fpos THEN call.old ELSE ObjectAt(disk, u)
Contents == [u \in handles |-> At(u)]
AbstractStep == [Abstract!Next]_Contents

Reads == Kept /\ 0 \notin Sizes

LEMMA SettledAt ==
  /\ \A u \in Settled : u \in handles /\ At(u) = ObjectAt(disk, u)
  /\ \A u \in Settled' : u \in handles' /\ At(u)' = ObjectAt(disk', u)
BY DEF Settled, At, InCall

LEMMA NoCallAt ==
  /\ ~InCall => Settled = handles /\ call.kind # "realloc"
  /\ ~InCall' => Settled' = handles' /\ call'.kind # "realloc"
BY DEF Settled, InCall

LEMMA UndisturbedReads ==
  ASSUME NEW V, Undisturbed(V), NEW u \in V
  PROVE  ObjectAt(disk', u) = ObjectAt(disk, u)
BY ObjectReadsSame DEF Undisturbed

LEMMA SameContents ==
  ASSUME handles' = handles, \A u \in handles : At(u)' = At(u)
  PROVE  Contents' = Contents /\ AbstractStep
BY DEF Contents, AbstractStep

LEMMA AllocReads ==
  ASSUME StoreInv, ReadInv, EnoughRoom, NEW size \in Sizes, Alloc(size)
  PROVE  ReadInv' /\ AbstractStep
<1>1. Undisturbed(handles) /\ Settled' = handles /\ Began(available, size) BY AllocKeeps
<1>2. Settled = handles /\ ~InCall /\ handles' = handles BY <1>1 DEF Began
<1>3. /\ call'.kind = "alloc" /\ call'.size = size /\ call'.remain = size /\ call'.blocks = <<>>
  BY DEF Alloc, Begin
<1>4. \A u \in handles : ObjectAt(disk', u) = ObjectAt(disk, u) BY <1>1, UndisturbedReads
<1>5. \A u \in handles : At(u)' = At(u) BY <1>1, <1>2, <1>4, SettledAt
<1>6. size \in Nat /\ size - size = 0 BY StoreAssumption
<1>7. ReadInv' BY <1>1, <1>2, <1>3, <1>4, <1>6, UsedsOfNone DEF ReadInv
<1> QED BY <1>2, <1>5, <1>7, SameContents

LEMMA BeginRewriteReads ==
  ASSUME StoreInv, ReadInv, EnoughRoom, NEW u, NEW size \in Sizes, NEW val \in Values,
         BeginRewrite(u, size, val)
  PROVE  ReadInv' /\ AbstractStep
<1>1. /\ Undisturbed(handles \ {u}) /\ Settled' = handles \ {u} /\ u \in handles
      /\ Began(available \cup Holds(BlockList(disk, u)), size)
  BY BeginRewriteKeeps
<1>2. Settled = handles /\ ~InCall /\ handles' = handles BY <1>1 DEF Began
<1>3. /\ call'.kind = "realloc" /\ call'.size = size /\ call'.remain = size /\ call'.blocks = <<>>
      /\ call'.fpos = u /\ call'.old = ObjectAt(disk, u)
  BY DEF BeginRewrite, Begin
<1>4. \A w \in handles \ {u} : ObjectAt(disk', w) = ObjectAt(disk, w) BY <1>1, UndisturbedReads
<1>5. \A w \in handles : At(w)' = At(w)
  <2>1. At(u)' = ObjectAt(disk, u) /\ At(u) = ObjectAt(disk, u) BY <1>1, <1>2, <1>3, SettledAt DEF At
  <2>2. \A w \in handles \ {u} : At(w)' = At(w) BY <1>1, <1>2, <1>4, SettledAt
  <2> QED BY <2>1, <2>2
<1>6. size \in Nat /\ size - size = 0 BY StoreAssumption
<1>7. ReadInv' BY <1>1, <1>2, <1>3, <1>4, <1>6, UsedsOfNone DEF ReadInv
<1> QED BY <1>2, <1>5, <1>7, SameContents

LEMMA TakeFragmentReads ==
  ASSUME StoreInv, ReadInv, TakeFragment
  PROVE  ReadInv' /\ AbstractStep
<1>1. PICK b : Fragment(b) BY TakesFragment
<1>2. /\ Settled' = Settled /\ InCall /\ InCall'
      /\ call'.kind = call.kind /\ call'.fpos = call.fpos /\ call'.size = call.size
      /\ call'.remain = call.remain - b.used /\ call'.blocks = Append(call.blocks, b)
      /\ call.blocks \in Seq(BlockSet) /\ b \in BlockSet
  BY <1>1, TakeFragmentKeeps
<1>3. disk' = disk /\ handles' = handles BY DEF TakeFragment
<1>4. call'.old = call.old BY <1>1, TakeFragmentKeeps
<1>5. \A u \in handles : At(u)' = At(u) BY <1>2, <1>3, <1>4 DEF At
<1>6. Total(Useds(call'.blocks)) = call'.size - call'.remain
  <2> DEFINE s == call.size
             r == call.remain
             t == Total(Useds(call.blocks))
  <2>1. s \in Nat /\ r \in Nat /\ b.used \in Nat /\ t = s - r
    BY <1>2, BlockIs, StoreAssumption DEF StoreInv, CallFits, CallKinds, ReadInv
  <2>2. Total(Useds(call'.blocks)) = t + b.used BY <1>2, UsedsOfOneMore
  <2>3. call'.size = s /\ call'.remain = r - b.used BY <1>2
  <2> HIDE DEF s, r, t
  <2> QED BY <2>1, <2>2, <2>3
<1>7. ReadInv' BY <1>2, <1>3, <1>4, <1>6 DEF ReadInv
<1> QED BY <1>3, <1>5, <1>7, SameContents

(* The blocks of a call that ends can be stored and read back.             *)
LEMMA CallStores ==
  ASSUME StoreInv, KeptInv, ReadInv, Reads, InCall, call.blocks # <<>>, call.remain <= 0
  PROVE  /\ ~Failing(call.blocks) /\ \A k \in DOMAIN call.blocks : k > 1 => call.blocks[k].pos # 0
         /\ call.size \in Sizes /\ call.size \in Nat \ {0} /\ call.size <= MaxUsed
         /\ Total(Useds(call.blocks)) = call.size
         /\ Blocks(call.blocks, numBlocks) /\ numBlocks \in 0 .. MaxUnits
         /\ call.blocks[1].pos \in Units /\ call.blocks[1].pos \notin Settled
         /\ call.size <= AvailableSize(call.blocks)
<1>1. /\ opened /\ numBlocks \in 0 .. MaxUnits /\ Blocks(call.blocks, numBlocks) /\ call.remain \in Nat
  BY CallIs
<1>2. CallKinds /\ CallBlocks BY DEF StoreInv, CallFits
<1>3. /\ call.blocks \in Seq(BlockSet) /\ Len(call.blocks) \in Nat
      /\ DOMAIN call.blocks = 1 .. Len(call.blocks)
      /\ \A k \in 1 .. Len(call.blocks) : /\ call.blocks[k].pos \in UnitsOf(call.blocks[k])
                                          /\ call.blocks[k].pos \in Units
                                          /\ UnitsOf(call.blocks[k]) \subseteq Holds(call.blocks)
  BY <1>1, BlocksAre
<1>4. ~Failing(call.blocks) BY <1>3, FittingIsStorable DEF KeptInv, UsedFits
<1>5. call.size \in Sizes /\ call.size \in Nat \ {0} /\ call.size <= MaxUsed
  BY <1>2, StoreAssumption DEF CallKinds, Reads, Kept
<1>6. Total(Useds(call.blocks)) = call.size
  <2>1. call.remain = 0 BY <1>1
  <2> QED BY <1>5, <2>1 DEF ReadInv
<1>7. 1 \in 1 .. Len(call.blocks) BY <1>3
<1>8. call.blocks[1].pos \in Holds(call.blocks) BY <1>3, <1>7
<1>9. call.blocks[1].pos \notin Settled
  <2> SUFFICES ASSUME call.blocks[1].pos \in Settled PROVE FALSE OBVIOUS
  <2>1. call.blocks[1].pos \in Holds(BlockList(disk, call.blocks[1].pos)) BY ObjectIs
  <2> QED BY <1>2, <1>8, <2>1 DEF CallBlocks
<1>10. call.size <= AvailableSize(call.blocks) BY <1>1, <1>6, UsedsFit
<1> QED BY <1>1, <1>3, <1>4, <1>5, <1>6, <1>7, <1>9, <1>10 DEF KeptInv, FirstKept

LEMMA FinishAllocReads ==
  ASSUME StoreInv, KeptInv, ReadInv, Reads, FinishAlloc, NEW u, u = call.blocks[1].pos
  PROVE  /\ ReadInv' /\ AbstractStep
         /\ ObjectAt(disk', u) = [size |-> call.size, val |-> Zero]
<1> DEFINE blocks == call.blocks
<1>1. /\ Undisturbed(Settled) /\ Settled' = handles' /\ ~InCall' /\ InCall /\ CallEnded
  BY FinishAllocKeeps
<1>2. /\ call.kind = "alloc" /\ call.remain <= 0 /\ blocks # <<>>
      /\ disk' = WriteBack(disk, blocks, Zero) /\ call' = NoCall
  BY DEF FinishAlloc
<1>3. /\ ~Failing(blocks) /\ \A k \in DOMAIN blocks : k > 1 => blocks[k].pos # 0
      /\ call.size \in Sizes /\ call.size \in Nat \ {0} /\ Total(Useds(blocks)) = call.size
      /\ Blocks(blocks, numBlocks) /\ numBlocks \in 0 .. MaxUnits
      /\ u \in Units /\ u \notin Settled /\ blocks[1].pos = u
  BY <1>1, <1>2, CallStores
<1>4. Settled = handles BY <1>1, <1>2, CallIs
<1>5. handles' = handles \cup {u} BY <1>1, <1>3, <1>4 DEF CallEnded
<1>6. ObjectAt(disk', u) = [size |-> call.size, val |-> Zero]
  <2>1. BlockList(disk', u) = blocks BY <1>2, <1>3, WholeChain
  <2>2. \A x \in Holds(blocks) : disk'[x].val = Zero BY <1>2, <1>3, WrittenVal
  <2>3. Zero \in Values BY StoreAssumption
  <2> HIDE DEF blocks
  <2> QED BY <1>3, <2>1, <2>2, <2>3, ObjectReads
<1>7. \A w \in handles : ObjectAt(disk', w) = ObjectAt(disk, w) BY <1>1, <1>4, UndisturbedReads
<1>8. Zero \in Values /\ [size |-> call.size, val |-> Zero] \in [size : Sizes, val : {Zero}]
  BY <1>3, StoreAssumption
<1>9. ReadInv'
  <2>1. \A w \in handles' : ObjectAt(disk', w) \in ObjectSet
    BY <1>3, <1>4, <1>5, <1>6, <1>7, <1>8 DEF ReadInv, ObjectSet
  <2>2. call'.kind # "realloc" BY <1>2 DEF NoCall
  <2> QED BY <1>1, <2>1, <2>2 DEF ReadInv
<1>10. /\ u \notin DOMAIN Contents /\ DOMAIN Contents' = DOMAIN Contents \cup {u}
       /\ Contents'[u] \in [size : Sizes, val : {Zero}]
       /\ \A w \in DOMAIN Contents : Contents'[w] = Contents[w]
  <2>1. DOMAIN Contents = handles /\ DOMAIN Contents' = handles'
        /\ (\A w \in handles : Contents[w] = At(w)) /\ \A w \in handles' : Contents'[w] = At(w)'
    BY DEF Contents
  <2>2. (\A w \in handles : At(w) = ObjectAt(disk, w)) /\ \A w \in handles' : At(w)' = ObjectAt(disk', w)
    BY <1>1, <1>4, SettledAt
  <2> QED BY <1>3, <1>4, <1>5, <1>6, <1>7, <1>8, <2>1, <2>2
<1>11. Abstract!Alloc(u)
  <2> QED BY <1>10 DEF Abstract!Alloc, Abstract!Keeps, Contents, At
<1>12. AbstractStep
  <2>1. u \in Units BY <1>3
  <2> QED BY <2>1, <1>11 DEF AbstractStep, Abstract!Next
<1> QED BY <1>6, <1>9, <1>12

LEMMA AbstractWrite ==
  ASSUME NEW u \in Units, u \in handles, handles' = handles,
         At(u)' \in ObjectSet, \A w \in handles \ {u} : At(w)' = At(w)
  PROVE  AbstractStep
<1>1. /\ u \in DOMAIN Contents /\ DOMAIN Contents' = DOMAIN Contents
      /\ Contents'[u] \in [size : Sizes, val : Values]
      /\ \A w \in DOMAIN Contents \ {u} : Contents'[w] = Contents[w]
  BY DEF Contents, ObjectSet
<1>2. Abstract!Write(u) BY <1>1 DEF Abstract!Write, Abstract!Keeps, Contents, At
<1> QED BY <1>2 DEF AbstractStep, Abstract!Next

LEMMA FinishRewriteReads ==
  ASSUME StoreInv, KeptInv, ReadInv, Reads, FinishRewrite, NEW u, u = call.fpos
  PROVE  /\ ReadInv' /\ AbstractStep
         /\ ObjectAt(disk', u) = [size |-> call.size, val |-> call.val]
<1> DEFINE blocks == call.blocks
           empty == WriteBack(disk, blocks, Zero)
           filled == Filled(BlockList(empty, u), call.size)
<1>1. /\ Undisturbed(Settled) /\ Settled' = handles' /\ ~InCall' /\ InCall /\ CallEnded
  BY FinishRewriteKeeps
<1>2. /\ call.kind = "realloc" /\ call.remain <= 0 /\ blocks # <<>> /\ call' = NoCall
      /\ ~Failing(blocks) => disk' = WriteBack(empty, filled, call.val) /\ handles' = handles
  BY DEF FinishRewrite
<1>3. /\ ~Failing(blocks) /\ \A k \in DOMAIN blocks : k > 1 => blocks[k].pos # 0
      /\ call.size \in Sizes /\ call.size \in Nat \ {0} /\ call.size <= MaxUsed
      /\ Blocks(blocks, numBlocks) /\ numBlocks \in 0 .. MaxUnits
      /\ blocks[1].pos \in Units /\ call.size <= AvailableSize(blocks)
  BY <1>1, <1>2, CallStores
<1>4. /\ blocks[1].pos = u /\ u \in handles /\ Settled = handles \ {u} /\ call.val \in Values
      /\ AvailableSize(blocks) - call.size < UnitSize
  BY <1>1, <1>2, CallIs
<1>5. ObjectAt(disk', u) = [size |-> call.size, val |-> call.val]
  <2>1. Chain(empty, u, blocks, numBlocks) /\ BlockList(empty, u) = blocks
    BY <1>2, <1>3, <1>4, WholeChain
  <2>2. disk' = WriteBack(empty, Filled(blocks, call.size), call.val) BY <1>2, <1>3, <2>1
  <2> HIDE DEF blocks, empty
  <2> QED BY <1>3, <1>4, <2>1, <2>2, FilledReads
<1>6. handles' = handles BY <1>2, <1>3
<1>7. \A w \in handles \ {u} : ObjectAt(disk', w) = ObjectAt(disk, w)
  BY <1>1, <1>4, UndisturbedReads
<1>8. ObjectAt(disk', u) \in ObjectSet BY <1>3, <1>4, <1>5 DEF ObjectSet
<1>9. ReadInv'
  <2>1. \A w \in handles' : ObjectAt(disk', w) \in ObjectSet
    <3> QED BY <1>4, <1>6, <1>7, <1>8 DEF ReadInv
  <2>2. call'.kind # "realloc" BY <1>2 DEF NoCall
  <2> QED BY <1>1, <2>1, <2>2 DEF ReadInv
<1>10. At(u)' \in ObjectSet /\ \A w \in handles \ {u} : At(w)' = At(w)
  <2>1. \A w \in handles : At(w)' = ObjectAt(disk', w) BY <1>1, <1>6, SettledAt
  <2>2. \A w \in handles \ {u} : At(w) = ObjectAt(disk, w) BY <1>4, SettledAt
  <2>3. At(u)' = ObjectAt(disk', u)
    <3>1. call'.kind # "realloc" BY <1>2 DEF NoCall
    <3> QED BY <1>2, <1>4, <2>1 DEF At
  <2> QED BY <1>7, <1>8, <2>1, <2>2, <2>3
<1>11. AbstractStep
  <2>1. u \in Units BY <1>3, <1>4
  <2>2. u \in handles BY <1>4
  <2> QED BY <1>6, <1>10, <2>1, <2>2, AbstractWrite
<1> QED BY <1>5, <1>9, <1>11

LEMMA WriteInPlaceReads ==
  ASSUME StoreInv, ReadInv, Reads, NEW u \in Units, NEW size \in Sizes, NEW val \in Values,
         WriteInPlace(u, size, val)
  PROVE  /\ ReadInv' /\ AbstractStep
         /\ ObjectAt(disk', u) = [size |-> size, val |-> val]
<1> DEFINE c == BlockList(disk, u)
<1>1. /\ Undisturbed(handles \ {u}) /\ Settled = handles /\ Settled' = handles /\ u \in handles
  BY WriteInPlaceKeeps
<1>2. /\ Idle /\ ~NeedRealloc(c, size) /\ disk' = WriteBack(disk, Filled(c, size), val)
      /\ handles' = handles /\ call' = call
  BY DEF WriteInPlace
<1>3. /\ ~InCall /\ call = NoCall /\ opened /\ numBlocks = saved.numBlocks
      /\ numBlocks \in 1 .. MaxUnits
      /\ Objects(handles, disk, numBlocks, saved.available \cup available)
  BY <1>2, IdleIs
<1>4. Chain(disk, u, c, numBlocks) /\ numBlocks \in 0 .. MaxUnits
  <2>1. 1 .. MaxUnits \subseteq 0 .. MaxUnits OBVIOUS
  <2> QED BY <1>1, <1>3, <2>1, ObjectIs
<1>5. size \in Nat \ {0} /\ size <= MaxUsed BY StoreAssumption DEF Reads, Kept
<1>6. size <= AvailableSize(c) /\ AvailableSize(c) - size < UnitSize
  <2>1. AvailableSize(c) \in Nat BY <1>4, BlocksAre, RoomsAre DEF Chain
  <2> HIDE DEF c
  <2> QED BY <1>2, <1>5, <2>1, StoreAssumption DEF NeedRealloc
<1>7. ObjectAt(disk', u) = [size |-> size, val |-> val]
  <2> HIDE DEF c
  <2> QED BY <1>2, <1>4, <1>5, <1>6, FilledReads
<1>8. \A w \in handles \ {u} : ObjectAt(disk', w) = ObjectAt(disk, w) BY <1>1, UndisturbedReads
<1>9. ObjectAt(disk', u) \in ObjectSet BY <1>7 DEF ObjectSet
<1>10. call.kind # "realloc" /\ call'.kind # "realloc" /\ ~InCall' BY <1>2, <1>3 DEF NoCall, InCall
<1>11. ReadInv' BY <1>1, <1>8, <1>9, <1>10 DEF ReadInv
<1>12. At(u)' \in ObjectSet /\ \A w \in handles \ {u} : At(w)' = At(w)
  BY <1>8, <1>9, <1>10 DEF At
<1> QED BY <1>1, <1>2, <1>7, <1>11, <1>12, AbstractWrite

LEMMA RemoveBlocksReads ==
  ASSUME StoreInv, ReadInv, NEW u \in Units, RemoveBlocks(u)
  PROVE  ReadInv' /\ AbstractStep
<1>1. /\ Undisturbed(handles \ {u}) /\ Settled = handles /\ Settled' = handles \ {u}
      /\ u \in handles /\ Idle
  BY RemoveBlocksKeeps
<1>2. handles' = handles \ {u} /\ call' = call BY DEF RemoveBlocks
<1>3. call.kind # "realloc" /\ call'.kind # "realloc" /\ ~InCall'
  BY <1>1, <1>2 DEF Idle, NoCall, InCall
<1>4. \A w \in handles \ {u} : ObjectAt(disk', w) = ObjectAt(disk, w) BY <1>1, UndisturbedReads
<1>5. ReadInv' BY <1>1, <1>3, <1>4 DEF ReadInv
<1>6. \A w \in handles \ {u} : At(w)' = At(w) BY <1>3, <1>4 DEF At
<1>7. /\ u \in DOMAIN Contents /\ DOMAIN Contents' = DOMAIN Contents \ {u}
      /\ \A w \in DOMAIN Contents \ {u} : Contents'[w] = Contents[w]
  BY <1>1, <1>2, <1>6 DEF Contents
<1>8. Abstract!Remove(u) BY <1>7 DEF Abstract!Remove, Abstract!Keeps, Contents, At
<1> QED BY <1>5, <1>8 DEF AbstractStep, Abstract!Next

LEMMA OpenAndClosedReads ==
  ASSUME StoreInv, ReadInv, Close \/ Open
  PROVE  ReadInv' /\ AbstractStep
<1>1. /\ Settled = handles /\ Settled' = handles /\ handles' = handles /\ ~InCall /\ ~InCall'
  BY OpenAndClosedKeeps
<1>2. disk' = disk BY DEF Close, Open
<1>3. \A u \in handles : At(u)' = At(u) BY <1>1, <1>2, SettledAt
<1>4. ReadInv' BY <1>1, <1>2, NoCallAt DEF ReadInv
<1> QED BY <1>1, <1>3, <1>4, SameContents

LEMMA StutterReads ==
  ASSUME ReadInv, UNCHANGED vars
  PROVE  ReadInv' /\ AbstractStep
<1>1. disk' = disk /\ handles' = handles /\ call' = call BY DEF vars
<1>2. InCall' = InCall /\ Settled' = Settled BY <1>1 DEF InCall, Settled
<1>3. ReadInv' BY <1>1, <1>2 DEF ReadInv
<1>4. \A u \in handles : At(u)' = At(u) BY <1>1 DEF At
<1> QED BY <1>1, <1>3, <1>4, SameContents

LEMMA NextReads ==
  ASSUME EnoughRoom, Reads, StoreInv, KeptInv, ReadInv, [Next]_vars
  PROVE  ReadInv' /\ AbstractStep
<1>1. ASSUME NEW size \in Sizes, Alloc(size) PROVE ReadInv' /\ AbstractStep
  BY <1>1, AllocReads
<1>2. ASSUME NEW u \in Units, NEW size \in Sizes, NEW val \in Values, WriteInPlace(u, size, val)
      PROVE  ReadInv' /\ AbstractStep
  BY <1>2, WriteInPlaceReads
<1>3. ASSUME NEW u \in Units, NEW size \in Sizes, NEW val \in Values, BeginRewrite(u, size, val)
      PROVE  ReadInv' /\ AbstractStep
  BY <1>3, BeginRewriteReads
<1>4. ASSUME NEW u \in Units, RemoveBlocks(u) PROVE ReadInv' /\ AbstractStep
  BY <1>4, RemoveBlocksReads
<1>5. ASSUME TakeFragment PROVE ReadInv' /\ AbstractStep BY <1>5, TakeFragmentReads
<1>6. ASSUME FinishAlloc PROVE ReadInv' /\ AbstractStep BY <1>6, FinishAllocReads
<1>7. ASSUME FinishRewrite PROVE ReadInv' /\ AbstractStep BY <1>7, FinishRewriteReads
<1>8. ASSUME Close \/ Open PROVE ReadInv' /\ AbstractStep BY <1>8, OpenAndClosedReads
<1>9. ASSUME UNCHANGED vars PROVE ReadInv' /\ AbstractStep BY <1>9, StutterReads
<1> QED BY <1>1, <1>2, <1>3, <1>4, <1>5, <1>6, <1>7, <1>8, <1>9 DEF Next

(* The store's three invariants together, from the first state on.         *)
LEMMA ReadInvAlways == EnoughRoom /\ Reads => (Spec => [](StoreInv /\ KeptInv /\ ReadInv))
<1> SUFFICES ASSUME EnoughRoom, Reads PROVE Spec => [](StoreInv /\ KeptInv /\ ReadInv)
  OBVIOUS
<1>1. Init => ReadInv
  <2> SUFFICES ASSUME Init PROVE ReadInv OBVIOUS
  <2>1. handles = {} /\ call = NoCall BY DEF Init
  <2>2. ~InCall /\ Settled = {} /\ call.kind # "realloc" BY <2>1 DEF InCall, NoCall, Settled
  <2> QED BY <2>2 DEF ReadInv
<1>2. StoreInv /\ KeptInv /\ ReadInv /\ [Next]_vars => ReadInv' BY NextReads
<1>3. Spec => []StoreInv BY StoreInvAlways
<1>4. Spec => []KeptInv BY KeptInvAlways DEF Reads
<1> QED BY <1>1, <1>2, <1>3, <1>4, PTL DEF Spec

(* However the bytes of an object are cut into fragments, moved and        *)
(* written over, and whatever is allocated, written and removed meanwhile, *)
(* the store does to the objects that its clients see what a store does    *)
(* (VariableBlockFileStore): no other object than the one written changes, *)
(* and an object being moved reads as before until it is complete.  For    *)
(* calls that ask for what the store has, lengths that a used field can    *)
(* hold and that are not 0, and an object at 0 that stays.                 *)
THEOREM StoreImplementsBlockStore ==
  EnoughRoom /\ Reads => (Spec => ImplementsBlockStore)
<1> SUFFICES ASSUME EnoughRoom, Reads PROVE Spec => ImplementsBlockStore
  OBVIOUS
<1>1. Init => Abstract!Init BY DEF Init, Abstract!Init
<1>2. StoreInv /\ KeptInv /\ ReadInv /\ [Next]_vars
        => [Abstract!Next]_([u \in handles |->
                               IF call.kind = "realloc" /\ u = call.fpos THEN call.old
                               ELSE ObjectAt(disk, u)])
  BY NextReads DEF AbstractStep, Contents, At
<1>3. Spec => [](StoreInv /\ KeptInv /\ ReadInv) BY ReadInvAlways
<1> QED BY <1>1, <1>2, <1>3, PTL DEF Spec, ImplementsBlockStore, Abstract!Spec

(* What the last step of a call leaves at the object's position is exactly *)
(* what the call was to write.                                             *)
Delivered ==
  /\ \A u \in Units, size \in Sizes, val \in Values :
       WriteInPlace(u, size, val) => ObjectAt(disk', u) = [size |-> size, val |-> val]
  /\ \A u \in Units : FinishRewrite /\ u = call.fpos
                        => ObjectAt(disk', u) = [size |-> call.size, val |-> call.val]
  /\ \A u \in Units : FinishAlloc /\ u = call.blocks[1].pos
                        => ObjectAt(disk', u) = [size |-> call.size, val |-> Zero]

(* A read after a write returns the bytes written, as many as were         *)
(* written, whether the blocks were kept or the object was moved           *)
(* (VariableBlockHandle.write and getBuffer), and after an allocation      *)
(* zeros.  BlockStore leaves open which bytes a write stores: this says    *)
(* which.                                                                  *)
THEOREM WritesAreRead == EnoughRoom /\ Reads => (Spec => [][Delivered]_vars)
<1> SUFFICES ASSUME EnoughRoom, Reads PROVE Spec => [][Delivered]_vars
  OBVIOUS
<1>1. StoreInv /\ KeptInv /\ ReadInv => Delivered
  <2> SUFFICES ASSUME StoreInv, KeptInv, ReadInv PROVE Delivered OBVIOUS
  <2>1. ASSUME NEW u \in Units, NEW size \in Sizes, NEW val \in Values, WriteInPlace(u, size, val)
        PROVE  ObjectAt(disk', u) = [size |-> size, val |-> val]
    BY <2>1, WriteInPlaceReads
  <2>2. ASSUME NEW u \in Units, FinishRewrite, u = call.fpos
        PROVE  ObjectAt(disk', u) = [size |-> call.size, val |-> call.val]
    BY <2>2, FinishRewriteReads
  <2>3. ASSUME NEW u \in Units, FinishAlloc, u = call.blocks[1].pos
        PROVE  ObjectAt(disk', u) = [size |-> call.size, val |-> Zero]
    BY <2>3, FinishAllocReads
  <2> QED BY <2>1, <2>2, <2>3 DEF Delivered
<1>2. Spec => [](StoreInv /\ KeptInv /\ ReadInv) BY ReadInvAlways
<1> QED BY <1>1, <1>2, PTL
=============================================================================
