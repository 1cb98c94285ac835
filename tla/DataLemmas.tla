------------------------------ MODULE DataLemmas ------------------------------
(***************************************************************************)
(* What the operators on sequences that several modules use return, for    *)
(* every sequence; and induction over the numbers, stated with sets.       *)
(***************************************************************************)
EXTENDS Sums, SequencesExt, SequenceTheorems, NaturalsInduction, WellFoundedInduction, TLAPS

(* A set of numbers that is not empty has a least one.                     *)
LEMMA LeastNumber ==
  ASSUME NEW T, T \subseteq Nat, T # {}
  PROVE  \E m \in T : \A k \in T : m <= k
<1>1. PICK x \in T : \A y \in T : ~(<<y, x>> \in OpToRel(<, Nat)) BY NatLessThanWellFounded, WFMin
<1>2. \A y \in T : ~(y < x) BY <1>1 DEF OpToRel
<1> QED BY <1>2

(* A sequence without the element at one of its positions.                 *)
LEMMA RemoveAtIs ==
  ASSUME NEW S, NEW s \in Seq(S), NEW i \in 1..Len(s)
  PROVE  /\ RemoveAt(s, i) \in Seq(S) /\ Len(RemoveAt(s, i)) = Len(s) - 1
         /\ \A k \in 1..Len(s) - 1 : RemoveAt(s, i)[k] = IF k < i THEN s[k] ELSE s[k + 1]
<1> DEFINE p == SubSeq(s, 1, i - 1)
           q == SubSeq(s, i + 1, Len(s))
<1>1. p \in Seq(S) /\ Len(p) = i - 1 /\ \A k \in 1..i - 1 : p[k] = s[k] OBVIOUS
<1>2. q \in Seq(S) /\ Len(q) = Len(s) - i /\ \A k \in 1..Len(s) - i : q[k] = s[i + k] OBVIOUS
<1>3. RemoveAt(s, i) = p \o q BY DEF RemoveAt
<1> HIDE DEF p, q
<1>4. p \o q \in Seq(S) /\ Len(p \o q) = Len(s) - 1
  <2>1. p \o q \in Seq(S) BY <1>1, <1>2
  <2>2. Len(p \o q) = Len(p) + Len(q) BY <1>1, <1>2, ConcatProperties
  <2> QED BY <1>1, <1>2, <2>1, <2>2
<1>5. ASSUME NEW k \in 1..Len(s) - 1 PROVE (p \o q)[k] = IF k < i THEN s[k] ELSE s[k + 1]
  <2>1. CASE k < i BY <1>1, <1>2, <2>1
  <2>2. CASE ~(k < i)
    <3>1. (p \o q)[k] = q[k - Len(p)] BY <1>1, <1>2, <2>2
    <3>2. k - (i - 1) \in 1..Len(s) - i BY <2>2
    <3>3. q[k - (i - 1)] = s[i + (k - (i - 1))] BY <3>2, <1>2
    <3>4. i + (k - (i - 1)) = k + 1 OBVIOUS
    <3> QED BY <1>1, <2>2, <3>1, <3>3, <3>4
  <2> QED BY <2>1, <2>2
<1> QED BY <1>3, <1>4, <1>5

(* A sequence with e put in at one of its positions, or behind them.       *)
LEMMA InsertAtIs ==
  ASSUME NEW S, NEW s \in Seq(S), NEW i \in 1..Len(s) + 1, NEW e \in S
  PROVE  /\ InsertAt(s, i, e) \in Seq(S) /\ Len(InsertAt(s, i, e)) = Len(s) + 1
         /\ \A k \in 1..Len(s) + 1 :
              InsertAt(s, i, e)[k] = IF k < i THEN s[k] ELSE IF k = i THEN e ELSE s[k - 1]
<1> DEFINE p == SubSeq(s, 1, i - 1)
           q == SubSeq(s, i, Len(s))
           a == p \o <<e>>
<1>0. Len(s) \in Nat OBVIOUS
<1>1. p \in Seq(S) /\ Len(p) = i - 1 /\ \A k \in 1..i - 1 : p[k] = s[k] OBVIOUS
<1>2. q \in Seq(S) /\ Len(q) = Len(s) - i + 1 /\ \A k \in 1..Len(s) - i + 1 : q[k] = s[i + k - 1]
  OBVIOUS
<1>3. InsertAt(s, i, e) = a \o q BY DEF InsertAt
<1> HIDE DEF p, q
<1>4. a \in Seq(S) /\ Len(a) = i /\ a[i] = e /\ \A k \in 1..i - 1 : a[k] = s[k]
  <2>1. <<e>> \in Seq(S) /\ Len(<<e>>) = 1 /\ <<e>>[1] = e OBVIOUS
  <2>2. Len(a) = i /\ a \in Seq(S) BY <1>1, <2>1, ConcatProperties
  <2>3. \A k \in 1..i - 1 : a[k] = p[k] BY <1>1, <2>1, ConcatProperties
  <2>4. a[i] = <<e>>[i - (i - 1)] BY <1>1, <2>1, ConcatProperties
  <2> QED BY <1>1, <2>1, <2>2, <2>3, <2>4
<1> HIDE DEF a
<1>5. a \o q \in Seq(S) /\ Len(a \o q) = Len(s) + 1
  <2>1. Len(a \o q) = Len(a) + Len(q) /\ a \o q \in Seq(S) BY <1>2, <1>4, ConcatProperties
  <2> QED BY <1>0, <1>2, <1>4, <2>1
<1>6. ASSUME NEW k \in 1..Len(s) + 1
      PROVE  (a \o q)[k] = IF k < i THEN s[k] ELSE IF k = i THEN e ELSE s[k - 1]
  <2>1. CASE k <= i
    <3>1. (a \o q)[k] = a[k] BY <1>2, <1>4, <2>1, ConcatProperties
    <3> QED BY <1>4, <2>1, <3>1
  <2>2. CASE ~(k <= i)
    <3>1. (a \o q)[k] = q[k - i] BY <1>2, <1>4, <2>2, ConcatProperties
    <3>2. k - i \in 1..Len(s) - i + 1 /\ i + (k - i) - 1 = k - 1 BY <1>0, <2>2
    <3> QED BY <1>2, <2>2, <3>1, <3>2
  <2> QED BY <2>1, <2>2
<1> QED BY <1>3, <1>5, <1>6

(* Only the first e goes; of a sequence without duplicates, e goes.        *)
LEMMA RemoveFirstIs ==
  ASSUME NEW S, NEW s \in Seq(S), NEW e
  PROVE  /\ RemoveFirst(s, e) \in Seq(S)
         /\ \A x \in Range(RemoveFirst(s, e)) : x \in Range(s)
         /\ \A x \in Range(s) : x # e => x \in Range(RemoveFirst(s, e))
         /\ IsInjective(s) => IsInjective(RemoveFirst(s, e)) /\ e \notin Range(RemoveFirst(s, e))
<1> DEFINE I == {i \in 1..Len(s) : s[i] = e}
<1>0. DOMAIN s = 1..Len(s) OBVIOUS
<1>1. CASE I = {}
  <2>1. RemoveFirst(s, e) = s BY <1>1 DEF RemoveFirst
  <2>2. e \notin Range(s) BY <1>0, <1>1 DEF Range
  <2> QED BY <2>1, <2>2
<1>2. CASE I # {}
  <2>0. I \subseteq Nat OBVIOUS
  <2>1. PICK m \in I : \A k \in I : m <= k
    <3> HIDE DEF I
    <3> QED BY <1>2, <2>0, LeastNumber
  <2>2. Min(I) \in I
    BY <2>1 DEF Min
  <2> DEFINE i == Min(I)
             r == RemoveAt(s, i)
  <2>3. RemoveFirst(s, e) = r
    BY <1>2 DEF RemoveFirst, SelectInSeq
  <2>4. i \in 1..Len(s) /\ s[i] = e BY <2>2
  <2> HIDE DEF i, I
  <2>5. /\ r \in Seq(S) /\ Len(r) = Len(s) - 1
        /\ \A k \in 1..Len(s) - 1 : r[k] = IF k < i THEN s[k] ELSE s[k + 1]
    BY <2>4, RemoveAtIs
  <2> HIDE DEF r
  <2>6. DOMAIN r = 1..Len(s) - 1 BY <2>5
  <2>7. ASSUME NEW k \in DOMAIN r PROVE r[k] \in Range(s) /\ \E j \in DOMAIN s : j # i /\ r[k] = s[j]
    <3>1. CASE k < i BY <1>0, <2>5, <2>6, <3>1 DEF Range
    <3>2. CASE ~(k < i) BY <1>0, <2>5, <2>6, <3>2 DEF Range
    <3> QED BY <3>1, <3>2
  <2>8. \A x \in Range(r) : x \in Range(s) BY <2>7 DEF Range
  <2>9. ASSUME NEW j \in DOMAIN s, j # i PROVE s[j] \in Range(r)
    <3>1. CASE j < i
      <4>1. j \in DOMAIN r /\ r[j] = s[j] BY <1>0, <2>4, <2>5, <2>6, <3>1
      <4> QED BY <4>1 DEF Range
    <3>2. CASE j > i
      <4>1. j - 1 \in DOMAIN r /\ r[j - 1] = s[(j - 1) + 1] BY <1>0, <2>4, <2>5, <2>6, <3>2
      <4>2. (j - 1) + 1 = j BY <1>0
      <4> QED BY <4>1, <4>2 DEF Range
    <3> QED BY <1>0, <2>4, <2>9, <3>1, <3>2
  <2>10. \A x \in Range(s) : x # e => x \in Range(r)
    BY <2>4, <2>9 DEF Range
  <2>11. ASSUME IsInjective(s) PROVE IsInjective(r) /\ e \notin Range(r)
    <3>1. e \notin Range(r) BY <1>0, <2>4, <2>7, <2>11 DEF Range, IsInjective
    <3>2. ASSUME NEW a \in DOMAIN r, NEW b \in DOMAIN r, r[a] = r[b] PROVE a = b
      <4> DEFINE old(k) == IF k < i THEN k ELSE k + 1
      <4>1. \A k \in DOMAIN r : old(k) \in DOMAIN s /\ r[k] = s[old(k)] BY <1>0, <2>4, <2>5, <2>6
      <4>2. old(a) = old(b) BY <2>11, <3>2, <4>1 DEF IsInjective
      <4> QED BY <2>4, <2>6, <4>2
    <3> QED BY <3>1, <3>2 DEF IsInjective
  <2> QED BY <2>3, <2>5, <2>8, <2>10, <2>11
<1> QED BY <1>1, <1>2
-----------------------------------------------------------------------------
(* Induction over the numbers, with a set.                                 *)
LEMMA NatUpwards ==
  ASSUME NEW T, 0 \in T, \A n \in Nat : n \in T => n + 1 \in T
  PROVE  Nat \subseteq T
<1> SUFFICES ASSUME Nat \ T # {} PROVE FALSE OBVIOUS
<1>1. PICK m \in Nat \ T : \A k \in Nat \ T : m <= k BY LeastNumber
<1>2. m # 0 /\ m - 1 \in Nat BY <1>1
<1>3. m - 1 \in T BY <1>1, <1>2
<1>4. (m - 1) + 1 = m BY <1>1
<1> QED BY <1>1, <1>2, <1>3, <1>4

(* g holds the sums of the first numbers of f, up to n of them.           *)
IsSums(g, n, f) == g = [i \in 0..n |-> IF i = 0 THEN 0 ELSE g[i - 1] + f[i]]

(* Every list has its partial sums: the recursion of Total is a function. *)
LEMMA SumsExist ==
  ASSUME NEW n \in Nat, NEW f \in [1..n -> Int]
  PROVE  \E g \in [0..n -> Int] : IsSums(g, n, f)
<1> DEFINE T == {m \in Nat : m <= n => \E g \in [0..m -> Int] : IsSums(g, m, f)}
<1>1. 0 \in T
  <2>1. [i \in 0..0 |-> 0] \in [0..0 -> Int] /\ IsSums([i \in 0..0 |-> 0], 0, f) BY DEF IsSums
  <2> QED BY <2>1
<1>2. ASSUME NEW m \in Nat, m \in T PROVE m + 1 \in T
  <2> SUFFICES ASSUME m + 1 <= n PROVE \E g \in [0..m + 1 -> Int] : IsSums(g, m + 1, f) OBVIOUS
  <2>1. PICK g \in [0..m -> Int] : IsSums(g, m, f) BY <1>2
  <2> DEFINE h == [i \in 0..m + 1 |-> IF i <= m THEN g[i] ELSE g[m] + f[m + 1]]
  <2>2. f[m + 1] \in Int /\ g[m] \in Int BY <2>1
  <2>3. h \in [0..m + 1 -> Int] BY <2>1, <2>2
  <2>4. \A i \in 0..m + 1 : h[i] = IF i = 0 THEN 0 ELSE h[i - 1] + f[i]
    <3> SUFFICES ASSUME NEW i \in 0..m + 1 PROVE h[i] = IF i = 0 THEN 0 ELSE h[i - 1] + f[i] OBVIOUS
    <3>1. CASE i <= m
      <4>1. h[i] = g[i] /\ (i # 0 => h[i - 1] = g[i - 1]) BY <3>1
      <4>2. i \in 0..m /\ g[i] = IF i = 0 THEN 0 ELSE g[i - 1] + f[i] BY <2>1, <3>1 DEF IsSums
      <4> QED BY <4>1, <4>2
    <3>2. CASE i = m + 1 BY <3>2
    <3> QED BY <3>1, <3>2
  <2>5. IsSums(h, m + 1, f) BY <2>3, <2>4 DEF IsSums
  <2> QED BY <2>3, <2>5
<1>3. n \in T
  <2> HIDE DEF T
  <2> QED BY <1>1, <1>2, NatUpwards
<1> QED BY <1>3

(* The total is the last of the partial sums.                              *)
LEMMA TotalIs ==
  ASSUME NEW s \in Seq(Int)
  PROVE  \E g \in [0..Len(s) -> Int] : IsSums(g, Len(s), s) /\ Total(s) = g[Len(s)]
<1> DEFINE g == CHOOSE g : IsSums(g, Len(s), s)
<1>1. PICK h \in [0..Len(s) -> Int] : IsSums(h, Len(s), s) BY SumsExist
<1>2. IsSums(g, Len(s), s) BY <1>1
<1>3. Total(s) = g[Len(s)] BY DEF Total, IsSums
<1> HIDE DEF g
<1>4. \A i \in 0..Len(s) : g[i] = IF i = 0 THEN 0 ELSE g[i - 1] + s[i] BY <1>2 DEF IsSums
<1> DEFINE T == {i \in Nat : i <= Len(s) => g[i] \in Int}
<1>6. 0 \in T BY <1>4
<1>7. ASSUME NEW i \in Nat, i \in T PROVE i + 1 \in T
  <2> SUFFICES ASSUME i + 1 <= Len(s) PROVE g[i + 1] \in Int OBVIOUS
  <2>1. (i + 1) - 1 = i /\ i + 1 # 0 /\ i + 1 \in 0..Len(s) /\ s[i + 1] \in Int /\ g[i] \in Int BY <1>7
  <2> QED BY <1>4, <2>1
<1>8. Nat \subseteq T
  <2> HIDE DEF T
  <2> QED BY <1>6, <1>7, NatUpwards
<1>5. g \in [0..Len(s) -> Int] BY <1>2, <1>8 DEF IsSums
<1> QED BY <1>2, <1>3, <1>5

(* One number more adds that number.                                       *)
LEMMA TotalLonger ==
  ASSUME NEW s \in Seq(Int), NEW t \in Seq(Int), NEW n \in Nat, Len(s) = n, Len(t) = n + 1, \A i \in 1..n : t[i] = s[i]
  PROVE  Total(t) = Total(s) + t[n + 1] /\ Total(s) \in Int
<1>2. PICK g \in [0..n -> Int] : IsSums(g, n, s) /\ Total(s) = g[n] BY TotalIs
<1>3. PICK h \in [0..n + 1 -> Int] : IsSums(h, n + 1, t) /\ Total(t) = h[n + 1] BY TotalIs
<1> DEFINE T == {i \in Nat : i <= n => h[i] = g[i]}
<1>0. /\ \A i \in 0..n : g[i] = IF i = 0 THEN 0 ELSE g[i - 1] + s[i]
      /\ \A i \in 0..n + 1 : h[i] = IF i = 0 THEN 0 ELSE h[i - 1] + t[i]
  BY <1>2, <1>3 DEF IsSums
<1>7. 0 \in T BY <1>0
<1>8. ASSUME NEW i \in Nat, i \in T PROVE i + 1 \in T
  <2> SUFFICES ASSUME i + 1 <= n PROVE h[i + 1] = g[i + 1] OBVIOUS
  <2>1. (i + 1) - 1 = i /\ i + 1 # 0 /\ i + 1 \in 0..n /\ i + 1 \in 0..n + 1 /\ i + 1 \in 1..n /\ h[i] = g[i] BY <1>8
  <2>2. h[i + 1] = h[i] + t[i + 1] /\ g[i + 1] = g[i] + s[i + 1] /\ t[i + 1] = s[i + 1] BY <1>0, <2>1
  <2> QED BY <2>1, <2>2
<1>9. Nat \subseteq T
  <2> HIDE DEF T
  <2> QED BY <1>7, <1>8, NatUpwards
<1>4. \A i \in 0..n : h[i] = g[i] BY <1>9
<1>5. h[n + 1] = h[n] + t[n + 1]
  <2>1. n + 1 \in 0..n + 1 /\ n + 1 # 0 /\ (n + 1) - 1 = n OBVIOUS
  <2> QED BY <1>3, <2>1 DEF IsSums
<1>6. h[n] = g[n] /\ g[n] \in Int BY <1>2, <1>4
<1> QED BY <1>2, <1>3, <1>5, <1>6

(* The total of a list to which a number was appended.                     *)
LEMMA TotalAppend ==
  ASSUME NEW s \in Seq(Int), NEW x \in Int
  PROVE  Total(Append(s, x)) = Total(s) + x /\ Total(s) \in Int
<1>1. /\ Append(s, x) \in Seq(Int) /\ Len(s) \in Nat /\ Len(Append(s, x)) = Len(s) + 1
      /\ Append(s, x)[Len(s) + 1] = x /\ \A i \in 1..Len(s) : Append(s, x)[i] = s[i]
  OBVIOUS
<1> QED BY <1>1, TotalLonger

(* Nothing adds up to nothing.                                             *)
LEMMA TotalEmpty == Total(<<>>) = 0
<1>1. <<>> \in Seq(Int) /\ Len(<<>>) = 0 OBVIOUS
<1>2. PICK g \in [0..0 -> Int] : IsSums(g, 0, <<>>) /\ Total(<<>>) = g[0] BY <1>1, TotalIs
<1> QED BY <1>2 DEF IsSums

(* A list of one number.                                                   *)
LEMMA TotalOne ==
  ASSUME NEW x \in Int
  PROVE  Total(<<x>>) = x
<1>1. <<>> \in Seq(Int) /\ <<x>> = Append(<<>>, x) OBVIOUS
<1>2. Total(Append(<<>>, x)) = Total(<<>>) + x BY <1>1, TotalAppend
<1> QED BY <1>1, <1>2, TotalEmpty

(* Natural numbers add up to a natural number.                             *)
LEMMA TotalNat ==
  ASSUME NEW s \in Seq(Nat)
  PROVE  Total(s) \in Nat
<1>1. s \in Seq(Int) /\ \A i \in 1..Len(s) : s[i] \in Nat OBVIOUS
<1>2. PICK g \in [0..Len(s) -> Int] : IsSums(g, Len(s), s) /\ Total(s) = g[Len(s)] BY <1>1, TotalIs
<1>3. \A i \in 0..Len(s) : g[i] = IF i = 0 THEN 0 ELSE g[i - 1] + s[i] BY <1>2 DEF IsSums
<1> DEFINE T == {i \in Nat : i <= Len(s) => g[i] \in Nat}
<1>4. 0 \in T BY <1>3
<1>5. ASSUME NEW i \in Nat, i \in T PROVE i + 1 \in T
  <2> SUFFICES ASSUME i + 1 <= Len(s) PROVE g[i + 1] \in Nat OBVIOUS
  <2>1. (i + 1) - 1 = i /\ i + 1 # 0 /\ i + 1 \in 0..Len(s) /\ s[i + 1] \in Nat /\ g[i] \in Nat BY <1>1, <1>5
  <2> QED BY <1>3, <2>1
<1>6. Nat \subseteq T
  <2> HIDE DEF T
  <2> QED BY <1>4, <1>5, NatUpwards
<1> QED BY <1>2, <1>6

(* Another number in one place.                                            *)
LEMMA TotalExcept ==
  ASSUME NEW s \in Seq(Int), NEW k \in 1..Len(s), NEW x \in Int
  PROVE  Total([s EXCEPT ![k] = x]) = Total(s) - s[k] + x
<1> DEFINE t == [s EXCEPT ![k] = x]
           n == Len(s)
           old == s[k]
           d(i) == IF i >= k THEN x - old ELSE 0
<1>1. /\ t \in Seq(Int) /\ Len(t) = n /\ n \in Nat /\ k \in Nat /\ old \in Int /\ x \in Int /\ s[k] = old
      /\ \A i \in 1..n : t[i] = IF i = k THEN x ELSE s[i]
      /\ \A i \in 1..n : s[i] \in Int
  OBVIOUS
<1> HIDE DEF t, n, old
<1>2. PICK g \in [0..n -> Int] : IsSums(g, n, s) /\ Total(s) = g[n] BY TotalIs DEF n
<1>3. PICK h \in [0..n -> Int] : IsSums(h, n, t) /\ Total(t) = h[n] BY <1>1, TotalIs
<1>4. /\ \A i \in 0..n : g[i] = IF i = 0 THEN 0 ELSE g[i - 1] + s[i]
      /\ \A i \in 0..n : h[i] = IF i = 0 THEN 0 ELSE h[i - 1] + t[i]
  BY <1>2, <1>3 DEF IsSums
<1> DEFINE T == {i \in Nat : i <= n => h[i] = g[i] + d(i)}
<1>5. 0 \in T
  <2>1. h[0] = 0 /\ g[0] = 0 BY <1>1, <1>4
  <2>2. d(0) = 0 BY <1>1
  <2> QED BY <2>1, <2>2
<1>6. ASSUME NEW i \in Nat, i \in T PROVE i + 1 \in T
  <2> SUFFICES ASSUME i + 1 <= n PROVE h[i + 1] = g[i + 1] + d(i + 1) OBVIOUS
  <2>1. /\ (i + 1) - 1 = i /\ i + 1 # 0 /\ i + 1 \in 0..n /\ i + 1 \in 1..n /\ i \in 0..n
        /\ h[i] = g[i] + d(i)
    BY <1>1, <1>6
  <2>2. h[i + 1] = h[i] + t[i + 1] /\ g[i + 1] = g[i] + s[i + 1] /\ g[i] \in Int /\ s[i + 1] \in Int
    BY <1>1, <1>4, <2>1
  <2>3. CASE i + 1 = k
    <3>1. t[i + 1] = x /\ s[i + 1] = old /\ d(i) = 0 /\ d(i + 1) = x - old BY <1>1, <2>1, <2>3
    <3>2. h[i] = g[i] BY <2>1, <2>2, <3>1
    <3>3. h[i + 1] = g[i] + x /\ g[i + 1] = g[i] + old BY <2>2, <3>1, <3>2
    <3> HIDE DEF d
    <3> QED BY <1>1, <2>1, <2>2, <3>1, <3>3
  <2>4. CASE i + 1 # k
    <3>1. t[i + 1] = s[i + 1] BY <1>1, <2>1, <2>4
    <3>2. d(i) = d(i + 1) /\ d(i) \in Int BY <1>1, <2>4
    <3> HIDE DEF d
    <3> QED BY <2>1, <2>2, <3>1, <3>2
  <2> QED BY <2>3, <2>4
<1>7. Nat \subseteq T
  <2> HIDE DEF T
  <2> QED BY <1>5, <1>6, NatUpwards
<1>8. h[n] = g[n] + (x - old)
  <2>1. n <= n /\ n \in T /\ n >= k BY <1>1, <1>7 DEF n
  <2> QED BY <2>1
<1>9. g[n] \in Int BY <1>1, <1>2
<1> QED BY <1>1, <1>2, <1>3, <1>8, <1>9 DEF t

(* The first numbers of a list add up to no more than all of them.         *)
LEMMA TotalPrefix ==
  ASSUME NEW s \in Seq(Nat), NEW k \in 1..Len(s)
  PROVE  /\ Total(SubSeq(s, 1, k - 1)) \in Nat /\ Total(SubSeq(s, 1, k)) <= Total(s)
         /\ Total(SubSeq(s, 1, k)) = Total(SubSeq(s, 1, k - 1)) + s[k]
<1> DEFINE n == Len(s)
           t(i) == Total(SubSeq(s, 1, i))
<1>1. n \in Nat /\ k \in 1..n /\ \A i \in 1..n : s[i] \in Nat OBVIOUS
<1>2. ASSUME NEW i \in 0..n PROVE SubSeq(s, 1, i) \in Seq(Nat) /\ SubSeq(s, 1, i) \in Seq(Int)
                                  /\ Len(SubSeq(s, 1, i)) = i
                                  /\ \A j \in 1..i : SubSeq(s, 1, i)[j] = s[j]
  <2>1. i \in Nat /\ \A j \in 1..i : s[j] \in Nat BY <1>1
  <2> QED BY <2>1
<1>3. \A i \in 0..n : t(i) \in Nat BY <1>2, TotalNat
<1>4. ASSUME NEW i \in 1..n PROVE t(i) = t(i - 1) + s[i]
  <2> DEFINE a == SubSeq(s, 1, i - 1)
             b == SubSeq(s, 1, i)
  <2>1. i - 1 \in 0..n /\ i \in 0..n /\ i - 1 \in Nat /\ (i - 1) + 1 = i BY <1>1
  <2>2. /\ a \in Seq(Int) /\ Len(a) = i - 1 /\ \A j \in 1..i - 1 : a[j] = s[j]
        /\ b \in Seq(Int) /\ Len(b) = i /\ \A j \in 1..i : b[j] = s[j]
    BY <1>2, <2>1
  <2> HIDE DEF a, b
  <2>3. \A j \in 1..i - 1 : b[j] = a[j] BY <2>1, <2>2
  <2>4. Total(b) = Total(a) + b[(i - 1) + 1] BY <2>1, <2>2, <2>3, TotalLonger
  <2> QED BY <2>1, <2>2, <2>4 DEF a, b
<1>5. s = SubSeq(s, 1, n) OBVIOUS
<1> HIDE DEF t, n
<1> DEFINE T == {i \in Nat : k + i <= n => t(k) <= t(k + i)}
<1>6. 0 \in T BY <1>1, <1>3
<1>7. ASSUME NEW i \in Nat, i \in T PROVE i + 1 \in T
  <2> SUFFICES ASSUME k + (i + 1) <= n PROVE t(k) <= t(k + (i + 1)) OBVIOUS
  <2>1. k + (i + 1) \in 1..n /\ (k + (i + 1)) - 1 = k + i /\ k \in 0..n /\ k + i \in 0..n
        /\ k + (i + 1) \in 0..n /\ t(k) <= t(k + i)
    BY <1>1, <1>7
  <2>2. t(k + (i + 1)) = t(k + i) + s[k + (i + 1)] /\ s[k + (i + 1)] \in Nat
    BY <1>1, <1>4, <2>1
  <2>3. t(k) \in Nat /\ t(k + i) \in Nat BY <1>3, <2>1
  <2> QED BY <2>1, <2>2, <2>3
<1>8. Nat \subseteq T
  <2> HIDE DEF T
  <2> QED BY <1>6, <1>7, NatUpwards
<1>9. t(k) <= t(n)
  <2>1. n - k \in T /\ k + (n - k) = n BY <1>1, <1>8
  <2> QED BY <1>1, <2>1
<1> QED
  <2>1. k - 1 \in 0..n BY <1>1
  <2> QED BY <1>1, <1>3, <1>4, <1>5, <1>9, <2>1 DEF t, n

(* Smaller numbers add up to less.                                         *)
LEMMA TotalLess ==
  ASSUME NEW s \in Seq(Nat), NEW t \in Seq(Nat), Len(s) = Len(t), \A i \in 1..Len(s) : s[i] <= t[i]
  PROVE  Total(s) <= Total(t)
<1> DEFINE n == Len(s)
<1>1. /\ n \in Nat /\ s \in Seq(Int) /\ t \in Seq(Int) /\ Len(t) = n
      /\ \A i \in 1..n : s[i] \in Nat /\ t[i] \in Nat /\ s[i] <= t[i]
  OBVIOUS
<1>2. PICK g \in [0..n -> Int] : IsSums(g, n, s) /\ Total(s) = g[n] BY <1>1, TotalIs
<1>3. PICK h \in [0..n -> Int] : IsSums(h, n, t) /\ Total(t) = h[n]
  <2> HIDE DEF n
  <2> QED BY <1>1, TotalIs
<1> HIDE DEF n
<1>4. /\ \A i \in 0..n : g[i] = IF i = 0 THEN 0 ELSE g[i - 1] + s[i]
      /\ \A i \in 0..n : h[i] = IF i = 0 THEN 0 ELSE h[i - 1] + t[i]
  BY <1>2, <1>3 DEF IsSums
<1> DEFINE T == {i \in Nat : i <= n => g[i] <= h[i]}
<1>5. 0 \in T BY <1>1, <1>4
<1>6. ASSUME NEW i \in Nat, i \in T PROVE i + 1 \in T
  <2> SUFFICES ASSUME i + 1 <= n PROVE g[i + 1] <= h[i + 1] OBVIOUS
  <2>1. /\ (i + 1) - 1 = i /\ i + 1 # 0 /\ i + 1 \in 0..n /\ i + 1 \in 1..n /\ i \in 0..n
        /\ g[i] <= h[i]
    BY <1>1, <1>6
  <2>2. g[i + 1] = g[i] + s[i + 1] /\ h[i + 1] = h[i] + t[i + 1] BY <1>4, <2>1
  <2>3. g[i] \in Int /\ h[i] \in Int /\ s[i + 1] \in Nat /\ t[i + 1] \in Nat /\ s[i + 1] <= t[i + 1]
    BY <1>1, <2>1
  <2> QED BY <2>1, <2>2, <2>3
<1>7. Nat \subseteq T
  <2> HIDE DEF T
  <2> QED BY <1>5, <1>6, NatUpwards
<1>8. n \in T BY <1>1, <1>7
<1> QED BY <1>1, <1>2, <1>3, <1>8

(* What adds up to something has something in it.                          *)
LEMMA TotalPositive ==
  ASSUME NEW s \in Seq(Nat), Total(s) # 0
  PROVE  \E i \in 1..Len(s) : s[i] # 0
<1> SUFFICES ASSUME \A i \in 1..Len(s) : s[i] = 0 PROVE FALSE OBVIOUS
<1> DEFINE n == Len(s)
<1>1. n \in Nat /\ s \in Seq(Int) /\ \A i \in 1..n : s[i] = 0 OBVIOUS
<1>2. PICK g \in [0..n -> Int] : IsSums(g, n, s) /\ Total(s) = g[n] BY <1>1, TotalIs
<1> HIDE DEF n
<1>4. \A i \in 0..n : g[i] = IF i = 0 THEN 0 ELSE g[i - 1] + s[i] BY <1>2 DEF IsSums
<1> DEFINE T == {i \in Nat : i <= n => g[i] = 0}
<1>5. 0 \in T BY <1>1, <1>4
<1>6. ASSUME NEW i \in Nat, i \in T PROVE i + 1 \in T
  <2> SUFFICES ASSUME i + 1 <= n PROVE g[i + 1] = 0 OBVIOUS
  <2>1. (i + 1) - 1 = i /\ i + 1 # 0 /\ i + 1 \in 0..n /\ i + 1 \in 1..n /\ g[i] = 0
    BY <1>1, <1>6
  <2>2. g[i + 1] = g[i] + s[i + 1] BY <1>4, <2>1
  <2> QED BY <1>1, <2>1, <2>2
<1>7. Nat \subseteq T
  <2> HIDE DEF T
  <2> QED BY <1>5, <1>6, NatUpwards
<1>8. n \in T BY <1>1, <1>7
<1> QED BY <1>1, <1>2, <1>8

-----------------------------------------------------------------------------
(* Recursion and induction over the turns of a loop.  J[i] is what holds   *)
(* after i turns.                                                          *)
LEMMA TurnsStay ==
  ASSUME NEW n \in Nat, NEW g, NEW J, g[0] \in J[0], \A i \in 1..n : g[i - 1] \in J[i - 1] => g[i] \in J[i]
  PROVE  \A i \in 0..n : g[i] \in J[i]
<1> DEFINE T == {i \in Nat : i <= n => g[i] \in J[i]}
<1>1. 0 \in T OBVIOUS
<1>2. ASSUME NEW i \in Nat, i \in T PROVE i + 1 \in T
  <2> SUFFICES ASSUME i + 1 <= n PROVE g[i + 1] \in J[i + 1] OBVIOUS
  <2>1. i + 1 \in 1..n /\ (i + 1) - 1 = i /\ g[i] \in J[i] BY <1>2
  <2> QED BY <2>1
<1>3. Nat \subseteq T
  <2> HIDE DEF T
  <2> QED BY <1>1, <1>2, NatUpwards
<1> QED BY <1>3

IsTurns(f, n, x, G) == f = [i \in 0..n |-> IF i = 0 THEN x ELSE G[<<f[i - 1], i>>]]

LEMMA TurnsExist ==
  ASSUME NEW n \in Nat, NEW V, NEW x \in V, NEW G \in [V \X (1..n) -> V]
  PROVE  \E f \in [0..n -> V] : IsTurns(f, n, x, G)
<1> DEFINE T == {m \in Nat : m <= n => \E f \in [0..m -> V] : IsTurns(f, m, x, G)}
<1>1. 0 \in T
  <2>1. [i \in 0..0 |-> x] \in [0..0 -> V] /\ IsTurns([i \in 0..0 |-> x], 0, x, G) BY DEF IsTurns
  <2> QED BY <2>1
<1>2. ASSUME NEW m \in Nat, m \in T PROVE m + 1 \in T
  <2> SUFFICES ASSUME m + 1 <= n PROVE \E f \in [0..m + 1 -> V] : IsTurns(f, m + 1, x, G) OBVIOUS
  <2>1. PICK f \in [0..m -> V] : IsTurns(f, m, x, G) BY <1>2
  <2> DEFINE e == G[<<f[m], m + 1>>]
             h == [i \in 0..m + 1 |-> IF i <= m THEN f[i] ELSE e]
  <2>2. e \in V
    <3>1. <<f[m], m + 1>> \in V \X (1..n) BY <2>1
    <3> QED BY <3>1
  <2>3. h \in [0..m + 1 -> V] BY <2>1, <2>2
  <2>4. ASSUME NEW i \in 0..m + 1 PROVE h[i] = IF i = 0 THEN x ELSE G[<<h[i - 1], i>>]
    <3>1. CASE i <= m
      <4>1. h[i] = f[i] /\ (i # 0 => h[i - 1] = f[i - 1]) BY <3>1
      <4>2. i \in 0..m /\ f[i] = IF i = 0 THEN x ELSE G[<<f[i - 1], i>>] BY <2>1, <3>1 DEF IsTurns
      <4> QED BY <4>1, <4>2
    <3>2. CASE i = m + 1
      <4>1. i # 0 /\ i - 1 = m /\ h[m] = f[m] /\ h[i] = e BY <3>2
      <4> QED BY <3>2, <4>1
    <3> QED BY <3>1, <3>2
  <2>5. IsTurns(h, m + 1, x, G) BY <2>3, <2>4 DEF IsTurns
  <2> QED BY <2>3, <2>5
<1>3. n \in T
  <2> HIDE DEF T
  <2> QED BY <1>1, <1>2, NatUpwards
<1> QED BY <1>3

(* Where each turn leads from what holds before it to what holds after it, *)
(* a function of the turns exists.                                         *)
LEMMA TurnsKeep ==
  ASSUME NEW n \in Nat, NEW J, NEW x \in J[0], NEW G,
         \A i \in 1..n : \A r \in J[i - 1] : G[<<r, i>>] \in J[i]
  PROVE  \E f : IsTurns(f, n, x, G) /\ \A i \in 0..n : f[i] \in J[i]
<1> DEFINE V == UNION {J[i] : i \in 0..n}
           H == [p \in V \X (1..n) |-> IF G[p] \in V THEN G[p] ELSE x]
<1>1. x \in V OBVIOUS
<1>2. H \in [V \X (1..n) -> V] BY <1>1
<1>3. PICK f \in [0..n -> V] : IsTurns(f, n, x, H)
  <2> HIDE DEF V, H
  <2> QED BY <1>1, <1>2, TurnsExist
<1>4. \A i \in 0..n : f[i] = IF i = 0 THEN x ELSE H[<<f[i - 1], i>>] BY <1>3 DEF IsTurns
<1>5. ASSUME NEW i \in 1..n, f[i - 1] \in J[i - 1]
      PROVE  f[i] \in J[i] /\ f[i] = G[<<f[i - 1], i>>]
  <2>1. i \in 0..n /\ i - 1 \in 0..n /\ i # 0 OBVIOUS
  <2>2. G[<<f[i - 1], i>>] \in J[i] BY <1>5
  <2>3. G[<<f[i - 1], i>>] \in V BY <2>1, <2>2
  <2>4. <<f[i - 1], i>> \in V \X (1..n) BY <1>3, <2>1
  <2>5. H[<<f[i - 1], i>>] = G[<<f[i - 1], i>>] BY <2>3, <2>4
  <2>6. f[i] = H[<<f[i - 1], i>>] BY <1>4, <2>1
  <2> QED BY <2>2, <2>5, <2>6
<1>6. f[0] \in J[0]
  <2>1. 0 \in 0..n OBVIOUS
  <2>2. f[0] = x
    <3> HIDE DEF V, H
    <3> QED BY <1>4, <2>1
  <2> QED BY <2>2
<1>7. \A i \in 0..n : f[i] \in J[i]
  <2> HIDE DEF V, H
  <2> QED BY <1>5, <1>6, TurnsStay
<1>8. \A i \in 0..n : f[i] = IF i = 0 THEN x ELSE G[<<f[i - 1], i>>]
  <2> SUFFICES ASSUME NEW i \in 0..n PROVE f[i] = IF i = 0 THEN x ELSE G[<<f[i - 1], i>>] OBVIOUS
  <2>1. CASE i = 0 BY <1>4, <2>1
  <2>2. CASE i # 0
    <3>1. i \in 1..n /\ i - 1 \in 0..n BY <2>2
    <3> QED BY <1>5, <1>7, <2>2, <3>1
  <2> QED BY <2>1, <2>2
<1>9. f = [i \in 0..n |-> f[i]] BY <1>3
<1> QED BY <1>7, <1>8, <1>9 DEF IsTurns
-----------------------------------------------------------------------------
(* Recursion down levels: what a function is at p depends on what it is at *)
(* elements of lower levels only.                                          *)
Gives(S, V, G) == \A f \in [S -> V], p \in S : G[<<f, p>>] \in V
LooksDown(S, V, lvl, G) ==
  \A f, g \in [S -> V], p \in S :
    (\A q \in S : lvl[q] < lvl[p] => f[q] = g[q]) => G[<<f, p>>] = G[<<g, p>>]
Solves(f, S, G) == \A p \in S : f[p] = G[<<f, p>>]

LEMMA LevelsDefine ==
  ASSUME NEW S, NEW n \in Nat, NEW lvl \in [S -> 0..n], NEW V, V # {}, NEW G,
         Gives(S, V, G), LooksDown(S, V, lvl, G)
  PROVE  \E f \in [S -> V] : Solves(f, S, G)
<1> USE DEF Gives, LooksDown, Solves
<1>0. PICK v \in V : TRUE OBVIOUS
<1> DEFINE W == [S -> V]
           x == [p \in S |-> v]
           H == [r \in W \X (1..n + 1) |-> [p \in S |-> G[<<r[1], p>>]]]
<1>1. x \in W OBVIOUS
<1>2. H \in [W \X (1..n + 1) -> W] OBVIOUS
<1>3. n + 1 \in Nat OBVIOUS
<1>4. PICK t \in [0..n + 1 -> W] : IsTurns(t, n + 1, x, H)
  <2> HIDE DEF W, x, H
  <2> QED BY <1>1, <1>2, <1>3, TurnsExist
<1>5. \A i \in 0..n + 1 : t[i] = IF i = 0 THEN x ELSE H[<<t[i - 1], i>>] BY <1>4 DEF IsTurns
<1>6. \A i \in 0..n : t[i] \in [S -> V] /\ t[i + 1] \in [S -> V] /\ \A p \in S : t[i + 1][p] = G[<<t[i], p>>]
  <2> SUFFICES ASSUME NEW i \in 0..n
               PROVE  t[i] \in [S -> V] /\ t[i + 1] \in [S -> V] /\ \A p \in S : t[i + 1][p] = G[<<t[i], p>>]
    OBVIOUS
  <2>1. i + 1 \in 0..n + 1 /\ i + 1 # 0 /\ (i + 1) - 1 = i /\ i \in 0..n + 1 /\ i + 1 \in 1..n + 1 OBVIOUS
  <2>2. t[i] \in W /\ t[i + 1] \in W BY <1>4, <2>1
  <2>3. t[i + 1] = H[<<t[i], i + 1>>] BY <1>5, <2>1
  <2>4. <<t[i], i + 1>> \in W \X (1..n + 1) BY <2>1, <2>2
  <2>5. H[<<t[i], i + 1>>] = [p \in S |-> G[<<t[i], p>>]] BY <2>4
  <2> QED BY <2>2, <2>3, <2>5
<1> HIDE DEF H, x, W
(* Elements of levels below k no longer change after k turns.              *)
<1> DEFINE T == {k \in Nat : k <= n => \A p \in S : lvl[p] < k => t[k][p] = t[k + 1][p]}
<1>7. 0 \in T OBVIOUS
<1>8. ASSUME NEW k \in Nat, k \in T PROVE k + 1 \in T
  <2> SUFFICES ASSUME k + 1 <= n, NEW p \in S, lvl[p] < k + 1 PROVE t[k + 1][p] = t[(k + 1) + 1][p] OBVIOUS
  <2>1. k \in 0..n /\ k + 1 \in 0..n BY <1>8
  <2>2. \A q \in S : lvl[q] < lvl[p] => t[k][q] = t[k + 1][q] BY <1>8, <2>1
  <2>3. G[<<t[k], p>>] = G[<<t[k + 1], p>>]
    <3>1. t[k] \in [S -> V] /\ t[k + 1] \in [S -> V] BY <1>6, <2>1
    <3> QED BY <2>2, <3>1
  <2> QED BY <1>6, <2>1, <2>3
<1>9. n \in T
  <2> HIDE DEF T
  <2> QED BY <1>7, <1>8, NatUpwards
<1> DEFINE f == t[n + 1]
<1>10. f \in [S -> V] /\ t[n] \in [S -> V] BY <1>6
<1>11. ASSUME NEW p \in S PROVE f[p] = G[<<f, p>>]
  <2>1. \A q \in S : lvl[q] < lvl[p] => t[n][q] = f[q] BY <1>9
  <2>2. G[<<t[n], p>>] = G[<<f, p>>]
    <3> HIDE DEF f
    <3> QED BY <1>10, <2>1
  <2> QED BY <1>6, <2>2
<1> HIDE DEF f
<1> QED BY <1>10, <1>11

(* A loop that goes on from one state to the next until it is done defines *)
(* a function, whether or not it ends.                                     *)
Loops(f, D, done, R, step) ==
  f = [s \in D |-> f[s]] /\ \A s \in D : f[s] = IF s \in done THEN R[s] ELSE f[step[s]]

LEMMA LoopDefines ==
  ASSUME NEW D, NEW done, NEW R, NEW step \in [D -> D]
  PROVE  \E f : Loops(f, D, done, R, step)
<1> DEFINE Leads(s, u, k, g) == /\ g[0] = s /\ g[k] = u /\ u \in done
                                /\ \A i \in 0..k - 1 : g[i] \notin done /\ g[i + 1] = step[g[i]]
           Ends(s) == {u \in D : \E k \in Nat : \E g \in [0..k -> D] : Leads(s, u, k, g)}
           f == [s \in D |-> R[CHOOSE u \in Ends(s) : TRUE]]
<1>1. ASSUME NEW s \in D, s \in done PROVE Ends(s) = {s}
  <2>1. s \in Ends(s)
    <3>1. [i \in 0..0 |-> s] \in [0..0 -> D] /\ Leads(s, s, 0, [i \in 0..0 |-> s]) BY <1>1
    <3>2. 0 \in Nat OBVIOUS
    <3> HIDE DEF Leads
    <3> QED BY <3>1, <3>2
  <2>2. ASSUME NEW u \in Ends(s) PROVE u = s
    <3>1a. PICK k \in Nat : \E g \in [0..k -> D] : Leads(s, u, k, g) OBVIOUS
    <3>1. PICK g \in [0..k -> D] : Leads(s, u, k, g) BY <3>1a
    <3>2. k = 0
      <4>1. k # 0 => 0 \in 0..k - 1 OBVIOUS
      <4> QED BY <1>1, <3>1, <4>1
    <3> QED BY <3>1, <3>2
  <2> QED BY <2>1, <2>2
<1>2. ASSUME NEW s \in D, s \notin done PROVE Ends(s) = Ends(step[s])
  <2>0. step[s] \in D OBVIOUS
  <2>1. ASSUME NEW u \in Ends(s) PROVE u \in Ends(step[s])
    <3>1a. PICK k \in Nat : \E g \in [0..k -> D] : Leads(s, u, k, g) OBVIOUS
    <3>1. PICK g \in [0..k -> D] : Leads(s, u, k, g) BY <3>1a
    <3>2. k # 0 BY <1>2, <3>1
    <3> DEFINE h == [i \in 0..k - 1 |-> g[i + 1]]
    <3>3. k - 1 \in Nat /\ h \in [0..k - 1 -> D] BY <3>2
    <3>4. h[0] = g[1] /\ g[1] = step[g[0]]
      <4>1. 0 \in 0..k - 1 /\ 0 + 1 = 1 BY <3>2
      <4> QED BY <3>1, <4>1
    <3>5. h[k - 1] = g[k]
      <4>1. k - 1 \in 0..k - 1 /\ (k - 1) + 1 = k BY <3>2
      <4> QED BY <4>1
    <3>6. ASSUME NEW i \in 0..(k - 1) - 1 PROVE h[i] \notin done /\ h[i + 1] = step[h[i]]
      <4>1. i \in 0..k - 1 /\ i + 1 \in 0..k - 1 OBVIOUS
      <4>2. h[i] = g[i + 1] /\ h[i + 1] = g[(i + 1) + 1] BY <4>1
      <4> QED BY <3>1, <4>1, <4>2
    <3>7. Leads(step[s], u, k - 1, h)
      <4> HIDE DEF h
      <4> QED BY <3>1, <3>4, <3>5, <3>6
    <3> HIDE DEF h, Leads
    <3> QED BY <3>3, <3>7
  <2>2. ASSUME NEW u \in Ends(step[s]) PROVE u \in Ends(s)
    <3>1a. PICK k \in Nat : \E g \in [0..k -> D] : Leads(step[s], u, k, g) OBVIOUS
    <3>1. PICK g \in [0..k -> D] : Leads(step[s], u, k, g) BY <3>1a
    <3> DEFINE h == [i \in 0..k + 1 |-> IF i = 0 THEN s ELSE g[i - 1]]
    <3>2. k + 1 \in Nat /\ h \in [0..k + 1 -> D]
      <4>1. \A i \in 0..k + 1 : i # 0 => i - 1 \in 0..k OBVIOUS
      <4> QED BY <4>1
    <3>3. h[0] = s /\ h[1] = step[s] /\ h[k + 1] = g[k]
      <4>1. 0 \in 0..k + 1 /\ 1 \in 0..k + 1 /\ 1 - 1 = 0 /\ k + 1 \in 0..k + 1 /\ (k + 1) - 1 = k /\ k + 1 # 0
        OBVIOUS
      <4> QED BY <3>1, <4>1
    <3>4. ASSUME NEW i \in 0..(k + 1) - 1 PROVE h[i] \notin done /\ h[i + 1] = step[h[i]]
      <4>1. CASE i = 0 BY <1>2, <3>3, <4>1
      <4>2. CASE i # 0
        <5>1. i \in 0..k + 1 /\ i + 1 \in 0..k + 1 /\ (i + 1) - 1 = (i - 1) + 1 /\ i - 1 \in 0..k - 1 /\ i + 1 # 0
          BY <4>2
        <5>2. h[i] = g[i - 1] /\ h[i + 1] = g[(i - 1) + 1] BY <4>2, <5>1
        <5> QED BY <3>1, <5>1, <5>2
      <4> QED BY <4>1, <4>2
    <3>5. Leads(s, u, k + 1, h)
      <4> HIDE DEF h
      <4> QED BY <3>1, <3>3, <3>4
    <3> HIDE DEF h, Leads
    <3> QED BY <3>2, <3>5
  <2> QED BY <2>1, <2>2
<1>3. ASSUME NEW s \in D PROVE f[s] = IF s \in done THEN R[s] ELSE f[step[s]]
  <2> HIDE DEF Ends
  <2>1. CASE s \in done BY <1>1, <2>1
  <2>2. CASE s \notin done
    <3>1. step[s] \in D OBVIOUS
    <3>2. Ends(s) = Ends(step[s]) BY <1>2, <2>2
    <3>3. f[s] = R[CHOOSE u \in Ends(s) : TRUE] OBVIOUS
    <3>4. f[step[s]] = R[CHOOSE u \in Ends(step[s]) : TRUE] BY <3>1
    <3>5. f[step[s]] = R[CHOOSE u \in Ends(s) : TRUE] BY <3>2, <3>4, Zenon
    <3> QED BY <2>2, <3>3, <3>5
  <2> QED BY <2>1, <2>2
<1>4. f = [s \in D |-> f[s]] OBVIOUS
<1> HIDE DEF f
<1> QED BY <1>3, <1>4 DEF Loops

(* The first and the last place of a list that are in a set.               *)
LEMMA FirstPlace ==
  ASSUME NEW n \in Nat, NEW I, I \subseteq 1..n
  PROVE  /\ I # {} => Min(I) \in I /\ \A k \in I : Min(I) <= k
         /\ I # {} => Max(I) \in I /\ \A k \in I : k <= Max(I)
<1>1. I # {} => \E m \in I : \A k \in I : m <= k
  <2>1. I \subseteq Nat OBVIOUS
  <2> QED BY <2>1, LeastNumber
<1>2. I # {} => \E m \in I : \A k \in I : k <= m
  <2> SUFFICES ASSUME I # {} PROVE \E m \in I : \A k \in I : k <= m OBVIOUS
  <2> DEFINE J == {n - k : k \in I}
  <2>0. \A k \in I : k \in Nat /\ n - k \in Nat OBVIOUS
  <2>1. J \subseteq Nat /\ J # {} BY <2>0
  <2>2. PICK j \in J : \A k \in J : j <= k
    <3> HIDE DEF J
    <3> QED BY <2>1, LeastNumber
  <2>3. PICK m \in I : j = n - m OBVIOUS
  <2>4. ASSUME NEW k \in I PROVE k <= m
    <3>1. j <= n - k BY <2>2
    <3> QED BY <2>3, <3>1
  <2> QED BY <2>4
<1>3. I # {} => Min(I) \in I /\ \A k \in I : Min(I) <= k BY <1>1 DEF Min
<1>4. I # {} => Max(I) \in I /\ \A k \in I : k <= Max(I) BY <1>2 DEF Max
<1> QED BY <1>3, <1>4
=============================================================================
