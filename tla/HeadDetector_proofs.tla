------------------------- MODULE HeadDetector_proofs -------------------------
(***************************************************************************)
(* Proofs about HeadDetector: for every tree of headers, every number of   *)
(* votes and every distance between a block and the votes for it, the      *)
(* walk finds every branch once, no vote is lost or counted twice, and     *)
(* the sort selects a longest branch where nobody voted.                   *)
(*                                                                         *)
(* DetectorInv is the inductive invariant.  It says of every phase what is *)
(* done and what is still to come: of the walk, the branches that were     *)
(* found and the siblings on the stack from which the others will be       *)
(* reached; of the evaluation, the scores of the heads that are done and   *)
(* the votes the cache has seen.  The sort is a step: that its result is   *)
(* sorted follows from the order of the heap on its positions.             *)
(***************************************************************************)
EXTENDS HeadDetector, DataLemmas, FiniteSetTheorems

-----------------------------------------------------------------------------
(* Headers.                                                                *)

(* Every header but those on the ground has a parent with a lower number.  *)
Grows ==
  /\ \E n \in Nat \ {0} : DOMAIN parent = 1..n
  /\ parent \in [Headers -> {0} \cup Headers] /\ \A h \in Headers : parent[h] < h
TreeIs ==
  /\ Grows /\ start \in 1..2
  /\ votes \in [Headers -> [1..DiffBlocks -> Nat]]

(* s lists the elements of S, each one once.                               *)
Lists(s, S) ==
  /\ s \in Seq(S) /\ \A x \in S : \E i \in 1..Len(s) : s[i] = x
  /\ \A i, j \in 1..Len(s) : s[i] = s[j] => i = j

(* There are finitely many headers.                                        *)
LEMMA HeadersAre ==
  ASSUME Grows
  PROVE  /\ Headers \subseteq Nat \ {0} /\ 1 \in Headers /\ IsFiniteSet(Headers)
         /\ \A h \in Headers : parent[h] \in Nat /\ (parent[h] = 0 \/ parent[h] \in Headers) /\ parent[h] < h
<1>1. PICK n \in Nat \ {0} : DOMAIN parent = 1..n BY DEF Grows
<1>2. IsFiniteSet(1..n) BY FS_Interval
<1>3. Headers = 1..n BY <1>1 DEF Headers
<1> QED BY <1>2, <1>3 DEF Grows

(* A finite set of numbers in order.                                       *)
LEMMA InOrderLists ==
  ASSUME NEW S, S \subseteq Nat, IsFiniteSet(S)
  PROVE  Lists(InOrder(S), S) /\ Len(InOrder(S)) = Cardinality(S) /\ Len(InOrder(S)) \in Nat
<1> DEFINE n == Cardinality(S)
           under(x) == {y \in S : y < x}
           rank == [x \in S |-> Cardinality(under(x)) + 1]
           s == InOrder(S)
<1>1. n \in Nat BY FS_CardinalityType
<1>2. ASSUME NEW x \in S PROVE IsFiniteSet(under(x)) /\ Cardinality(under(x)) \in Nat /\ Cardinality(under(x)) < n
  <2>1. under(x) \in SUBSET S /\ x \notin under(x) OBVIOUS
  <2>2. IsFiniteSet(under(x)) /\ Cardinality(under(x)) <= n /\ (n = Cardinality(under(x)) => S = under(x))
    BY <2>1, FS_Subset
  <2>3. Cardinality(under(x)) \in Nat BY <2>2, FS_CardinalityType
  <2> HIDE DEF under
  <2> QED BY <1>1, <2>1, <2>2, <2>3
<1>3. rank \in [S -> 1..n]
  <2> SUFFICES ASSUME NEW x \in S PROVE Cardinality(under(x)) + 1 \in 1..n OBVIOUS
  <2> HIDE DEF under, n
  <2> QED BY <1>1, <1>2
<1>4. ASSUME NEW x \in S, NEW y \in S, x < y PROVE rank[x] < rank[y]
  <2>0. x \in Nat /\ y \in Nat OBVIOUS
  <2>1. under(x) \in SUBSET under(y) /\ x \in under(y) /\ x \notin under(x)
    <3>1. \A z \in S : z \in Nat /\ (z < x => z < y) BY <1>4, <2>0
    <3>2. under(x) \subseteq under(y) BY <3>1
    <3>3. x \in under(y) BY <1>4
    <3>4. x \notin under(x) BY <2>0
    <3> HIDE DEF under
    <3> QED BY <3>2, <3>3, <3>4
  <2>2. Cardinality(under(x)) <= Cardinality(under(y)) /\ Cardinality(under(x)) # Cardinality(under(y))
    BY <1>2, <2>1, FS_Subset
  <2>3. Cardinality(under(x)) < Cardinality(under(y))
    <3> HIDE DEF under
    <3> QED BY <1>2, <2>2
  <2>4. rank[x] = Cardinality(under(x)) + 1 /\ rank[y] = Cardinality(under(y)) + 1 OBVIOUS
  <2> HIDE DEF under, rank
  <2> QED BY <1>2, <2>3, <2>4
<1>5. ASSUME NEW x \in S, NEW y \in S, rank[x] = rank[y] PROVE x = y
  <2>1. rank[x] \in Nat /\ x \in Nat /\ y \in Nat
    <3> HIDE DEF rank, n
    <3> QED BY <1>1, <1>3
  <2>2. x < y \/ x = y \/ y < x BY <2>1
  <2>3. ~(x < y) /\ ~(y < x)
    <3> HIDE DEF rank
    <3> QED BY <1>4, <1>5, <2>1
  <2> QED BY <2>2, <2>3
<1>6. rank \in Surjection(S, 1..n)
  <2>1. rank \in Injection(S, 1..n)
    <3> HIDE DEF rank, n
    <3> QED BY <1>3, <1>5 DEF Injection, IsInjective
  <2>2. IsFiniteSet(1..n) /\ Cardinality(1..n) = n
    <3> HIDE DEF n
    <3> QED BY <1>1, FS_Interval
  <2> HIDE DEF rank
  <2> QED BY <2>1, <2>2, FS_Injection
<1>7. \A i \in 1..n : \E x \in S : rank[x] = i
  <2> HIDE DEF rank, n
  <2> QED BY <1>6 DEF Surjection
<1>8. ASSUME NEW i \in 1..n PROVE s[i] \in S /\ rank[s[i]] = i
  <2>1. s[i] = CHOOSE x \in S : Cardinality(under(x)) = i - 1 BY DEF InOrder
  <2>2. \E x \in S : Cardinality(under(x)) = i - 1
    <3>1. PICK x \in S : rank[x] = i BY <1>7
    <3>2. rank[x] = Cardinality(under(x)) + 1 OBVIOUS
    <3> HIDE DEF rank, under
    <3> QED BY <1>2, <3>1, <3>2
  <2>3. s[i] \in S /\ Cardinality(under(s[i])) = i - 1
    <3> HIDE DEF s, under
    <3> QED BY <2>1, <2>2
  <2>4. rank[s[i]] = Cardinality(under(s[i])) + 1 BY <2>3
  <2> HIDE DEF s, rank, under, n
  <2> QED BY <1>1, <2>3, <2>4
<1>9. s = [i \in 1..n |-> s[i]] BY DEF InOrder
<1> HIDE DEF s, rank, under, n
<1>10. s \in [1..n -> S] BY <1>8, <1>9
<1>11. s \in Seq(S) /\ Len(s) = n BY <1>1, <1>10
<1>12. \A x \in S : \E i \in 1..n : s[i] = x
  <2> SUFFICES ASSUME NEW x \in S PROVE \E i \in 1..n : s[i] = x OBVIOUS
  <2>1. rank[x] \in 1..n BY <1>3
  <2>2. s[rank[x]] \in S /\ rank[s[rank[x]]] = rank[x] BY <1>8, <2>1
  <2>3. s[rank[x]] = x BY <1>5, <2>2
  <2> QED BY <2>1, <2>3
<1>13. \A i, j \in 1..n : s[i] = s[j] => i = j BY <1>8
<1> QED BY <1>1, <1>11, <1>12, <1>13 DEF Lists, s, n

(* The headers of a height and the children of a header.                   *)
LEMMA HeadersListed ==
  ASSUME Grows
  PROVE  /\ \A n : Lists(BlocksAtHeight(n), {h \in Headers : Height(h) = n})
         /\ \A h : Lists(ChildrenOf(h), {c \in Headers : parent[c] = h})
<1>1. ASSUME NEW S \in SUBSET Headers PROVE Lists(InOrder(S), S)
  <2>1. S \subseteq Nat /\ IsFiniteSet(S) BY HeadersAre, FS_Subset
  <2> QED BY <2>1, InOrderLists
<1>2. ASSUME NEW n PROVE Lists(BlocksAtHeight(n), {h \in Headers : Height(h) = n})
  <2>1. {h \in Headers : Height(h) = n} \in SUBSET Headers OBVIOUS
  <2> QED BY <1>1, <2>1, Zenon DEF BlocksAtHeight
<1>3. ASSUME NEW h PROVE Lists(ChildrenOf(h), {c \in Headers : parent[c] = h})
  <2>1. {c \in Headers : parent[c] = h} \in SUBSET Headers OBVIOUS
  <2> QED BY <1>1, <2>1, Zenon DEF ChildrenOf
<1> QED BY <1>2, <1>3

(* The height of a header is one more than that of its parent.             *)
LEMMA HeightIs ==
  ASSUME Grows, NEW h \in Headers
  PROVE  Height(h) \in Nat \ {0} /\ Height(h) = IF parent[h] = 0 THEN 1 ELSE 1 + Height(parent[h])
<1> DEFINE G == [r \in [Headers -> Nat \ {0}] \X Headers |-> IF parent[r[2]] = 0 THEN 1 ELSE 1 + r[1][parent[r[2]]]]
           E(f) == f = [x \in Headers |-> IF parent[x] = 0 THEN 1 ELSE 1 + f[parent[x]]]
           V == Nat \ {0}
<1>1. PICK n \in Nat \ {0} : Headers = 1..n BY DEF Grows, Headers
<1> DEFINE lvl == [x \in Headers |-> x]
<1>2. lvl \in [Headers -> 0..n] BY <1>1
<1>3. Gives(Headers, V, G)
  <2> SUFFICES ASSUME NEW f \in [Headers -> V], NEW p \in Headers PROVE G[<<f, p>>] \in V BY DEF Gives
  <2>1. G[<<f, p>>] = IF parent[p] = 0 THEN 1 ELSE 1 + f[parent[p]] OBVIOUS
  <2>2. parent[p] = 0 \/ f[parent[p]] \in Nat BY HeadersAre
  <2> HIDE DEF G
  <2> QED BY <2>1, <2>2
<1>4. LooksDown(Headers, V, lvl, G)
  <2> SUFFICES ASSUME NEW f \in [Headers -> V], NEW g \in [Headers -> V], NEW p \in Headers,
                      \A q \in Headers : lvl[q] < lvl[p] => f[q] = g[q]
               PROVE  G[<<f, p>>] = G[<<g, p>>] BY DEF LooksDown
  <2>1. parent[p] = 0 \/ f[parent[p]] = g[parent[p]] BY HeadersAre
  <2> QED BY <2>1
<1>5. PICK f \in [Headers -> V] : Solves(f, Headers, G)
  <2>1. V # {} /\ n \in Nat OBVIOUS
  <2> HIDE DEF V, lvl, G
  <2> QED BY <1>2, <1>3, <1>4, <2>1, LevelsDefine
<1>6. \A p \in Headers : f[p] = IF parent[p] = 0 THEN 1 ELSE 1 + f[parent[p]] BY <1>5 DEF Solves
<1>7. E(f) BY <1>6
<1> DEFINE H == CHOOSE g : E(g)
<1>8. E(H)
  <2> HIDE DEF E
  <2> QED BY <1>7
<1>9. ASSUME NEW x \in Headers PROVE Height(x) = H[x] BY DEF Height
<1> HIDE DEF H
<1>10. \A x \in Headers : H[x] = IF parent[x] = 0 THEN 1 ELSE 1 + H[parent[x]] BY <1>8
<1>11. \A x \in Headers : H[x] \in Nat \ {0}
  <2> DEFINE T == {m \in Nat : \A x \in Headers : x <= m => H[x] \in Nat \ {0}}
  <2>1. 0 \in T BY HeadersAre
  <2>2. ASSUME NEW m \in Nat, m \in T PROVE m + 1 \in T
    <3> SUFFICES ASSUME NEW x \in Headers, x <= m + 1 PROVE H[x] \in Nat \ {0} OBVIOUS
    <3>1. parent[x] = 0 \/ H[parent[x]] \in Nat \ {0} BY <2>2, HeadersAre
    <3> QED BY <1>10, <3>1
  <2>3. Nat \subseteq T
    <3> HIDE DEF T
    <3> QED BY <2>1, <2>2, NatUpwards
  <2> QED BY <2>3, HeadersAre
<1> QED BY <1>9, <1>10, <1>11, HeadersAre

(* The header n blocks before h.                                           *)
LEMMA BeforeIs ==
  ASSUME Grows, NEW h \in Headers
  PROVE  /\ Before(h, 0) = h
         /\ \A n \in Nat \ {0} : Before(h, n) = IF Before(h, n - 1) = 0 THEN 0 ELSE parent[Before(h, n - 1)]
         /\ \A n \in Nat : Before(h, n) \in {0} \cup Headers
<1> DEFINE E(n, f) == f = [k \in 0..n |-> IF k = 0 THEN h ELSE IF f[k - 1] = 0 THEN 0 ELSE parent[f[k - 1]]]
           V == {0} \cup Headers
           G == [r \in V \X Nat |-> IF r[1] = 0 THEN 0 ELSE parent[r[1]]]
           C(n) == CHOOSE f : E(n, f)
<1>1. ASSUME NEW n \in Nat PROVE E(n, C(n)) /\ Before(h, n) = C(n)[n]
  <2> DEFINE F == [r \in V \X (1..n) |-> G[r]]
  <2>1. h \in V /\ F \in [V \X (1..n) -> V] BY HeadersAre
  <2>2. PICK f \in [0..n -> V] : IsTurns(f, n, h, F)
    <3> HIDE DEF F, V
    <3> QED BY <2>1, TurnsExist
  <2>3. ASSUME NEW k \in 0..n PROVE f[k] = IF k = 0 THEN h ELSE IF f[k - 1] = 0 THEN 0 ELSE parent[f[k - 1]]
    <3>1. f[k] = IF k = 0 THEN h ELSE F[<<f[k - 1], k>>] BY <2>2 DEF IsTurns
    <3>2. CASE k # 0
      <4>1. k - 1 \in 0..n /\ k \in 1..n BY <3>2
      <4>2. f[k - 1] \in V BY <2>2, <4>1
      <4>3. F[<<f[k - 1], k>>] = IF f[k - 1] = 0 THEN 0 ELSE parent[f[k - 1]] BY <4>1, <4>2
      <4> QED BY <3>1, <3>2, <4>3
    <3> QED BY <3>1, <3>2
  <2>4. E(n, f) BY <2>2, <2>3
  <2>5. E(n, C(n))
    <3> HIDE DEF E
    <3> QED BY <2>4
  <2>6. Before(h, n) = C(n)[n] BY DEF Before
  <2> QED BY <2>5, <2>6
<1> HIDE DEF C
<1>2. ASSUME NEW n \in Nat, NEW k \in 0..n
      PROVE  C(n)[k] = IF k = 0 THEN h ELSE IF C(n)[k - 1] = 0 THEN 0 ELSE parent[C(n)[k - 1]]
  BY <1>1
<1>3. ASSUME NEW n \in Nat PROVE \A k \in Nat : k <= n => C(n)[k] = C(k)[k]
  <2> DEFINE T == {k \in Nat : \A m \in Nat : k <= m => \A j \in 0..k : C(m)[j] = C(k)[j]}
  <2>1. 0 \in T
    <3> SUFFICES ASSUME NEW m \in Nat PROVE C(m)[0] = C(0)[0] OBVIOUS
    <3> QED BY <1>2
  <2>2. ASSUME NEW k \in Nat, k \in T PROVE k + 1 \in T
    <3> SUFFICES ASSUME NEW m \in Nat, k + 1 <= m, NEW j \in 0..k + 1 PROVE C(m)[j] = C(k + 1)[j] OBVIOUS
    <3>1. \A i \in 0..k : C(m)[i] = C(k + 1)[i] BY <2>2
    <3>2. CASE j = k + 1
      <4>1. k \in 0..k /\ (k + 1) - 1 = k /\ k + 1 # 0 /\ k + 1 \in 0..m /\ k + 1 \in 0..k + 1 OBVIOUS
      <4>2. C(m)[k] = C(k + 1)[k] BY <3>1, <4>1
      <4>3. C(m)[k + 1] = IF C(m)[k] = 0 THEN 0 ELSE parent[C(m)[k]] BY <1>2, <4>1
      <4>4. C(k + 1)[k + 1] = IF C(k + 1)[k] = 0 THEN 0 ELSE parent[C(k + 1)[k]] BY <1>2, <4>1
      <4> QED BY <3>2, <4>2, <4>3, <4>4
    <3>3. CASE j # k + 1 BY <3>1, <3>3
    <3> QED BY <3>2, <3>3
  <2>3. Nat \subseteq T
    <3> HIDE DEF T
    <3> QED BY <2>1, <2>2, NatUpwards
  <2>4. SUFFICES ASSUME NEW k \in Nat, k <= n PROVE C(n)[k] = C(k)[k] OBVIOUS
  <2>5. k \in T /\ k \in 0..k BY <2>3
  <2> QED BY <2>4, <2>5
<1>4. Before(h, 0) = h BY <1>1, <1>2
<1>5. ASSUME NEW n \in Nat \ {0}
      PROVE  Before(h, n) = IF Before(h, n - 1) = 0 THEN 0 ELSE parent[Before(h, n - 1)]
  <2>1. n \in 0..n /\ n - 1 \in Nat /\ n - 1 <= n /\ n # 0 OBVIOUS
  <2>2. C(n)[n - 1] = C(n - 1)[n - 1] BY <1>3, <2>1
  <2>3. C(n)[n] = IF C(n)[n - 1] = 0 THEN 0 ELSE parent[C(n)[n - 1]] BY <1>2, <2>1
  <2>4. Before(h, n) = C(n)[n] /\ Before(h, n - 1) = C(n - 1)[n - 1] BY <1>1, <2>1
  <2> QED BY <2>2, <2>3, <2>4
<1>6. \A n \in Nat : Before(h, n) \in {0} \cup Headers
  <2> DEFINE T == {n \in Nat : Before(h, n) \in {0} \cup Headers}
  <2>1. 0 \in T BY <1>4
  <2>2. ASSUME NEW n \in Nat, n \in T PROVE n + 1 \in T
    <3>1. n + 1 \in Nat \ {0} /\ (n + 1) - 1 = n OBVIOUS
    <3>2. Before(h, n + 1) = IF Before(h, n) = 0 THEN 0 ELSE parent[Before(h, n)] BY <1>5, <3>1
    <3> QED BY <2>2, <3>1, <3>2, HeadersAre
  <2>3. Nat \subseteq T
    <3> HIDE DEF T
    <3> QED BY <2>1, <2>2, NatUpwards
  <2> QED BY <2>3
<1> QED BY <1>4, <1>5, <1>6

-----------------------------------------------------------------------------
(* Branches.                                                               *)

(* The header k blocks before h is k lower, while there is one.            *)
LEMMA BeforeHeight ==
  ASSUME Grows, NEW h \in Headers, NEW k \in Nat
  PROVE  IF k < Height(h) THEN Before(h, k) \in Headers /\ Height(Before(h, k)) = Height(h) - k
         ELSE Before(h, k) = 0
<1> DEFINE J(j) == IF j < Height(h) THEN Before(h, j) \in Headers /\ Height(Before(h, j)) = Height(h) - j
                   ELSE Before(h, j) = 0
           T == {j \in Nat : J(j)}
<1>0. Height(h) \in Nat \ {0} BY HeightIs
<1>1. 0 \in T BY <1>0, BeforeIs
<1>2. ASSUME NEW j \in Nat, j \in T PROVE j + 1 \in T
  <2>0. j + 1 \in Nat \ {0} /\ (j + 1) - 1 = j OBVIOUS
  <2>1. Before(h, j + 1) = IF Before(h, j) = 0 THEN 0 ELSE parent[Before(h, j)] BY <2>0, BeforeIs
  <2>2. CASE j < Height(h)
    <3> DEFINE x == Before(h, j)
    <3>1. x \in Headers /\ Height(x) = Height(h) - j BY <1>2, <2>2
    <3>2. x # 0 /\ (parent[x] = 0 \/ parent[x] \in Headers) BY <3>1, HeadersAre
    <3>3. Height(x) = IF parent[x] = 0 THEN 1 ELSE 1 + Height(parent[x]) BY <3>1, HeightIs
    <3>4. parent[x] # 0 => Height(parent[x]) \in Nat \ {0} BY <3>2, HeightIs
    <3>5. Before(h, j + 1) = parent[x] BY <2>1, <3>2
    <3> HIDE DEF x
    <3>6. J(j + 1) BY <1>0, <2>2, <3>1, <3>2, <3>3, <3>4, <3>5
    <3> QED BY <3>6
  <2>3. CASE ~(j < Height(h))
    <3>1. Before(h, j) = 0 BY <1>2, <2>3
    <3> QED BY <1>0, <2>1, <2>3, <3>1
  <2> QED BY <2>2, <2>3
<1>3. Nat \subseteq T
  <2> HIDE DEF T
  <2> QED BY <1>1, <1>2, NatUpwards
<1>4. J(k) BY <1>3
<1> QED BY <1>4

(* p goes from block to child.                                             *)
Chain(p) ==
  /\ p \in Seq(Headers) /\ Len(p) > 0 /\ \A i \in 1..Len(p) : p[i] \in Headers
  /\ \A i \in 1..Len(p) - 1 : parent[p[i + 1]] = p[i]

(* On a chain the heights go up by one.                                    *)
LEMMA ChainHeights ==
  ASSUME Grows, NEW p, Chain(p)
  PROVE  /\ Len(p) \in Nat \ {0}
         /\ \A i \in 1..Len(p) : p[i] \in Headers /\ Height(p[i]) = Height(p[1]) + i - 1
<1>1. Len(p) \in Nat \ {0} BY DEF Chain
<1>2. \A i \in 1..Len(p) : p[i] \in Headers BY DEF Chain
<1> DEFINE T == {i \in Nat : i + 1 <= Len(p) => Height(p[i + 1]) = Height(p[1]) + i}
<1>3. 0 \in T
  <2>1. Height(p[1]) \in Nat BY <1>1, <1>2, HeightIs
  <2> QED BY <2>1
<1>4. ASSUME NEW i \in Nat, i \in T PROVE i + 1 \in T
  <2> SUFFICES ASSUME (i + 1) + 1 <= Len(p) PROVE Height(p[(i + 1) + 1]) = Height(p[1]) + (i + 1) OBVIOUS
  <2>1. i + 1 \in 1..Len(p) - 1 /\ i + 1 \in 1..Len(p) /\ (i + 1) + 1 \in 1..Len(p) /\ 1 \in 1..Len(p) BY <1>1
  <2>2. parent[p[(i + 1) + 1]] = p[i + 1] BY <2>1 DEF Chain
  <2>3. p[i + 1] # 0 BY <1>2, <2>1, HeadersAre
  <2>4. Height(p[(i + 1) + 1]) = 1 + Height(p[i + 1]) BY <1>2, <2>1, <2>2, <2>3, HeightIs
  <2>5. Height(p[i + 1]) = Height(p[1]) + i BY <1>4, <2>1
  <2>6. Height(p[1]) \in Nat BY <1>2, <2>1, HeightIs
  <2> QED BY <2>4, <2>5, <2>6
<1>5. Nat \subseteq T
  <2> HIDE DEF T
  <2> QED BY <1>3, <1>4, NatUpwards
<1>6. ASSUME NEW i \in 1..Len(p) PROVE Height(p[i]) = Height(p[1]) + i - 1
  <2>1. i - 1 \in Nat /\ (i - 1) + 1 = i /\ i <= Len(p) BY <1>1
  <2>2. i - 1 \in T BY <1>5, <2>1
  <2>3. Height(p[i]) = Height(p[1]) + (i - 1) BY <2>1, <2>2
  <2>4. Height(p[1]) \in Nat /\ i \in Nat BY <1>1, <1>2, HeightIs
  <2> QED BY <2>3, <2>4
<1> QED BY <1>1, <1>2, <1>6

(* On a chain the header j blocks before another is j places before it.    *)
LEMMA ChainBefore ==
  ASSUME Grows, NEW p, Chain(p), NEW i \in 1..Len(p), NEW j \in 0..i - 1
  PROVE  Before(p[i], j) = p[i - j]
<1>1. Len(p) \in Nat \ {0} /\ \A k \in 1..Len(p) : p[k] \in Headers BY ChainHeights
<1> DEFINE T == {k \in Nat : k < i => Before(p[i], k) = p[i - k]}
<1>2. 0 \in T BY <1>1, BeforeIs
<1>3. ASSUME NEW k \in Nat, k \in T PROVE k + 1 \in T
  <2> SUFFICES ASSUME k + 1 < i PROVE Before(p[i], k + 1) = p[i - (k + 1)] OBVIOUS
  <2>1. k < i /\ i - k \in 1..Len(p) /\ i - (k + 1) \in 1..Len(p) - 1 /\ (i - (k + 1)) + 1 = i - k
        /\ k + 1 \in Nat \ {0} /\ (k + 1) - 1 = k BY <1>1
  <2>2. Before(p[i], k) = p[i - k] BY <1>3, <2>1
  <2>3. p[i - k] # 0 BY <1>1, <2>1, HeadersAre
  <2>4. parent[p[i - k]] = p[i - (k + 1)]
    <3>1. parent[p[(i - (k + 1)) + 1]] = p[i - (k + 1)] BY <2>1 DEF Chain
    <3> QED BY <2>1, <3>1
  <2>5. Before(p[i], k + 1) = IF Before(p[i], k) = 0 THEN 0 ELSE parent[Before(p[i], k)]
    <3>1. p[i] \in Headers BY <1>1
    <3>2. \A m \in Nat \ {0} :
            Before(p[i], m) = IF Before(p[i], m - 1) = 0 THEN 0 ELSE parent[Before(p[i], m - 1)]
      BY <3>1, BeforeIs
    <3>3. Before(p[i], k + 1) = IF Before(p[i], (k + 1) - 1) = 0 THEN 0 ELSE parent[Before(p[i], (k + 1) - 1)]
      BY <2>1, <3>2
    <3> QED BY <2>1, <3>3
  <2> QED BY <2>2, <2>3, <2>4, <2>5
<1>4. Nat \subseteq T
  <2> HIDE DEF T
  <2> QED BY <1>2, <1>3, NatUpwards
<1>5. j \in T /\ j < i BY <1>1, <1>4
<1> QED BY <1>5

(* The chain from the start to a header.                                   *)
LEMMA PathIs ==
  ASSUME Grows, start \in 1..2, NEW h \in Headers, Height(h) >= start
  PROVE  /\ Chain(PathTo(h)) /\ Len(PathTo(h)) = Height(h) - start + 1
         /\ Height(PathTo(h)[1]) = start /\ PathTo(h)[Len(PathTo(h))] = h
<1> DEFINE n == Height(h) - start + 1
           p == PathTo(h)
<1>1. Height(h) \in Nat \ {0} /\ n \in Nat \ {0} BY HeightIs
<1>2. p = [i \in 1..n |-> Before(h, n - i)] BY DEF PathTo
<1>3. ASSUME NEW i \in 1..n
      PROVE  Before(h, n - i) \in Headers /\ Height(Before(h, n - i)) = start + i - 1
  <2>1. n - i \in Nat /\ n - i < Height(h) BY <1>1
  <2>2. Before(h, n - i) \in Headers /\ Height(Before(h, n - i)) = Height(h) - (n - i) BY <2>1, BeforeHeight
  <2> QED BY <1>1, <2>2
<1> HIDE DEF n, p
<1>4. p \in [1..n -> Headers] BY <1>2, <1>3
<1>5. p \in Seq(Headers) /\ Len(p) = n BY <1>1, <1>4
<1>6. ASSUME NEW i \in 1..n - 1 PROVE parent[p[i + 1]] = p[i]
  <2>1. i \in 1..n /\ i + 1 \in 1..n /\ n - i \in Nat \ {0} /\ (n - i) - 1 = n - (i + 1) BY <1>1
  <2>2. p[i] = Before(h, n - i) /\ p[i + 1] = Before(h, n - (i + 1)) BY <1>2, <2>1
  <2>3. Before(h, n - i) = IF Before(h, (n - i) - 1) = 0 THEN 0 ELSE parent[Before(h, (n - i) - 1)]
    BY <2>1, BeforeIs
  <2>4. p[i + 1] # 0 BY <1>4, <2>1, HeadersAre
  <2> QED BY <2>1, <2>2, <2>3, <2>4
<1>7. Chain(p) BY <1>1, <1>4, <1>5, <1>6 DEF Chain
<1>8. Height(p[1]) = start /\ p[n] = h
  <2>1. 1 \in 1..n /\ n \in 1..n /\ n - n = 0 BY <1>1
  <2>2. p[1] = Before(h, n - 1) /\ p[n] = Before(h, n - n) BY <1>2, <2>1
  <2>3. Height(p[1]) = start + 1 - 1 BY <1>3, <2>1, <2>2
  <2> QED BY <2>1, <2>2, <2>3, BeforeIs
<1> QED BY <1>5, <1>7, <1>8 DEF n, p

(* There is no other chain from the start to that header.                  *)
LEMMA PathOnly ==
  ASSUME Grows, start \in 1..2, NEW p, Chain(p), Height(p[1]) = start
  PROVE  p[Len(p)] \in Headers /\ Height(p[Len(p)]) = start + Len(p) - 1 /\ p = PathTo(p[Len(p)])
<1> DEFINE n == Len(p)
           h == p[n]
           q == PathTo(h)
<1>1. n \in Nat \ {0} /\ \A i \in 1..n : p[i] \in Headers /\ Height(p[i]) = start + i - 1 BY ChainHeights
<1>2. n \in 1..n /\ h \in Headers /\ Height(h) = start + n - 1 BY <1>1
<1>3. Height(h) - start + 1 = n BY <1>1, <1>2
<1>4. q = [i \in 1..n |-> Before(h, n - i)] BY <1>3 DEF PathTo
<1>5. ASSUME NEW i \in 1..n PROVE q[i] = p[i]
  <2>1. n - i \in 0..n - 1 /\ n - (n - i) = i BY <1>1
  <2>2. Before(h, n - i) = p[n - (n - i)] BY <1>2, <2>1, ChainBefore
  <2> QED BY <1>4, <2>1, <2>2
<1>6. p \in [1..n -> Headers] BY DEF Chain
<1>7. p = q
  <2> HIDE DEF n, q
  <2> QED BY <1>4, <1>5, <1>6
<1> QED BY <1>2, <1>7

(* The blocks the walk begins with.                                        *)
LEMMA StartsAre ==
  ASSUME Grows, start \in 1..2
  PROVE  /\ StartBlocks \in Seq(Headers) /\ Len(StartBlocks) \in Nat
         /\ \A i \in 1..Len(StartBlocks) : StartBlocks[i] \in Headers /\ Height(StartBlocks[i]) = start
         /\ \A i, j \in 1..Len(StartBlocks) : StartBlocks[i] = StartBlocks[j] => i = j
         /\ \A h \in Headers : Height(h) = start =>
              ((\E i \in 1..Len(StartBlocks) : StartBlocks[i] = h) <=> start = 1 \/ h = Head(BlocksAtHeight(start)))
<1> DEFINE b == BlocksAtHeight(start)
           S == {h \in Headers : Height(h) = start}
           s == StartBlocks
<1>1. Lists(b, S) BY HeadersListed
<1>2. b \in Seq(S) /\ Len(b) \in Nat /\ \A i \in 1..Len(b) : b[i] \in S BY <1>1 DEF Lists
<1>2a. b \in Seq(Headers)
  <2>1. S \subseteq Headers OBVIOUS
  <2> HIDE DEF S, b
  <2> QED BY <1>2, <2>1
<1>3. CASE start = 1
  <2>1. s = b BY <1>3 DEF StartBlocks
  <2> HIDE DEF s, b
  <2> QED BY <1>1, <1>2, <1>2a, <1>3, <2>1 DEF Lists, s, b
<1>4. CASE start # 1
  <2>1. s = SubSeq(b, 1, Min({1, Len(b)})) BY <1>4 DEF StartBlocks
  <2>2. Min({1, Len(b)}) = IF Len(b) = 0 THEN 0 ELSE 1
    <3> DEFINE m == IF Len(b) = 0 THEN 0 ELSE 1
    <3>1. m \in {1, Len(b)} /\ \A k \in {1, Len(b)} : m <= k BY <1>2
    <3>2. \A x \in {1, Len(b)} : (\A k \in {1, Len(b)} : x <= k) => x = m BY <1>2
    <3> HIDE DEF m, b
    <3>3. Min({1, Len(b)}) = m BY <3>1, <3>2 DEF Min
    <3> QED BY <3>3 DEF m
  <2>3. CASE Len(b) = 0
    <3>1. s = <<>> BY <1>2, <2>1, <2>2, <2>3
    <3>2. ASSUME NEW h \in Headers, Height(h) = start PROVE FALSE
      <4>1. \E i \in 1..Len(b) : b[i] = h BY <1>1, <3>2 DEF Lists
      <4> QED BY <2>3, <4>1
    <3> HIDE DEF s
    <3> QED BY <3>1, <3>2 DEF s
  <2>4. CASE Len(b) # 0
    <3>1. b[1] \in S /\ Head(b) = b[1] BY <1>2, <2>4
    <3>2. s = SubSeq(b, 1, 1) BY <2>1, <2>2, <2>4
    <3>3. s \in Seq(Headers) /\ Len(s) = 1 /\ s[1] = b[1]
      <4> HIDE DEF s, b
      <4>1. Len(b) >= 1 BY <1>2, <2>4
      <4> QED BY <1>2, <1>2a, <3>2, <4>1
    <3> HIDE DEF s, b
    <3> QED BY <1>4, <3>1, <3>3 DEF s, b
  <2> QED BY <1>2, <2>3, <2>4
<1> QED BY <1>3, <1>4

(* The heads to find are the chains from such a block to a leaf.           *)
Grown(p) == Chain(p) /\ (\E i \in 1..Len(StartBlocks) : StartBlocks[i] = p[1]) /\ ChildrenOf(p[Len(p)]) = <<>>

(* Selectable, which is made of the paths to the leaves, is the set of     *)
(* these chains.                                                           *)
LEMMA SelectableIs ==
  ASSUME Grows, start \in 1..2
  PROVE  \A p : p \in Selectable <=> Grown(p)
<1> DEFINE L == {l \in Headers : ChildrenOf(l) = <<>> /\ Height(l) >= start}
<1>1. Branches = {PathTo(h) : h \in L} BY DEF Branches
<1>2. ASSUME NEW p, p \in Branches
      PROVE  /\ Chain(p) /\ ChildrenOf(p[Len(p)]) = <<>> /\ p[1] \in Headers /\ Height(p[1]) = start
  <2>1. PICK h \in L : p = PathTo(h) BY <1>1, <1>2
  <2>2. Chain(p) /\ Height(p[1]) = start /\ p[Len(p)] = h BY <2>1, PathIs
  <2>3. p[1] \in Headers BY <2>2, ChainHeights
  <2> QED BY <2>1, <2>2, <2>3
<1>3. ASSUME NEW p, Grown(p) PROVE p \in Branches /\ p[1] \in Headers /\ Height(p[1]) = start
  <2>1. p[1] \in Headers /\ Height(p[1]) = start BY <1>3, StartsAre DEF Grown
  <2>2. p[Len(p)] \in Headers /\ Height(p[Len(p)]) = start + Len(p) - 1 /\ p = PathTo(p[Len(p)])
    BY <1>3, <2>1, PathOnly DEF Grown
  <2>3. Len(p) \in Nat \ {0} BY <1>3, ChainHeights DEF Grown
  <2>4. p[Len(p)] \in L BY <1>3, <2>2, <2>3 DEF Grown
  <2> QED BY <1>1, <2>1, <2>2, <2>4
<1>4. ASSUME NEW p PROVE p \in Selectable <=> p \in Branches /\ (start = 1 \/ p[1] = Head(BlocksAtHeight(start)))
  BY DEF Selectable
<1> SUFFICES ASSUME NEW p PROVE p \in Selectable <=> Grown(p) OBVIOUS
<1>5. ASSUME p \in Selectable PROVE Grown(p)
  <2>1. p \in Branches /\ (start = 1 \/ p[1] = Head(BlocksAtHeight(start))) BY <1>4, <1>5
  <2>2. Chain(p) /\ ChildrenOf(p[Len(p)]) = <<>> /\ p[1] \in Headers /\ Height(p[1]) = start BY <1>2, <2>1
  <2>3. \E i \in 1..Len(StartBlocks) : StartBlocks[i] = p[1] BY <2>1, <2>2, StartsAre
  <2> QED BY <2>2, <2>3 DEF Grown
<1>6. ASSUME Grown(p) PROVE p \in Selectable
  <2>1. p \in Branches /\ p[1] \in Headers /\ Height(p[1]) = start BY <1>3, <1>6
  <2>2. start = 1 \/ p[1] = Head(BlocksAtHeight(start)) BY <1>6, <2>1, StartsAre DEF Grown
  <2> QED BY <1>4, <2>1, <2>2
<1> QED BY <1>5, <1>6

-----------------------------------------------------------------------------
(* The walk with the stack of siblings.                                    *)

(* Each element lists the children of the current block of the one below.  *)
Siblings == [pos : Nat, list : Seq(Headers)]
OnStack(s) ==
  /\ s \in Seq(Siblings) /\ Len(s) > 0 /\ s[1].list = StartBlocks
  /\ \A i \in 1..Len(s) : s[i].pos \in 1..Len(s[i].list)
  /\ \A i \in 1..Len(s) - 1 : s[i + 1].list = ChildrenOf(Current(s[i]))

(* The path p leaves the current blocks at element k, for the j-th block.  *)
Parts(s, p, k, j) ==
  /\ k <= Len(p) /\ \A i \in 1..k - 1 : p[i] = Current(s[i])
  /\ j \in 1..Len(s[k].list) /\ p[k] = s[k].list[j]

(* The branches that a walk with stack s is still to find.                 *)
Later(s, k, j) == j > s[k].pos \/ (k = Len(s) /\ j = s[k].pos)
ToCome(s) == {p \in Selectable : \E k \in 1..Len(s) : \E j \in Nat : Parts(s, p, k, j) /\ Later(s, k, j)}

(* The blocks of an element are different.                                 *)
LEMMA StackIs ==
  ASSUME Grows, start \in 1..2, NEW s, OnStack(s)
  PROVE  /\ Len(s) \in Nat \ {0}
         /\ \A k \in 1..Len(s) :
              /\ s[k] \in Siblings /\ s[k].pos \in Nat /\ Len(s[k].list) \in Nat /\ s[k].list \in Seq(Headers)
              /\ \A i \in 1..Len(s[k].list) : s[k].list[i] \in Headers
              /\ \A i, j \in 1..Len(s[k].list) : s[k].list[i] = s[k].list[j] => i = j
              /\ s[k].pos \in 1..Len(s[k].list) /\ Current(s[k]) \in Headers
<1>1. Len(s) \in Nat \ {0} BY DEF OnStack
<1> SUFFICES ASSUME NEW k \in 1..Len(s)
             PROVE  /\ s[k] \in Siblings /\ s[k].pos \in Nat /\ Len(s[k].list) \in Nat /\ s[k].list \in Seq(Headers)
                    /\ \A i \in 1..Len(s[k].list) : s[k].list[i] \in Headers
                    /\ \A i, j \in 1..Len(s[k].list) : s[k].list[i] = s[k].list[j] => i = j
                    /\ s[k].pos \in 1..Len(s[k].list) /\ Current(s[k]) \in Headers
  BY <1>1
<1>2. s[k] \in Siblings BY DEF OnStack
<1>3. s[k].pos \in Nat /\ s[k].list \in Seq(Headers) BY <1>2 DEF Siblings
<1>4. Len(s[k].list) \in Nat /\ \A i \in 1..Len(s[k].list) : s[k].list[i] \in Headers BY <1>3
<1>5. s[k].pos \in 1..Len(s[k].list) BY DEF OnStack
<1>6. \A i, j \in 1..Len(s[k].list) : s[k].list[i] = s[k].list[j] => i = j
  <2>1. CASE k = 1
    <3>1. s[k].list = StartBlocks BY <2>1 DEF OnStack
    <3> QED BY <3>1, StartsAre
  <2>2. CASE k # 1
    <3>1. k - 1 \in 1..Len(s) - 1 /\ (k - 1) + 1 = k BY <1>1, <2>2
    <3>2. s[k].list = ChildrenOf(Current(s[k - 1])) BY <3>1 DEF OnStack
    <3> DEFINE h == Current(s[k - 1])
    <3>3. Lists(ChildrenOf(h), {c \in Headers : parent[c] = h})
      <4> HIDE DEF h
      <4> QED BY HeadersListed
    <3> QED BY <3>2, <3>3 DEF Lists
  <2> QED BY <2>1, <2>2
<1> QED BY <1>2, <1>3, <1>4, <1>5, <1>6 DEF Current

(* The children of a block, or none.                                       *)
LEMMA ChildrenFound ==
  ASSUME Grows, NEW h
  PROVE  /\ ChildrenOf(h) \in Seq(Headers) /\ Len(ChildrenOf(h)) \in Nat
         /\ \A c \in Headers : parent[c] = h <=> \E i \in 1..Len(ChildrenOf(h)) : ChildrenOf(h)[i] = c
         /\ \A i \in 1..Len(ChildrenOf(h)) : ChildrenOf(h)[i] \in Headers /\ parent[ChildrenOf(h)[i]] = h
         /\ ChildrenOf(h) = <<>> <=> Len(ChildrenOf(h)) = 0
<1> DEFINE S == {c \in Headers : parent[c] = h}
           s == ChildrenOf(h)
<1>1. Lists(s, S) BY HeadersListed
<1>2. s \in Seq(S) BY <1>1 DEF Lists
<1> HIDE DEF s
<1>3. Len(s) \in Nat /\ \A i \in 1..Len(s) : s[i] \in S BY <1>2
<1>4. s \in Seq(Headers) BY <1>2, <1>3
<1>5. s = <<>> <=> Len(s) = 0 BY <1>2, EmptySeq
<1>6. \A c \in S : \E i \in 1..Len(s) : s[i] = c BY <1>1 DEF Lists
<1> QED BY <1>3, <1>4, <1>5, <1>6 DEF s

(* The current blocks are a chain from a start block.                      *)
Trail(s) == [k \in 1..Len(s) |-> Current(s[k])]

(* It is a chain: each block on the stack is a child of the one below it.  *)
LEMMA TrailIs ==
  ASSUME Grows, start \in 1..2, NEW s, OnStack(s)
  PROVE  /\ Chain(Trail(s)) /\ Len(Trail(s)) = Len(s) /\ \E i \in 1..Len(StartBlocks) : StartBlocks[i] = Trail(s)[1]
         /\ \A i \in 1..Len(s) : Trail(s)[i] = Current(s[i])
<1> DEFINE p == Trail(s)
<1>1. Len(s) \in Nat \ {0} /\ \A i \in 1..Len(s) : Current(s[i]) \in Headers BY StackIs
<1>2. p = [k \in 1..Len(s) |-> Current(s[k])] BY DEF Trail
<1> HIDE DEF p
<1>3. p \in Seq(Headers) /\ Len(p) = Len(s) /\ \A i \in 1..Len(s) : p[i] = Current(s[i]) BY <1>1, <1>2
<1>4. ASSUME NEW i \in 1..Len(s) - 1 PROVE parent[p[i + 1]] = p[i]
  <2>1. i \in 1..Len(s) /\ i + 1 \in 1..Len(s) BY <1>1
  <2>2. s[i + 1].list = ChildrenOf(Current(s[i])) /\ s[i + 1].pos \in 1..Len(s[i + 1].list) BY <2>1 DEF OnStack
  <2>3. parent[Current(s[i + 1])] = Current(s[i]) BY <2>2, ChildrenFound DEF Current
  <2> QED BY <1>3, <2>1, <2>3
<1>5. p[1] = StartBlocks[s[1].pos] /\ s[1].pos \in 1..Len(StartBlocks)
  <2>1. 1 \in 1..Len(s) BY <1>1
  <2> QED BY <1>3, <2>1 DEF OnStack, Current
<1>6. Chain(p) BY <1>1, <1>3, <1>4 DEF Chain
<1> QED BY <1>3, <1>5, <1>6 DEF p

(* At first all branches are to come.                                      *)
LEMMA ComeFirst ==
  ASSUME Grows, start \in 1..2, StartBlocks # <<>>
  PROVE  OnStack(<<Element(StartBlocks)>>) /\ ToCome(<<Element(StartBlocks)>>) = Selectable
<1> DEFINE e == Element(StartBlocks)
           s == <<e>>
<1>1. e \in Siblings /\ e.pos = 1 /\ e.list = StartBlocks BY StartsAre DEF Element, Siblings
<1>2. Len(StartBlocks) \in Nat \ {0} BY StartsAre, EmptySeq
<1> HIDE DEF e
<1>3. s \in Seq(Siblings) /\ Len(s) = 1 /\ s[1] = e BY <1>1
<1>4. OnStack(s) BY <1>1, <1>2, <1>3 DEF OnStack
<1>5. ASSUME NEW p \in Selectable PROVE p \in ToCome(s)
  <2>1. Grown(p) BY SelectableIs
  <2>2. PICK j \in 1..Len(StartBlocks) : StartBlocks[j] = p[1] BY <2>1 DEF Grown
  <2>3. Len(p) \in Nat \ {0} BY <2>1, ChainHeights DEF Grown
  <2>4. Parts(s, p, 1, j) BY <1>1, <1>3, <2>2, <2>3 DEF Parts
  <2>5. Later(s, 1, j) /\ j \in Nat BY <1>1, <1>2, <1>3, <2>2 DEF Later
  <2> QED BY <1>3, <2>4, <2>5 DEF ToCome
<1> QED BY <1>4, <1>5 DEF ToCome, e

(* Going down to the children loses no branch.                             *)
LEMMA ComePush ==
  ASSUME Grows, start \in 1..2, NEW s, OnStack(s), ChildrenOf(Current(s[Len(s)])) # <<>>
  PROVE  LET t == Append(s, Element(ChildrenOf(Current(s[Len(s)])))) IN OnStack(t) /\ ToCome(t) = ToCome(s)
<1> DEFINE n == Len(s)
           c == ChildrenOf(Current(s[n]))
           e == Element(c)
           t == Append(s, e)
<1>1. n \in Nat \ {0} /\ s \in Seq(Siblings) /\ n \in 1..n BY StackIs DEF OnStack
<1>2. c \in Seq(Headers) /\ Len(c) \in Nat \ {0} BY ChildrenFound
<1>3. e \in Siblings /\ e.pos = 1 /\ e.list = c
  <2> HIDE DEF c
  <2> QED BY <1>2 DEF Element, Siblings
<1> HIDE DEF e, c
<1>4. t \in Seq(Siblings) /\ Len(t) = n + 1 /\ t[n + 1] = e /\ \A i \in 1..n : t[i] = s[i] BY <1>1, <1>3
<1> HIDE DEF t
<1>5. OnStack(t)
  <2>1. t[1].list = StartBlocks BY <1>1, <1>4 DEF OnStack
  <2>2. \A i \in 1..n + 1 : t[i].pos \in 1..Len(t[i].list)
    <3> SUFFICES ASSUME NEW i \in 1..n + 1 PROVE t[i].pos \in 1..Len(t[i].list) OBVIOUS
    <3>1. CASE i = n + 1 BY <1>2, <1>3, <1>4, <3>1
    <3>2. CASE i # n + 1
      <4>1. i \in 1..n BY <1>1, <3>2
      <4> QED BY <1>4, <4>1 DEF OnStack
    <3> QED BY <3>1, <3>2
  <2>3. \A i \in 1..(n + 1) - 1 : t[i + 1].list = ChildrenOf(Current(t[i]))
    <3> SUFFICES ASSUME NEW i \in 1..n PROVE t[i + 1].list = ChildrenOf(Current(t[i])) BY <1>1
    <3>1. CASE i = n BY <1>1, <1>3, <1>4, <3>1 DEF c
    <3>2. CASE i # n
      <4>1. i \in 1..n - 1 /\ i + 1 \in 1..n BY <1>1, <3>2
      <4> QED BY <1>4, <4>1 DEF OnStack
    <3> QED BY <3>1, <3>2
  <2> QED BY <1>1, <1>4, <2>1, <2>2, <2>3 DEF OnStack
<1>6. ASSUME NEW p, NEW k \in 1..n, NEW j PROVE Parts(s, p, k, j) <=> Parts(t, p, k, j)
  <2>1. t[k] = s[k] /\ \A i \in 1..k - 1 : t[i] = s[i] BY <1>1, <1>4
  <2> QED BY <2>1 DEF Parts
<1>7. ASSUME NEW p \in ToCome(s) PROVE p \in ToCome(t)
  <2>1. p \in Selectable BY DEF ToCome
  <2>2. PICK k \in 1..n, j \in Nat : Parts(s, p, k, j) /\ Later(s, k, j) BY DEF ToCome
  <2>3. k \in 1..n + 1 /\ t[k] = s[k] BY <1>1, <1>4
  <2>4. CASE j > s[k].pos
    <3>1. Parts(t, p, k, j) BY <1>6, <2>2
    <3>2. Later(t, k, j) BY <2>3, <2>4 DEF Later
    <3> QED BY <1>4, <2>1, <2>3, <3>1, <3>2 DEF ToCome
  <2>5. CASE ~(j > s[k].pos)
    <3>1. k = n /\ j = s[n].pos BY <2>2, <2>5 DEF Later
    <3>2. n <= Len(p) /\ p[n] = Current(s[n]) /\ \A i \in 1..n - 1 : p[i] = Current(s[i])
      BY <2>2, <3>1 DEF Parts, Current
    <3>3. Chain(p) /\ ChildrenOf(p[Len(p)]) = <<>> BY <2>1, SelectableIs DEF Grown
    <3>4. Len(p) \in Nat /\ Len(p) # n BY <3>2, <3>3, ChainHeights
    <3>5. n + 1 <= Len(p) /\ n \in 1..Len(p) - 1 /\ n + 1 \in 1..Len(p) BY <1>1, <3>2, <3>4
    <3>6. p[n + 1] \in Headers /\ parent[p[n + 1]] = Current(s[n]) BY <3>2, <3>3, <3>5 DEF Chain
    <3>7. PICK m \in 1..Len(c) : c[m] = p[n + 1] BY <3>6, ChildrenFound DEF c
    <3>8. \A i \in 1..(n + 1) - 1 : p[i] = Current(t[i])
      <4> SUFFICES ASSUME NEW i \in 1..n PROVE p[i] = Current(t[i]) BY <1>1
      <4>1. i = n \/ i \in 1..n - 1 BY <1>1
      <4> QED BY <1>4, <3>2, <4>1
    <3>9. Parts(t, p, n + 1, m) BY <1>3, <1>4, <3>5, <3>7, <3>8 DEF Parts
    <3>10. Later(t, n + 1, m) /\ m \in Nat BY <1>2, <1>3, <1>4 DEF Later
    <3>11. n + 1 \in 1..Len(t) BY <1>1, <1>4
    <3> QED BY <2>1, <3>9, <3>10, <3>11 DEF ToCome
  <2> QED BY <2>4, <2>5
<1>8. ASSUME NEW p \in ToCome(t) PROVE p \in ToCome(s)
  <2>1. p \in Selectable BY DEF ToCome
  <2>2. PICK k \in 1..n + 1, j \in Nat : Parts(t, p, k, j) /\ Later(t, k, j) BY <1>4 DEF ToCome
  <2>3. CASE k = n + 1
    <3>1. n + 1 <= Len(p) /\ \A i \in 1..n : p[i] = Current(t[i]) BY <1>1, <2>2, <2>3 DEF Parts
    <3>2. \A i \in 1..n : p[i] = Current(s[i]) BY <1>4, <3>1
    <3>3. Chain(p) BY <2>1, SelectableIs DEF Grown
    <3>4. n <= Len(p) BY <1>1, <3>1, <3>3, ChainHeights
    <3>5. s[n].pos \in 1..Len(s[n].list) /\ s[n].pos \in Nat BY <1>1, StackIs
    <3>6. Parts(s, p, n, s[n].pos) BY <1>1, <3>2, <3>4, <3>5 DEF Parts, Current
    <3>7. Later(s, n, s[n].pos) BY DEF Later
    <3> QED BY <1>1, <2>1, <3>5, <3>6, <3>7 DEF ToCome
  <2>4. CASE k # n + 1
    <3>1. k \in 1..n BY <1>1, <2>4
    <3>2. Parts(s, p, k, j) BY <1>6, <2>2, <3>1
    <3>3. Later(s, k, j) BY <1>4, <2>2, <2>4, <3>1 DEF Later
    <3> QED BY <2>1, <3>1, <3>2, <3>3 DEF ToCome
  <2> QED BY <2>3, <2>4
<1> QED BY <1>5, <1>7, <1>8 DEF t, e, c

(* The branch found at a leaf, and only it, is no longer to come.          *)
LEMMA ComeBranch ==
  ASSUME Grows, start \in 1..2, NEW s, OnStack(s), ChildrenOf(Current(s[Len(s)])) = <<>>
  PROVE  /\ GotoBranch(s) = <<>> \/ OnStack(GotoBranch(s))
         /\ Trail(s) \in ToCome(s) /\ ToCome(GotoBranch(s)) = ToCome(s) \ {Trail(s)}
<1> DEFINE n == Len(s)
           open == {k \in DOMAIN s : HasNext(s[k])}
           m == Max(open)
           t == GotoBranch(s)
           q == Trail(s)
<1>1. n \in Nat \ {0} /\ s \in Seq(Siblings) /\ n \in 1..n /\ DOMAIN s = 1..n BY StackIs DEF OnStack
<1>2. q \in Selectable
  <2>1. Chain(q) /\ Len(q) = n /\ (\E i \in 1..Len(StartBlocks) : StartBlocks[i] = q[1]) /\ q[n] = Current(s[n])
    BY <1>1, TrailIs
  <2>2. Grown(q) BY <2>1 DEF Grown
  <2> QED BY <2>2, SelectableIs
<1>3. Len(q) = n /\ \A i \in 1..n : q[i] = Current(s[i]) BY TrailIs
<1> HIDE DEF q
<1>4. ASSUME NEW p \in Selectable, NEW k \in 1..n, NEW j \in Nat, Parts(s, p, k, j), Later(s, k, j)
      PROVE  IF j > s[k].pos THEN p # q ELSE p = q
  <2>1. Chain(p) /\ ChildrenOf(p[Len(p)]) = <<>> BY SelectableIs DEF Grown
  <2>2. CASE j > s[k].pos
    <3>1. p[k] = s[k].list[j] /\ j \in 1..Len(s[k].list) BY <1>4 DEF Parts
    <3>2. q[k] = s[k].list[s[k].pos] /\ s[k].pos \in 1..Len(s[k].list) /\ s[k].pos \in Nat
      BY <1>3, StackIs DEF Current
    <3>3. p[k] # q[k]
      <4>1. j # s[k].pos BY <2>2, <3>2
      <4> QED BY <3>1, <3>2, <4>1, StackIs
    <3> QED BY <2>2, <3>3
  <2>3. CASE ~(j > s[k].pos)
    <3>1. k = n /\ j = s[n].pos BY <1>4, <2>3 DEF Later
    <3>2. n <= Len(p) /\ \A i \in 1..n : p[i] = Current(s[i])
      <4>1. n <= Len(p) /\ (\A i \in 1..n - 1 : p[i] = Current(s[i])) /\ p[n] = Current(s[n])
        BY <1>4, <3>1 DEF Parts, Current
      <4>2. \A i \in 1..n : i = n \/ i \in 1..n - 1
        <5> HIDE DEF n
        <5> QED BY <1>1
      <4> QED BY <4>1, <4>2
    <3>3. Len(p) = n
      <4> SUFFICES ASSUME Len(p) # n PROVE FALSE OBVIOUS
      <4>1. Len(p) \in Nat BY <2>1, ChainHeights
      <4>2. n \in 1..Len(p) - 1 /\ n + 1 \in 1..Len(p) BY <1>1, <3>2, <4>1
      <4>3. p[n + 1] \in Headers /\ parent[p[n + 1]] = Current(s[n]) BY <1>1, <2>1, <3>2, <4>2 DEF Chain
      <4>4. Len(ChildrenOf(Current(s[n]))) = 0 BY ChildrenFound
      <4> QED BY <4>3, <4>4, ChildrenFound
    <3>4. p \in Seq(Headers) /\ q \in Seq(Headers) BY <1>2, <2>1, SelectableIs DEF Grown, Chain
    <3>5. p = q BY <1>3, <3>2, <3>3, <3>4, SeqEqual
    <3> QED BY <2>3, <3>5
  <2> QED BY <2>2, <2>3
<1>5. q \in ToCome(s)
  <2>1. s[n].pos \in 1..Len(s[n].list) /\ s[n].pos \in Nat BY <1>1, StackIs
  <2>2. Parts(s, q, n, s[n].pos)
    <3>1. \A i \in 1..n - 1 : i \in 1..n BY <1>1
    <3>2. n <= Len(q) BY <1>1, <1>3
    <3> QED BY <1>1, <1>3, <2>1, <3>1, <3>2 DEF Parts, Current
  <2>3. Later(s, n, s[n].pos) BY DEF Later
  <2> QED BY <1>1, <1>2, <2>1, <2>2, <2>3 DEF ToCome
<1>6. CASE open = {}
  <2>1. t = <<>> BY <1>6 DEF GotoBranch
  <2>2. ToCome(t) = {} BY <2>1 DEF ToCome
  <2>3. ASSUME NEW p \in ToCome(s) PROVE p = q
    <3>1. PICK k \in 1..n, j \in Nat : Parts(s, p, k, j) /\ Later(s, k, j) BY DEF ToCome
    <3>2. ~(s[k].pos < Len(s[k].list)) BY <1>1, <1>6 DEF HasNext
    <3>3. j <= Len(s[k].list) /\ s[k].pos \in Nat /\ Len(s[k].list) \in Nat BY <3>1, StackIs DEF Parts
    <3>4. ~(j > s[k].pos) BY <3>2, <3>3
    <3>5. p \in Selectable BY DEF ToCome
    <3> QED BY <1>4, <3>1, <3>4, <3>5
  <2> HIDE DEF t
  <2> QED BY <1>5, <2>1, <2>2, <2>3 DEF t, q
<1>7. CASE open # {}
  <2>1. m \in 1..n /\ HasNext(s[m]) /\ \A k \in 1..n : HasNext(s[k]) => k <= m
    <3>1. open \subseteq 1..n BY <1>1
    <3>2. m \in open /\ \A k \in open : k <= m
      <4> HIDE DEF open
      <4> QED BY <1>1, <1>7, <3>1, FirstPlace
    <3> QED BY <1>1, <3>2
  <2>2. t = [SubSeq(s, 1, m) EXCEPT ![m].pos = @ + 1] BY <1>7 DEF GotoBranch
  <2> HIDE DEF m
  <2>3. t \in Seq(Siblings) /\ Len(t) = m /\ (\A i \in 1..m - 1 : t[i] = s[i])
        /\ t[m].pos = s[m].pos + 1 /\ t[m].list = s[m].list
    <3> DEFINE u == SubSeq(s, 1, m)
    <3>1. u \in Seq(Siblings) /\ Len(u) = m /\ \A i \in 1..m : u[i] = s[i] BY <1>1, <2>1
    <3> HIDE DEF u
    <3>2. u[m] \in Siblings /\ u[m].pos \in Nat /\ u[m].list \in Seq(Headers) BY <2>1, <3>1, StackIs
    <3>3. [u[m] EXCEPT !.pos = @ + 1] = [pos |-> u[m].pos + 1, list |-> u[m].list] BY <3>2 DEF Siblings
    <3>4. [u[m] EXCEPT !.pos = @ + 1] \in Siblings BY <3>2, <3>3 DEF Siblings
    <3>5. t = [u EXCEPT ![m] = [u[m] EXCEPT !.pos = @ + 1]]
      <4>1. t = [u EXCEPT ![m].pos = @ + 1] BY <2>2 DEF u
      <4> HIDE DEF t
      <4> QED BY <4>1
    <3> HIDE DEF t
    <3>6. DOMAIN u = 1..m /\ m \in Nat /\ \A i \in 1..m : u[i] \in Siblings BY <2>1, <3>1
    <3>7. t \in [1..m -> Siblings] BY <3>1, <3>4, <3>5, <3>6
    <3>8. t[m] = [u[m] EXCEPT !.pos = @ + 1] /\ \A i \in 1..m - 1 : t[i] = u[i] BY <2>1, <3>5, <3>6
    <3>9. m \in 1..m /\ \A i \in 1..m - 1 : i \in 1..m BY <2>1
    <3>10. t \in Seq(Siblings) /\ Len(t) = m BY <3>6, <3>7
    <3>11. t[m].pos = s[m].pos + 1 /\ t[m].list = s[m].list BY <3>1, <3>3, <3>8, <3>9
    <3>12. \A i \in 1..m - 1 : t[i] = s[i] BY <3>1, <3>8, <3>9
    <3> QED BY <3>10, <3>11, <3>12
  <2> HIDE DEF t, open
  <2>4. s[m].pos < Len(s[m].list) /\ s[m].pos \in Nat /\ Len(s[m].list) \in Nat BY <2>1, StackIs DEF HasNext
  <2>5. m \in Nat \ {0} /\ m <= n BY <1>1, <2>1
  <2>6. OnStack(t)
    <3>1. \A i \in 1..m : t[i].list = s[i].list /\ t[i].pos \in 1..Len(t[i].list)
      <4> SUFFICES ASSUME NEW i \in 1..m PROVE t[i].list = s[i].list /\ t[i].pos \in 1..Len(t[i].list) OBVIOUS
      <4>1. CASE i = m BY <2>3, <2>4, <4>1
      <4>2. CASE i # m
        <5>1. i \in 1..m - 1 /\ i \in 1..n BY <2>5, <4>2
        <5> QED BY <2>3, <5>1 DEF OnStack
      <4> QED BY <4>1, <4>2
    <3>2. \A i \in 1..m - 1 : t[i + 1].list = ChildrenOf(Current(t[i]))
      <4> SUFFICES ASSUME NEW i \in 1..m - 1 PROVE t[i + 1].list = ChildrenOf(Current(t[i])) OBVIOUS
      <4>1. i + 1 \in 1..m /\ i \in 1..n - 1 BY <2>5
      <4>2. t[i + 1].list = s[i + 1].list /\ t[i] = s[i] BY <2>3, <3>1, <4>1
      <4> QED BY <4>1, <4>2 DEF OnStack
    <3>3. t[1].list = StartBlocks BY <2>5, <3>1 DEF OnStack
    <3> QED BY <2>3, <2>5, <3>1, <3>2, <3>3 DEF OnStack
  <2>7. ASSUME NEW p, NEW k \in 1..m, NEW j PROVE Parts(s, p, k, j) <=> Parts(t, p, k, j)
    <3>1. \A i \in 1..k - 1 : i \in 1..m - 1 BY <2>5
    <3>2. t[k].list = s[k].list
      <4>1. k = m \/ k \in 1..m - 1 BY <2>5
      <4> QED BY <2>3, <4>1
    <3>3. \A i \in 1..k - 1 : t[i] = s[i] BY <2>3, <3>1
    <3> QED BY <3>2, <3>3 DEF Parts
  <2>8. ASSUME NEW k \in 1..m, NEW j \in Nat PROVE Later(t, k, j) <=> j > s[k].pos
    <3>1. CASE k = m
      <4>1. Later(t, k, j) <=> j > s[m].pos + 1 \/ j = s[m].pos + 1 BY <2>3, <3>1 DEF Later
      <4> QED BY <2>4, <3>1, <4>1
    <3>2. CASE k # m
      <4>1. k \in 1..m - 1 BY <2>5, <3>2
      <4> QED BY <2>3, <3>2, <4>1 DEF Later
    <3> QED BY <3>1, <3>2
  <2>9. ASSUME NEW p \in ToCome(t) PROVE p \in ToCome(s) /\ p # q
    <3>1. PICK k \in 1..m, j \in Nat : Parts(t, p, k, j) /\ Later(t, k, j) BY <2>3 DEF ToCome
    <3>2. k \in 1..n /\ p \in Selectable BY <2>5 DEF ToCome
    <3>3. Parts(s, p, k, j) /\ j > s[k].pos BY <2>7, <2>8, <3>1
    <3>4. Later(s, k, j) BY <3>3 DEF Later
    <3> QED BY <1>4, <3>2, <3>3, <3>4 DEF ToCome
  <2>10. ASSUME NEW p \in ToCome(s), p # q PROVE p \in ToCome(t)
    <3>1. PICK k \in 1..n, j \in Nat : Parts(s, p, k, j) /\ Later(s, k, j) BY DEF ToCome
    <3>2. p \in Selectable BY DEF ToCome
    <3>3. j > s[k].pos BY <1>4, <2>10, <3>1, <3>2
    <3>4. j <= Len(s[k].list) /\ s[k].pos \in Nat /\ Len(s[k].list) \in Nat BY <3>1, StackIs DEF Parts
    <3>5. HasNext(s[k]) BY <3>3, <3>4 DEF HasNext
    <3>6. k \in 1..m BY <2>1, <2>5, <3>5
    <3>7. Parts(t, p, k, j) /\ Later(t, k, j) BY <2>7, <2>8, <3>1, <3>3, <3>6
    <3> QED BY <2>3, <3>2, <3>6, <3>7 DEF ToCome
  <2> QED BY <1>5, <2>6, <2>9, <2>10 DEF t, q
<1> QED BY <1>5, <1>6, <1>7

-----------------------------------------------------------------------------
(* Heads and their scores.                                                 *)
BlockHeads == [path : Seq(Headers), voted : Seq(Nat), voting : Seq(Nat), size : Nat]
IsHead(d) ==
  /\ d \in BlockHeads /\ Grown(d.path) /\ Len(d.voted) = Len(d.path) /\ Len(d.voting) = Len(d.path)
  /\ Len(d.path) <= d.size

(* The votes of h for the block DiffBlocks below it; those that block k of *)
(* a head gets in it.                                                      *)
Own(h) == LET b == Before(h, DiffBlocks) IN IF b = 0 THEN 0 ELSE VotesFor(h, b)
Cast(d, k) ==
  IF k + DiffBlocks \in 1..Len(d.path) THEN VotesFor(d.path[k + DiffBlocks], d.path[k]) ELSE 0

(* The scores of d when the elements before n have been evaluated.         *)
Scored(d, n) ==
  \A k \in 1..Len(d.path) : /\ d.voting[k] = IF k < n THEN Own(d.path[k]) ELSE 0
                            /\ d.voted[k] <= Cast(d, k) /\ (k + DiffBlocks >= n => d.voted[k] = 0)

(* A block's votes are a number.                                           *)
LEMMA VotesAre ==
  ASSUME TreeIs, NEW h \in Headers, NEW b
  PROVE  VotesFor(h, b) \in Nat
<1> DEFINE below == {d \in DOMAIN votes[h] : Before(h, d) = b}
<1>1. votes[h] \in [1..DiffBlocks -> Nat] BY DEF TreeIs
<1>2. DiffBlocks \in Nat BY DetectorAssumption
<1>3. below \subseteq 1..DiffBlocks BY <1>1
<1>4. CASE below = {} BY <1>4 DEF VotesFor
<1>5. CASE below # {}
  <2>1. Min(below) \in below
    <3> HIDE DEF below
    <3> QED BY <1>2, <1>3, <1>5, FirstPlace
  <2>2. votes[h][Min(below)] \in Nat BY <1>1, <1>3, <2>1
  <2>3. VotesFor(h, b) = votes[h][Min(below)] BY <1>5 DEF VotesFor
  <2> QED BY <2>2, <2>3
<1> QED BY <1>4, <1>5

(* Sequences of length n and functions on 1..n are the same.               *)
LEMMA ListIs ==
  ASSUME NEW S, NEW n \in Nat, NEW f
  PROVE  f \in Seq(S) /\ Len(f) = n <=> f \in [1..n -> S]
<1>1. f \in Seq(S) /\ Len(f) = n => f \in [1..n -> S] OBVIOUS
<1>2. f \in [1..n -> S] => f \in Seq(S) /\ Len(f) = n OBVIOUS
<1> QED BY <1>1, <1>2

(* The fields of a head.                                                   *)
LEMMA HeadIs ==
  ASSUME TreeIs, NEW d, IsHead(d)
  PROVE  /\ Len(d.path) \in Nat \ {0} /\ d.size \in Nat /\ d.path \in Seq(Headers)
         /\ \A k \in 1..Len(d.path) : /\ d.path[k] \in Headers /\ Height(d.path[k]) = start + k - 1
                                      /\ d.voted[k] \in Nat /\ d.voting[k] \in Nat
         /\ d.voted \in [1..Len(d.path) -> Nat] /\ d.voting \in [1..Len(d.path) -> Nat]
         /\ d = [path |-> d.path, voted |-> d.voted, voting |-> d.voting, size |-> d.size]
<1>1. Chain(d.path) /\ \E i \in 1..Len(StartBlocks) : StartBlocks[i] = d.path[1] BY DEF IsHead, Grown
<1>2. Grows /\ start \in 1..2 BY DEF TreeIs
<1>3. Height(d.path[1]) = start BY <1>1, <1>2, StartsAre
<1>4. Len(d.path) \in Nat \ {0} /\ \A k \in 1..Len(d.path) : d.path[k] \in Headers /\ Height(d.path[k]) = start + k - 1
  BY <1>1, <1>2, <1>3, ChainHeights
<1>5. d.voted \in Seq(Nat) /\ d.voting \in Seq(Nat) /\ d.path \in Seq(Headers) /\ d.size \in Nat
  BY DEF IsHead, BlockHeads
<1>6. d.voted \in [1..Len(d.path) -> Nat] /\ d.voting \in [1..Len(d.path) -> Nat]
  <2>1. Len(d.voted) = Len(d.path) /\ Len(d.voting) = Len(d.path) BY DEF IsHead
  <2> QED BY <1>4, <1>5, <2>1, ListIs
<1>7. d = [path |-> d.path, voted |-> d.voted, voting |-> d.voting, size |-> d.size] BY DEF IsHead, BlockHeads
<1> QED BY <1>4, <1>5, <1>6, <1>7

(* The block that element i votes for.                                     *)
LEMMA VotedIs ==
  ASSUME TreeIs, NEW d, IsHead(d), NEW i \in 1..Len(d.path)
  PROVE  LET h     == d.path[i]
             pos   == i - DiffBlocks
             voted == IF pos >= 1 THEN d.path[pos] ELSE IF Height(h) > DiffBlocks THEN Before(h, DiffBlocks) ELSE 0
         IN  voted = Before(h, DiffBlocks) /\ (pos >= 1 => pos \in 1..Len(d.path) /\ pos + DiffBlocks = i /\ voted # 0)
<1> DEFINE h == d.path[i]
           pos == i - DiffBlocks
<1>1. DiffBlocks \in Nat \ {0} BY DetectorAssumption
<1>2. Grows /\ Chain(d.path) BY DEF TreeIs, IsHead, Grown
<1>3. Len(d.path) \in Nat \ {0} /\ h \in Headers BY HeadIs
<1>4. CASE pos >= 1
  <2>1. pos \in 1..Len(d.path) /\ DiffBlocks \in 0..i - 1 /\ pos + DiffBlocks = i BY <1>1, <1>3, <1>4
  <2>2. Before(h, DiffBlocks) = d.path[pos] BY <1>2, <2>1, ChainBefore
  <2>3. d.path[pos] # 0 BY <1>2, <2>1, HeadIs, HeadersAre
  <2> QED BY <1>4, <2>1, <2>2, <2>3
<1>5. CASE ~(pos >= 1)
  <2>1. Height(h) \in Nat BY <1>2, <1>3, HeightIs
  <2>2. ~(Height(h) > DiffBlocks) => Before(h, DiffBlocks) = 0 BY <1>1, <1>2, <1>3, <2>1, BeforeHeight
  <2> QED BY <1>5, <2>2
<1> QED BY <1>4, <1>5

(* handleVotes for element i.                                              *)
LEMMA HandledIs ==
  ASSUME TreeIs, NEW d, IsHead(d), NEW i \in 1..Len(d.path), Scored(d, i)
  PROVE  LET e == HandleVotes(d, i)
         IN  /\ IsHead(e) /\ e.path = d.path /\ e.size = d.size /\ Scored(e, i + 1)
             /\ e.voted[i] = 0 /\ e.voting[i] = Own(d.path[i])
<1> DEFINE e == HandleVotes(d, i)
           h == d.path[i]
           pos == i - DiffBlocks
           b == Before(h, DiffBlocks)
<1>1. DiffBlocks \in Nat \ {0} BY DetectorAssumption
<1>2. Len(d.path) \in Nat \ {0} /\ h \in Headers BY HeadIs
<1>3. \A k \in 1..Len(d.path) : d.path[k] \in Headers /\ d.voted[k] \in Nat /\ d.voting[k] \in Nat BY HeadIs
<1>4. pos >= 1 => pos \in 1..Len(d.path) /\ pos + DiffBlocks = i /\ b # 0 /\ b = d.path[pos] BY VotedIs
<1>5. e = IF b = 0 THEN d
          ELSE [d EXCEPT !.voting[i] = VotesFor(h, b),
                         !.voted = [k \in DOMAIN @ |-> IF k = pos THEN @[k] + VotesFor(h, b) ELSE @[k]]]
  BY VotedIs DEF HandleVotes
<1>6. VotesFor(h, b) \in Nat BY <1>2, VotesAre
<1>7. CASE b = 0
  <2>1. e = d /\ Own(h) = 0 /\ ~(pos >= 1) BY <1>4, <1>5, <1>7 DEF Own
  <2>2. d.voting[i] = 0 /\ d.voted[i] = 0 BY <1>1, <1>2 DEF Scored
  <2>3. Scored(d, i + 1)
    <3> SUFFICES ASSUME NEW k \in 1..Len(d.path)
                 PROVE  /\ d.voting[k] = IF k < i + 1 THEN Own(d.path[k]) ELSE 0
                        /\ d.voted[k] <= Cast(d, k) /\ (k + DiffBlocks >= i + 1 => d.voted[k] = 0)
      BY DEF Scored
    <3>1. /\ d.voting[k] = IF k < i THEN Own(d.path[k]) ELSE 0
          /\ d.voted[k] <= Cast(d, k) /\ (k + DiffBlocks >= i => d.voted[k] = 0) BY DEF Scored
    <3>2. k = i => d.voting[k] = Own(d.path[k]) BY <2>1, <2>2
    <3> QED BY <1>1, <1>2, <3>1, <3>2
  <2> HIDE DEF e
  <2> QED BY <2>1, <2>2, <2>3 DEF e
<1>8. CASE b # 0
  <2> DEFINE vg == [d.voting EXCEPT ![i] = VotesFor(h, b)]
             vd == [k \in DOMAIN d.voted |-> IF k = pos THEN d.voted[k] + VotesFor(h, b) ELSE d.voted[k]]
  <2>1. e = [d EXCEPT !.voting = vg, !.voted = vd] BY <1>5, <1>8
  <2>2. d.voted \in [1..Len(d.path) -> Nat] /\ d.voting \in [1..Len(d.path) -> Nat]
        /\ d = [path |-> d.path, voted |-> d.voted, voting |-> d.voting, size |-> d.size] BY HeadIs
  <2>3. vd \in [1..Len(d.path) -> Nat]
        /\ \A k \in 1..Len(d.path) : vd[k] = IF k = pos THEN d.voted[k] + VotesFor(h, b) ELSE d.voted[k]
    <3>1. DOMAIN d.voted = 1..Len(d.path) BY <2>2
    <3> HIDE DEF h, b, pos
    <3> QED BY <1>3, <1>6, <3>1
  <2>4. vg \in [1..Len(d.path) -> Nat]
        /\ \A k \in 1..Len(d.path) : vg[k] = IF k = i THEN VotesFor(h, b) ELSE d.voting[k]
    <3> HIDE DEF h, b, pos
    <3> QED BY <1>6, <2>2
  <2> HIDE DEF vg, vd, e
  <2>5. e.path = d.path /\ e.size = d.size /\ e.voting = vg /\ e.voted = vd
        /\ e = [path |-> d.path, voted |-> vd, voting |-> vg, size |-> d.size]
    <3>1. e = [[path |-> d.path, voted |-> d.voted, voting |-> d.voting, size |-> d.size]
                 EXCEPT !.voting = vg, !.voted = vd] BY <2>1, <2>2
    <3> QED BY <3>1
  <2>6. IsHead(e)
    <3>1. vd \in Seq(Nat) /\ Len(vd) = Len(d.path) /\ vg \in Seq(Nat) /\ Len(vg) = Len(d.path)
      BY <1>2, <2>3, <2>4, ListIs
    <3>2. d.path \in Seq(Headers) /\ d.size \in Nat BY HeadIs
    <3>3. e \in BlockHeads BY <2>5, <3>1, <3>2 DEF BlockHeads
    <3> QED BY <2>5, <3>1, <3>3 DEF IsHead
  <2>7. Own(h) = VotesFor(h, b) BY <1>8 DEF Own
  <2>8. ASSUME NEW k \in 1..Len(d.path)
        PROVE  /\ e.voting[k] = IF k < i + 1 THEN Own(d.path[k]) ELSE 0
               /\ e.voted[k] <= Cast(e, k) /\ (k + DiffBlocks >= i + 1 => e.voted[k] = 0)
    <3>1. /\ d.voting[k] = IF k < i THEN Own(d.path[k]) ELSE 0
          /\ d.voted[k] <= Cast(d, k) /\ (k + DiffBlocks >= i => d.voted[k] = 0) BY DEF Scored
    <3>2. Cast(e, k) = Cast(d, k) BY <2>5 DEF Cast
    <3>3. e.voting[k] = IF k < i + 1 THEN Own(d.path[k]) ELSE 0
      <4>1. k = i => e.voting[k] = Own(d.path[k]) BY <2>4, <2>5, <2>7
      <4>2. k # i => e.voting[k] = d.voting[k] BY <2>4, <2>5
      <4> QED BY <1>2, <3>1, <4>1, <4>2
    <3>4. CASE k = pos
      <4>1. pos >= 1 /\ k + DiffBlocks = i /\ b = d.path[k] BY <1>2, <1>4, <3>4
      <4>2. d.voted[k] = 0 BY <1>1, <1>2, <3>1, <4>1
      <4>3. Cast(d, k) = VotesFor(h, b)
        <5>1. k + DiffBlocks \in 1..Len(d.path) BY <4>1
        <5> QED BY <4>1, <5>1 DEF Cast
      <4>4. e.voted[k] = VotesFor(h, b) BY <1>6, <2>3, <2>5, <3>4, <4>2
      <4>5. ~(k + DiffBlocks >= i + 1) BY <1>1, <1>2, <4>1
      <4> HIDE DEF h, b, pos
      <4> QED BY <1>6, <3>2, <3>3, <4>3, <4>4, <4>5
    <3>5. CASE k # pos
      <4>1. e.voted[k] = d.voted[k] BY <2>3, <2>5, <3>5
      <4> QED BY <1>1, <1>2, <3>1, <3>2, <3>3, <4>1
    <3> QED BY <3>4, <3>5
  <2>9. Scored(e, i + 1) BY <2>5, <2>8 DEF Scored
  <2>10. e.voted[i] = 0 /\ e.voting[i] = Own(h)
    <3>1. i + DiffBlocks >= i + 1 /\ i < i + 1 BY <1>1, <1>2
    <3> QED BY <2>8, <3>1
  <2> QED BY <2>5, <2>6, <2>9, <2>10 DEF e
<1> QED BY <1>7, <1>8

(* The cached scores of element i are those it would get.                  *)
LEMMA CachedIs ==
  ASSUME TreeIs, NEW d, IsHead(d), NEW i \in 1..Len(d.path), Scored(d, i),
         NEW s, s = [voted |-> 0, voting |-> Own(d.path[i])]
  PROVE  LET e == WithScores(d, i, s) IN IsHead(e) /\ e.path = d.path /\ e.size = d.size /\ Scored(e, i + 1)
<1> DEFINE e == WithScores(d, i, s)
           h == d.path[i]
           vd == [d.voted EXCEPT ![i] = 0]
           vg == [d.voting EXCEPT ![i] = Own(h)]
<1>1. DiffBlocks \in Nat \ {0} BY DetectorAssumption
<1>2. Len(d.path) \in Nat \ {0} /\ h \in Headers BY HeadIs
<1>3. Own(h) \in Nat BY <1>2, VotesAre DEF Own
<1>4. d.voted \in [1..Len(d.path) -> Nat] /\ d.voting \in [1..Len(d.path) -> Nat]
      /\ d = [path |-> d.path, voted |-> d.voted, voting |-> d.voting, size |-> d.size] BY HeadIs
<1> HIDE DEF h
<1>5. vd \in [1..Len(d.path) -> Nat] /\ \A k \in 1..Len(d.path) : vd[k] = IF k = i THEN 0 ELSE d.voted[k]
  BY <1>4
<1>6. vg \in [1..Len(d.path) -> Nat] /\ \A k \in 1..Len(d.path) : vg[k] = IF k = i THEN Own(h) ELSE d.voting[k]
  BY <1>3, <1>4
<1>7. e = [d EXCEPT !.voted = vd, !.voting = vg] BY DEF WithScores, h
<1> HIDE DEF e, vd, vg
<1>8. e.path = d.path /\ e.size = d.size /\ e.voting = vg /\ e.voted = vd
      /\ e = [path |-> d.path, voted |-> vd, voting |-> vg, size |-> d.size]
  <2>1. e = [[path |-> d.path, voted |-> d.voted, voting |-> d.voting, size |-> d.size]
               EXCEPT !.voted = vd, !.voting = vg] BY <1>4, <1>7
  <2> QED BY <2>1
<1>9. IsHead(e)
  <2>1. vd \in Seq(Nat) /\ Len(vd) = Len(d.path) /\ vg \in Seq(Nat) /\ Len(vg) = Len(d.path) BY <1>2, <1>5, <1>6, ListIs
  <2>2. d.path \in Seq(Headers) /\ d.size \in Nat BY HeadIs
  <2>3. e \in BlockHeads BY <1>8, <2>1, <2>2 DEF BlockHeads
  <2> QED BY <1>8, <2>1, <2>3 DEF IsHead
<1>10. ASSUME NEW k \in 1..Len(d.path)
       PROVE  /\ e.voting[k] = IF k < i + 1 THEN Own(d.path[k]) ELSE 0
              /\ e.voted[k] <= Cast(e, k) /\ (k + DiffBlocks >= i + 1 => e.voted[k] = 0)
  <2>1. /\ d.voting[k] = IF k < i THEN Own(d.path[k]) ELSE 0
        /\ d.voted[k] <= Cast(d, k) /\ (k + DiffBlocks >= i => d.voted[k] = 0) BY DEF Scored
  <2>2. Cast(e, k) = Cast(d, k) BY <1>8 DEF Cast
  <2>3. e.voting[k] = IF k < i + 1 THEN Own(d.path[k]) ELSE 0
    <3>1. k = i => e.voting[k] = Own(d.path[k]) BY <1>6, <1>8 DEF h
    <3>2. k # i => e.voting[k] = d.voting[k] BY <1>6, <1>8
    <3> QED BY <1>2, <2>1, <3>1, <3>2
  <2>4. e.voted[k] = d.voted[k]
    <3>1. k = i => d.voted[k] = 0 BY <1>1, <1>2, <2>1
    <3> QED BY <1>5, <1>8, <3>1
  <2> QED BY <1>1, <1>2, <2>1, <2>2, <2>3, <2>4
<1> QED BY <1>8, <1>9, <1>10 DEF Scored, e

-----------------------------------------------------------------------------
(* ArrayList.sort.  Positions of the list s are compared.                  *)
Below(s, i, j) == CompareTo(s[i], s[j]) < 0
Places(s) == 1..Len(s)

(* Any two positions differ, and comparing them is transitive.             *)
Comparable(s) ==
  /\ s # <<>> /\ Len(s) \in Nat \ {0} /\ DOMAIN s = Places(s)
  /\ \A i \in Places(s) : ~Below(s, i, i)
  /\ \A i, j \in Places(s) : i # j => (Below(s, i, j) <=> ~Below(s, j, i))
  /\ \A i, j, k \in Places(s) : Below(s, i, j) /\ Below(s, j, k) => Below(s, i, k)

Perms(s) == {o \in [Places(s) -> Places(s)] : \A i, j \in Places(s) : o[i] = o[j] => i = j}

(* No position from a on is below one of its children up to leaf.          *)
Kid(i, j) == j = 2 * i \/ j = 2 * i + 1
Heap(s, o, a, leaf) ==
  \A i, j \in 1..leaf : Kid(i, j) /\ i >= a => ~Below(s, o[i], o[j])

(* That holds but for the children of r, which are not above r's parent.   *)
AlmostHeap(s, o, a, r, leaf) ==
  /\ \A i, j \in 1..leaf : Kid(i, j) /\ i >= a /\ i # r => ~Below(s, o[i], o[j])
  /\ \A i, j \in 1..leaf : Kid(i, r) /\ Kid(r, j) /\ i >= a => ~Below(s, o[i], o[j])

(* Only places up to leaf have changed.                                    *)
Stirs(s, o, q, leaf) ==
  /\ q \in Perms(s) /\ \A i \in Places(s) : i > leaf => q[i] = o[i]
  /\ \A i \in 1..leaf : \E k \in 1..leaf : q[i] = o[k]

(* A turn of downheap.                                                     *)
LargerKid(s, o, r, leaf) == IF 2 * r < leaf /\ Below(s, o[2 * r], o[2 * r + 1]) THEN 2 * r + 1 ELSE 2 * r

(* The larger child goes up unless it is below its parent, or there is     *)
(* none.                                                                   *)
LEMMA HeapTurnIs ==
  ASSUME NEW s, DOMAIN s = Places(s), NEW leaf,
         NEW o \in [Places(s) -> Places(s)], NEW r \in Places(s), NEW h, h = [order |-> o, root |-> r]
  PROVE  HeadsList!HeapTurn(s, leaf)[h] =
           IF 2 * r > leaf \/ Below(s, o[LargerKid(s, o, r, leaf)], o[r]) THEN h
           ELSE [order |-> HeadsList!Swap(o, r, LargerKid(s, o, r, leaf)), root |-> LargerKid(s, o, r, leaf)]
<1>1. h \in [order : HeadsList!Orders(s), root : DOMAIN s] BY DEF HeadsList!Orders
<1>2. h.order = o /\ h.root = r OBVIOUS
<1> QED BY <1>1, <1>2 DEF HeadsList!HeapTurn, LargerKid, Below

(* Two places change places.                                               *)
LEMMA SwapIs ==
  ASSUME NEW s, NEW o \in Perms(s), NEW i \in Places(s), NEW j \in Places(s)
  PROVE  /\ HeadsList!Swap(o, i, j) \in Perms(s)
         /\ \A k \in Places(s) :
              HeadsList!Swap(o, i, j)[k] = IF k = j THEN o[i] ELSE IF k = i THEN o[j] ELSE o[k]
<1> DEFINE q == HeadsList!Swap(o, i, j)
<1>1. o \in [Places(s) -> Places(s)] /\ \A k, m \in Places(s) : o[k] = o[m] => k = m BY DEF Perms
<1>2. q = [[o EXCEPT ![i] = o[j]] EXCEPT ![j] = o[i]] BY DEF HeadsList!Swap
<1>3. q \in [Places(s) -> Places(s)] BY <1>1, <1>2
<1>4. \A k \in Places(s) : q[k] = IF k = j THEN o[i] ELSE IF k = i THEN o[j] ELSE o[k] BY <1>1, <1>2
<1> HIDE DEF q
<1>5. \A k, m \in Places(s) : q[k] = q[m] => k = m BY <1>1, <1>4
<1> QED BY <1>3, <1>4, <1>5 DEF Perms, q

(* The two children of r, and the larger one.                              *)
LEMMA LargerIs ==
  ASSUME NEW s, Comparable(s), NEW leaf \in Nat, leaf <= Len(s), NEW o \in Perms(s),
         NEW r \in Places(s), 2 * r <= leaf
  PROVE  LET c == LargerKid(s, o, r, leaf)
         IN  /\ c \in 1..leaf /\ c \in Places(s) /\ c > r /\ r \in 1..leaf /\ Kid(r, c)
             /\ \A j \in 1..leaf : Kid(r, j) => ~Below(s, o[c], o[j])
<1> DEFINE c == LargerKid(s, o, r, leaf)
<1>1. o \in [Places(s) -> Places(s)] /\ \A k, m \in Places(s) : o[k] = o[m] => k = m BY DEF Perms
<1>2. Len(s) \in Nat \ {0} BY DEF Comparable
<1>3. r \in Nat \ {0} /\ r \in 1..leaf /\ 2 * r \in 1..leaf /\ 2 * r # 2 * r + 1 BY <1>2 DEF Places
<1>4. \A j \in 1..leaf : j \in Places(s) BY <1>2 DEF Places
<1>5. CASE 2 * r < leaf /\ Below(s, o[2 * r], o[2 * r + 1])
  <2>1. c = 2 * r + 1 BY <1>5 DEF LargerKid
  <2>2. c \in 1..leaf /\ c > r BY <1>3, <1>5, <2>1
  <2>3. \A j \in 1..leaf : Kid(r, j) => ~Below(s, o[c], o[j])
    <3> SUFFICES ASSUME NEW j \in 1..leaf, Kid(r, j) PROVE ~Below(s, o[c], o[j]) OBVIOUS
    <3>1. o[c] \in Places(s) /\ o[2 * r] \in Places(s) /\ o[c] # o[2 * r]
      BY <1>1, <1>3, <1>4, <2>1, <2>2
    <3>2. CASE j = 2 * r BY <1>5, <2>1, <3>1, <3>2 DEF Comparable
    <3>3. CASE j = c BY <3>1, <3>3 DEF Comparable
    <3> QED BY <2>1, <3>2, <3>3 DEF Kid
  <2> QED BY <1>3, <1>4, <2>1, <2>2, <2>3 DEF Kid
<1>6. CASE ~(2 * r < leaf /\ Below(s, o[2 * r], o[2 * r + 1]))
  <2>1. c = 2 * r BY <1>6 DEF LargerKid
  <2>2. c \in 1..leaf /\ c > r BY <1>3, <2>1
  <2>3. \A j \in 1..leaf : Kid(r, j) => ~Below(s, o[c], o[j])
    <3> SUFFICES ASSUME NEW j \in 1..leaf, Kid(r, j) PROVE ~Below(s, o[c], o[j]) OBVIOUS
    <3>1. o[c] \in Places(s) BY <1>1, <1>4, <2>2
    <3>2. CASE j = 2 * r + 1 BY <1>3, <1>6, <2>1, <3>2
    <3>3. CASE j = c BY <3>1, <3>3 DEF Comparable
    <3> QED BY <2>1, <3>2, <3>3 DEF Kid
  <2> QED BY <1>3, <1>4, <2>1, <2>2, <2>3 DEF Kid
<1> QED BY <1>5, <1>6

(* When a turn stops, a heap is left.                                      *)
LEMMA StopIsHeap ==
  ASSUME NEW s, Comparable(s), NEW leaf \in Nat, leaf <= Len(s), NEW o \in Perms(s), NEW a,
         NEW r \in Places(s), AlmostHeap(s, o, a, r, leaf),
         2 * r > leaf \/ Below(s, o[LargerKid(s, o, r, leaf)], o[r])
  PROVE  Heap(s, o, a, leaf)
<1>1. o \in [Places(s) -> Places(s)] BY DEF Perms
<1>2. Len(s) \in Nat \ {0} /\ r \in Nat BY DEF Comparable, Places
<1>3. \A j \in 1..leaf : j \in Places(s) BY <1>2 DEF Places
<1> SUFFICES ASSUME NEW i \in 1..leaf, NEW j \in 1..leaf, Kid(i, j), i >= a PROVE ~Below(s, o[i], o[j])
  BY DEF Heap
<1>4. CASE i # r BY <1>4 DEF AlmostHeap
<1>5. CASE i = r
  <2>1. 2 * r <= leaf BY <1>2, <1>5 DEF Kid
  <2> DEFINE c == LargerKid(s, o, r, leaf)
  <2>2. Below(s, o[c], o[r]) BY <1>2, <2>1
  <2>3. c \in Places(s) /\ ~Below(s, o[c], o[j]) BY <1>5, <2>1, LargerIs
  <2> HIDE DEF c
  <2>4. o[c] \in Places(s) /\ o[r] \in Places(s) /\ o[j] \in Places(s) BY <1>1, <1>3, <2>3
  <2>5. Below(s, o[r], o[j]) => Below(s, o[c], o[j]) BY <2>2, <2>4 DEF Comparable
  <2> QED BY <1>5, <2>3, <2>5
<1> QED BY <1>4, <1>5

(* When it goes on, only the next root may be below its children.          *)
LEMMA GoOnIsAlmost ==
  ASSUME NEW s, Comparable(s), NEW leaf \in Nat, leaf <= Len(s), NEW o \in Perms(s), NEW a \in Nat,
         NEW r \in Places(s), r >= a, AlmostHeap(s, o, a, r, leaf),
         ~(2 * r > leaf \/ Below(s, o[LargerKid(s, o, r, leaf)], o[r]))
  PROVE  LET c == LargerKid(s, o, r, leaf)
             q == HeadsList!Swap(o, r, c)
         IN  /\ c \in Places(s) /\ c > r /\ AlmostHeap(s, q, a, c, leaf) /\ Stirs(s, o, q, leaf)
             /\ ~Heap(s, o, a, leaf)
<1> DEFINE c == LargerKid(s, o, r, leaf)
           q == HeadsList!Swap(o, r, c)
<1>1. o \in [Places(s) -> Places(s)] /\ \A k, m \in Places(s) : o[k] = o[m] => k = m BY DEF Perms
<1>2. Len(s) \in Nat \ {0} /\ r \in Nat \ {0} BY DEF Comparable, Places
<1>3. \A j \in 1..leaf : j \in Places(s) BY <1>2 DEF Places
<1>4. 2 * r <= leaf /\ ~Below(s, o[c], o[r]) BY <1>2
<1>5. /\ c \in 1..leaf /\ c \in Places(s) /\ c > r /\ r \in 1..leaf /\ Kid(r, c)
      /\ \A j \in 1..leaf : Kid(r, j) => ~Below(s, o[c], o[j])
  BY <1>4, LargerIs
<1>6. /\ q \in Perms(s)
      /\ \A k \in Places(s) : q[k] = IF k = c THEN o[r] ELSE IF k = r THEN o[c] ELSE o[k]
  BY <1>5, SwapIs
<1> HIDE DEF c, q
<1>7. q[r] = o[c] /\ q[c] = o[r] /\ \A k \in 1..leaf : k # c /\ k # r => q[k] = o[k] BY <1>2, <1>3, <1>5, <1>6
<1>8. ASSUME NEW i \in 1..leaf, NEW j \in 1..leaf, Kid(i, j), i >= a, i # c PROVE ~Below(s, q[i], q[j])
  <2>1. CASE i = r
    <3>1. j # r BY <1>2, <1>8, <2>1 DEF Kid
    <3>2. CASE j = c BY <1>4, <1>7, <2>1, <3>2
    <3>3. CASE j # c
      <4>1. q[j] = o[j] BY <1>7, <3>1, <3>3
      <4> QED BY <1>5, <1>7, <1>8, <2>1, <4>1
    <3> QED BY <3>2, <3>3
  <2>2. CASE i # r
    <3>1. q[i] = o[i] BY <1>7, <1>8, <2>2
    <3>2. j # c BY <1>2, <1>5, <1>8, <2>2 DEF Kid
    <3>3. CASE j = r
      <4>1. ~Below(s, o[i], o[c]) BY <1>5, <1>8, <3>3 DEF AlmostHeap
      <4> QED BY <1>7, <3>1, <3>3, <4>1
    <3>4. CASE j # r
      <4>1. q[j] = o[j] BY <1>7, <3>2, <3>4
      <4>2. ~Below(s, o[i], o[j]) BY <1>8, <2>2 DEF AlmostHeap
      <4> QED BY <3>1, <4>1, <4>2
    <3> QED BY <3>3, <3>4
  <2> QED BY <2>1, <2>2
<1>9. ASSUME NEW i \in 1..leaf, NEW j \in 1..leaf, Kid(i, c), Kid(c, j), i >= a PROVE ~Below(s, q[i], q[j])
  <2>1. i = r BY <1>2, <1>5, <1>9 DEF Kid
  <2>2. j # c /\ j # r /\ c >= a BY <1>2, <1>5, <1>9 DEF Kid
  <2>3. q[i] = o[c] /\ q[j] = o[j] BY <1>7, <2>1, <2>2
  <2>4. ~Below(s, o[c], o[j])
    <3>1. c # r BY <1>2, <1>5
    <3> QED BY <1>5, <1>9, <2>2, <3>1 DEF AlmostHeap
  <2> QED BY <2>3, <2>4
<1>10. AlmostHeap(s, q, a, c, leaf) BY <1>8, <1>9 DEF AlmostHeap
<1>11. Stirs(s, o, q, leaf)
  <2>1. \A i \in Places(s) : i > leaf => q[i] = o[i]
    <3> SUFFICES ASSUME NEW i \in Places(s), i > leaf PROVE q[i] = o[i] OBVIOUS
    <3>1. i # c /\ i # r BY <1>2, <1>5 DEF Places
    <3> QED BY <1>6, <3>1
  <2>2. \A i \in 1..leaf : \E k \in 1..leaf : q[i] = o[k] BY <1>5, <1>7
  <2> QED BY <1>6, <2>1, <2>2 DEF Stirs
<1>12. ~Heap(s, o, a, leaf)
  <2>1. o[r] # o[c] /\ o[r] \in Places(s) /\ o[c] \in Places(s)
    <3>1. r # c BY <1>2, <1>5
    <3> QED BY <1>1, <1>5, <3>1
  <2>2. Below(s, o[r], o[c]) BY <1>4, <2>1 DEF Comparable
  <2> QED BY <1>5, <2>2 DEF Heap
<1> QED BY <1>5, <1>10, <1>11, <1>12 DEF c, q

(* What two rounds of downheap stir is stirred by both.                    *)
LEMMA StirsOn ==
  ASSUME NEW s, Comparable(s), NEW leaf \in Nat, leaf <= Len(s), NEW o, NEW q, NEW u,
         Stirs(s, o, q, leaf), Stirs(s, q, u, leaf)
  PROVE  Stirs(s, o, u, leaf)
<1>1. u \in Perms(s) BY DEF Stirs
<1>2. ASSUME NEW i \in Places(s), i > leaf PROVE u[i] = o[i] BY <1>2 DEF Stirs
<1>3. ASSUME NEW i \in 1..leaf PROVE \E k \in 1..leaf : u[i] = o[k]
  <2>1. PICK k \in 1..leaf : u[i] = q[k] BY DEF Stirs
  <2>2. PICK m \in 1..leaf : q[k] = o[m] BY DEF Stirs
  <2> QED BY <2>1, <2>2
<1> QED BY <1>1, <1>2, <1>3 DEF Stirs

(* downheap makes a heap of what is one but for the children of the root.  *)
LEMMA DownheapIs ==
  ASSUME NEW s, Comparable(s), NEW leaf \in Nat, leaf <= Len(s), NEW o \in Perms(s), NEW a \in Nat,
         NEW r \in Places(s), r >= a, AlmostHeap(s, o, a, r, leaf)
  PROVE  LET q == HeadsList!Downheap(s, r, leaf)[o] IN Stirs(s, o, q, leaf) /\ Heap(s, q, a, leaf)
<1> DEFINE H == [order : Perms(s), root : Places(s)]
           T == HeadsList!HeapTurn(s, leaf)
           Good(h, t) == /\ Stirs(s, o, h.order, leaf) /\ h.root >= a /\ AlmostHeap(s, h.order, a, h.root, leaf)
                         /\ (Heap(s, h.order, a, leaf) \/ h.root > t)
           J == [t \in 0..leaf |-> {h \in H : Good(h, t)}]
           x == [order |-> o, root |-> r]
           E(f) == f = [i \in 0..leaf |-> IF i = 0 THEN x ELSE T[f[i - 1]]]
           D == CHOOSE f : E(f)
           G == [p \in H \X Nat |-> T[p[1]]]
<1>1. Len(s) \in Nat \ {0} /\ DOMAIN s = Places(s) /\ Places(s) = 1..Len(s) BY DEF Comparable, Places
<1>2. x \in J[0]
  <2>1. Stirs(s, o, o, leaf) BY DEF Stirs
  <2>2. r > 0 BY <1>1
  <2>3. Good(x, 0) BY <2>1, <2>2
  <2>4. x \in H OBVIOUS
  <2> HIDE DEF Good, H, x
  <2> QED BY <2>3, <2>4
<1>3. ASSUME NEW i \in 1..leaf, NEW h \in J[i - 1] PROVE T[h] \in J[i] /\ G[<<h, i>>] = T[h]
  <2>1. i - 1 \in 0..leaf /\ i \in 0..leaf OBVIOUS
  <2>2. h \in H /\ Good(h, i - 1)
    <3> HIDE DEF Good, H
    <3> QED BY <2>1
  <2> DEFINE oo == h.order
             rr == h.root
             c == LargerKid(s, oo, rr, leaf)
             g == [order |-> HeadsList!Swap(oo, rr, c), root |-> c]
  <2>3. oo \in Perms(s) /\ rr \in Places(s) /\ h = [order |-> oo, root |-> rr] BY <2>2
  <2>4. oo \in [Places(s) -> Places(s)] BY <2>3 DEF Perms
  <2>5. Stirs(s, o, oo, leaf) /\ rr >= a /\ AlmostHeap(s, oo, a, rr, leaf) /\ (Heap(s, oo, a, leaf) \/ rr > i - 1)
    BY <2>2
  <2>6. T[h] = IF 2 * rr > leaf \/ Below(s, oo[c], oo[rr]) THEN h ELSE g
    <3> HIDE DEF oo, rr
    <3> QED BY <1>1, <2>3, <2>4, HeapTurnIs
  <2>7. G[<<h, i>>] = T[h] BY <2>2
  <2>8. CASE 2 * rr > leaf \/ Below(s, oo[c], oo[rr])
    <3>1. Heap(s, oo, a, leaf)
      <4> HIDE DEF oo, rr
      <4> QED BY <2>3, <2>5, <2>8, StopIsHeap
    <3>2. Good(h, i) BY <2>5, <3>1
    <3>3. T[h] = h BY <2>6, <2>8
    <3> HIDE DEF T, Good, H, G
    <3> QED BY <2>1, <2>2, <2>7, <3>2, <3>3
  <2>9. CASE ~(2 * rr > leaf \/ Below(s, oo[c], oo[rr]))
    <3> DEFINE q == HeadsList!Swap(oo, rr, c)
    <3>1. c \in Places(s) /\ c > rr /\ AlmostHeap(s, q, a, c, leaf) /\ Stirs(s, oo, q, leaf) /\ ~Heap(s, oo, a, leaf)
      <4> HIDE DEF oo, rr
      <4> QED BY <2>3, <2>5, <2>9, GoOnIsAlmost
    <3>2. Stirs(s, o, q, leaf) /\ q \in Perms(s)
      <4> HIDE DEF q, oo, rr, c
      <4>1. Stirs(s, o, q, leaf) BY <2>5, <3>1, StirsOn
      <4> QED BY <4>1 DEF Stirs
    <3>3. rr \in Nat /\ c \in Nat /\ rr > i - 1
      <4> HIDE DEF rr, oo, c
      <4> QED BY <1>1, <2>3, <2>5, <3>1
    <3>4. c > i /\ c >= a
      <4> HIDE DEF rr, oo, c
      <4> QED BY <2>5, <3>1, <3>3
    <3>5. T[h] = g BY <2>6, <2>9
    <3>6. g = [order |-> q, root |-> c] OBVIOUS
    <3> HIDE DEF q, c, g, oo, rr
    <3>7. g \in H /\ g.order = q /\ g.root = c BY <3>1, <3>2, <3>6
    <3>8. Good(g, i) BY <3>1, <3>2, <3>4, <3>7
    <3> HIDE DEF T, Good, H, G
    <3> QED BY <2>1, <2>7, <3>5, <3>7, <3>8
  <2> QED BY <2>8, <2>9
<1>4. \E f : E(f)
  <2>1. \A i \in 1..leaf : \A h \in J[i - 1] : G[<<h, i>>] \in J[i] /\ G[<<h, i>>] = T[h]
    <3> HIDE DEF J, G, T
    <3> QED BY <1>3
  <2>2. PICK f : IsTurns(f, leaf, x, G) /\ \A i \in 0..leaf : f[i] \in J[i]
    <3> HIDE DEF J, G, x
    <3> QED BY <1>2, <2>1, TurnsKeep
  <2>3. ASSUME NEW i \in 0..leaf PROVE (IF i = 0 THEN x ELSE G[<<f[i - 1], i>>]) = IF i = 0 THEN x ELSE T[f[i - 1]]
    <3> HIDE DEF J, G, x, T
    <3>1. CASE i = 0 BY <3>1
    <3>2. CASE i # 0
      <4>1. i \in 1..leaf /\ i - 1 \in 0..leaf BY <3>2
      <4> QED BY <2>1, <2>2, <4>1
    <3> QED BY <3>1, <3>2
  <2>4. f = [i \in 0..leaf |-> IF i = 0 THEN x ELSE G[<<f[i - 1], i>>]]
    <3> HIDE DEF J, G, x
    <3> QED BY <2>2 DEF IsTurns
  <2> HIDE DEF J, G, x, T
  <2>5. E(f) BY <2>3, <2>4
  <2> QED BY <2>5
<1>5. E(D)
  <2> HIDE DEF E
  <2> QED BY <1>4
<1>6. HeadsList!Downheap(s, r, leaf)[o] = D[leaf].order
  <2>1. o \in HeadsList!Orders(s) BY <1>1 DEF HeadsList!Orders, Perms
  <2> QED BY <2>1 DEF HeadsList!Downheap
<1>7. D[leaf] \in J[leaf]
  <2>0. \A i \in 0..leaf : D[i] = IF i = 0 THEN x ELSE T[D[i - 1]]
    <3> HIDE DEF D, x, T
    <3> QED BY <1>5
  <2> HIDE DEF D, J, T, x
  <2>1. D[0] \in J[0] BY <1>2, <2>0
  <2>2. \A i \in 1..leaf : D[i - 1] \in J[i - 1] => D[i] \in J[i]
    <3> SUFFICES ASSUME NEW i \in 1..leaf, D[i - 1] \in J[i - 1] PROVE D[i] \in J[i] OBVIOUS
    <3>1. i # 0 /\ i \in 0..leaf OBVIOUS
    <3>2. D[i] = T[D[i - 1]] BY <2>0, <3>1
    <3>3. T[D[i - 1]] \in J[i] BY <1>3
    <3> QED BY <3>2, <3>3
  <2>3. \A i \in 0..leaf : D[i] \in J[i] BY <2>1, <2>2, TurnsStay
  <2> QED BY <2>3
<1> HIDE DEF D, T, E, G
<1>8. Good(D[leaf], leaf)
  <2> HIDE DEF Good
  <2> QED BY <1>7
<1>9. Heap(s, D[leaf].order, a, leaf)
  <2>1. CASE D[leaf].root > leaf
    <3>1. \A i \in 1..leaf : i # D[leaf].root
      <4> SUFFICES ASSUME D[leaf].root \in 1..leaf PROVE FALSE OBVIOUS
      <4> QED BY <2>1
    <3> QED BY <1>8, <3>1 DEF AlmostHeap, Heap
  <2> QED BY <1>8, <2>1
<1> QED BY <1>6, <1>8, <1>9

(* The first of a heap is below no other.                                  *)
LEMMA TopIs ==
  ASSUME NEW s, Comparable(s), NEW leaf \in Nat, leaf <= Len(s), NEW o \in Perms(s), Heap(s, o, 1, leaf)
  PROVE  \A j \in 1..leaf : ~Below(s, o[1], o[j])
<1>1. o \in [Places(s) -> Places(s)] BY DEF Perms
<1>2. Len(s) \in Nat \ {0} /\ \A j \in 1..leaf : j \in Places(s) BY DEF Comparable, Places
<1> DEFINE T == {n \in Nat : \A j \in 1..leaf : j <= n => ~Below(s, o[1], o[j])}
<1>3. 0 \in T OBVIOUS
<1>4. ASSUME NEW n \in Nat, n \in T PROVE n + 1 \in T
  <2> SUFFICES ASSUME NEW j \in 1..leaf, j = n + 1 PROVE ~Below(s, o[1], o[j]) BY <1>4
  <2>1. o[j] \in Places(s) BY <1>1, <1>2
  <2>2. CASE j = 1 BY <2>1, <2>2 DEF Comparable
  <2>3. CASE j # 1
    <3> DEFINE k == j \div 2
    <3>1. k \in 1..leaf /\ k <= n /\ Kid(k, j) /\ k >= 1
      <4>1. j \in Nat /\ j >= 2 BY <2>3
      <4>2. k \in Nat /\ (j = 2 * k \/ j = 2 * k + 1) BY <4>1
      <4> HIDE DEF k
      <4> QED BY <4>1, <4>2 DEF Kid
    <3> HIDE DEF k
    <3>2. ~Below(s, o[1], o[k]) /\ ~Below(s, o[k], o[j]) BY <1>4, <3>1 DEF Heap
    <3>3. o[1] \in Places(s) /\ o[k] \in Places(s)
      <4>1. 1 \in 1..leaf BY <3>1
      <4> QED BY <1>1, <1>2, <3>1, <4>1
    <3>4. CASE o[1] = o[k] BY <3>2, <3>4
    <3>5. CASE o[1] # o[k]
      <4>1. Below(s, o[k], o[1]) BY <3>2, <3>3, <3>5 DEF Comparable
      <4>2. Below(s, o[1], o[j]) => Below(s, o[k], o[j]) BY <2>1, <3>3, <4>1 DEF Comparable
      <4> QED BY <3>2, <4>2
    <3> QED BY <3>4, <3>5
  <2> QED BY <2>2, <2>3
<1>5. Nat \subseteq T
  <2> HIDE DEF T
  <2> QED BY <1>3, <1>4, NatUpwards
<1>6. leaf \in T BY <1>5
<1> QED BY <1>6

(* The second half of the list has no children, and one more place of the  *)
(* first half may become the root of a heap.                               *)
LEMMA HeapGrows ==
  ASSUME NEW s, Comparable(s), NEW o \in Perms(s), NEW a \in 1..Len(s) \div 2, Heap(s, o, a + 1, Len(s))
  PROVE  LET q == HeadsList!Downheap(s, a, Len(s))[o] IN q \in Perms(s) /\ Heap(s, q, a, Len(s))
<1> DEFINE n == Len(s)
           q == HeadsList!Downheap(s, a, n)[o]
<1>1. n \in Nat \ {0} /\ a \in Nat \ {0} /\ a \in Places(s)
  <2>1. n \in Nat \ {0} /\ n \div 2 <= n BY DEF Comparable
  <2> QED BY <2>1 DEF Places
<1>2. AlmostHeap(s, o, a, a, n)
  <2>1. ASSUME NEW i \in 1..n, i >= a, i # a PROVE i >= a + 1 BY <1>1, <2>1
  <2>2. ASSUME NEW i \in 1..n, i >= a PROVE ~Kid(i, a) BY <1>1, <2>2 DEF Kid
  <2> QED BY <2>1, <2>2 DEF AlmostHeap, Heap
<1>3. Stirs(s, o, q, n) /\ Heap(s, q, a, n)
  <2>1. n <= n /\ a >= a BY <1>1
  <2> HIDE DEF q
  <2> QED BY <1>1, <1>2, <2>1, DownheapIs DEF q
<1> QED BY <1>3 DEF Stirs

(* The places after leaf hold what belongs there.                          *)
Settled(s, o, leaf) ==
  /\ o \in Perms(s) /\ Heap(s, o, 1, leaf)
  /\ \A p, q \in Places(s) : p > leaf /\ q <= p => ~Below(s, o[p], o[q])

(* Taking the first of the heap away leaves a smaller heap.                *)
LEMMA DrainIs ==
  ASSUME NEW s, Comparable(s), NEW leaf \in Nat \ {0}, leaf + 1 <= Len(s), NEW o, Settled(s, o, leaf + 1)
  PROVE  Settled(s, HeadsList!Drain(s, leaf)[o], leaf)
<1> DEFINE m == leaf + 1
           q == HeadsList!Swap(o, 1, m)
           u == HeadsList!Downheap(s, 1, leaf)[q]
<1>1. o \in Perms(s) /\ Heap(s, o, 1, m) /\ o \in [Places(s) -> Places(s)] BY DEF Settled, Perms
<1>2. Len(s) \in Nat \ {0} /\ DOMAIN s = Places(s) /\ Places(s) = 1..Len(s) BY DEF Comparable, Places
<1>3. 1 \in Places(s) /\ m \in Places(s) BY <1>2
<1>4. q \in Perms(s) /\ \A k \in Places(s) : q[k] = IF k = m THEN o[1] ELSE IF k = 1 THEN o[m] ELSE o[k]
  <2> HIDE DEF m
  <2>1. ASSUME NEW i \in Places(s), NEW j \in Places(s), NEW k \in Places(s)
        PROVE  HeadsList!Swap(o, i, j)[k] = IF k = j THEN o[i] ELSE IF k = i THEN o[j] ELSE o[k]
    <3> HIDE DEF q, u
    <3>1. o \in Perms(s) BY <1>1
    <3> QED BY <3>1, SwapIs
  <2>2. q \in Perms(s) BY <1>1, <1>3, SwapIs
  <2> QED BY <1>3, <2>1, <2>2
<1>5. HeadsList!Drain(s, leaf)[o] = u
  <2>1. o \in HeadsList!Orders(s) BY <1>1, <1>2 DEF HeadsList!Orders
  <2> QED BY <2>1 DEF HeadsList!Drain
<1> HIDE DEF q
<1>6. AlmostHeap(s, q, 1, 1, leaf)
  <2>1. ASSUME NEW i \in 1..leaf, NEW j \in 1..leaf, Kid(i, j), i # 1 PROVE ~Below(s, q[i], q[j])
    <3>1. i \in Places(s) /\ j \in Places(s) /\ i # m /\ j # m /\ j # 1 BY <1>2, <2>1 DEF Kid
    <3>2. q[i] = o[i] /\ q[j] = o[j] BY <1>4, <2>1, <3>1
    <3>3. i \in 1..m /\ j \in 1..m /\ i >= 1 OBVIOUS
    <3>4. ~Below(s, o[i], o[j])
      <4> HIDE DEF m
      <4> QED BY <1>1, <2>1, <3>3 DEF Heap
    <3> QED BY <3>2, <3>4
  <2>2. ASSUME NEW i \in 1..leaf PROVE ~Kid(i, 1) BY DEF Kid
  <2> QED BY <2>1, <2>2 DEF AlmostHeap
<1>7. Stirs(s, q, u, leaf) /\ Heap(s, u, 1, leaf)
  <2>1. leaf \in Nat /\ leaf <= Len(s) /\ 1 >= 1 /\ 1 \in Nat BY <1>2
  <2> HIDE DEF u
  <2> QED BY <1>3, <1>4, <1>6, <2>1, DownheapIs DEF u
<1> HIDE DEF u
<1>8. ASSUME NEW p \in Places(s), NEW k \in Places(s), p > leaf, k <= p PROVE ~Below(s, q[p], q[k])
  <2>1. q[p] = IF p = m THEN o[1] ELSE o[p]
    <3>1. p # 1 BY <1>2, <1>8
    <3> QED BY <1>4, <3>1
  <2>2. CASE p = m
    <3>1. \E j \in 1..m : q[k] = o[j]
      <4>1. k \in 1..m /\ 1 \in 1..m /\ m \in 1..m BY <1>2, <1>8, <2>2
      <4>2. q[k] = IF k = m THEN o[1] ELSE IF k = 1 THEN o[m] ELSE o[k] BY <1>4
      <4> QED BY <4>1, <4>2
    <3>2. \A j \in 1..m : ~Below(s, o[1], o[j])
      <4>1. m \in Nat /\ m <= Len(s) OBVIOUS
      <4> HIDE DEF m
      <4> QED BY <1>1, <4>1, TopIs
    <3> QED BY <2>1, <2>2, <3>1, <3>2
  <2>3. CASE p # m
    <3>1. p > m BY <1>2, <1>8, <2>3
    <3>2. \A j \in Places(s) : j <= p => ~Below(s, o[p], o[j]) BY <3>1 DEF Settled
    <3>3. \E j \in Places(s) : j <= p /\ q[k] = o[j]
      <4>1. q[k] = IF k = m THEN o[1] ELSE IF k = 1 THEN o[m] ELSE o[k] BY <1>4
      <4>2. m <= p /\ 1 <= p BY <1>2, <3>1
      <4> HIDE DEF m
      <4> QED BY <1>3, <1>8, <4>1, <4>2
    <3> QED BY <2>1, <2>3, <3>2, <3>3
  <2> QED BY <2>2, <2>3
<1>9. ASSUME NEW p \in Places(s), NEW k \in Places(s), p > leaf, k <= p PROVE ~Below(s, u[p], u[k])
  <2>1. u[p] = q[p] BY <1>7, <1>9 DEF Stirs
  <2>2. CASE k > leaf
    <3>1. u[k] = q[k] BY <1>7, <2>2 DEF Stirs
    <3> QED BY <1>8, <1>9, <2>1, <3>1
  <2>3. CASE ~(k > leaf)
    <3>1. k \in 1..leaf BY <1>2, <2>3
    <3>2. PICK j \in 1..leaf : u[k] = q[j] BY <1>7, <3>1 DEF Stirs
    <3>3. j \in Places(s) /\ j <= p BY <1>2, <1>9, <3>2
    <3> QED BY <1>8, <1>9, <2>1, <3>2, <3>3
  <2> QED BY <2>2, <2>3
<1>10. u \in Perms(s) BY <1>7 DEF Stirs
<1> QED BY <1>5, <1>7, <1>9, <1>10 DEF Settled

(* f[i] comes from f[i - 1] by step i.                                     *)
IsSteps(f, n, x, Step) == f = [i \in 0..n |-> IF i = 0 THEN x ELSE Step[i][f[i - 1]]]

(* There is such an f, and it stays in J when every step does.             *)
LEMMA StepsStay ==
  ASSUME NEW n \in Nat, NEW J, NEW x \in J[0], NEW Step, NEW f, IsSteps(f, n, x, Step),
         \A i \in 1..n : \A r \in J[i - 1] : Step[i][r] \in J[i]
  PROVE  \A i \in 0..n : f[i] \in J[i]
<1>1. \A i \in 0..n : f[i] = IF i = 0 THEN x ELSE Step[i][f[i - 1]] BY DEF IsSteps
<1>2. f[0] \in J[0] BY <1>1
<1>3. ASSUME NEW i \in 1..n, f[i - 1] \in J[i - 1] PROVE f[i] \in J[i]
  <2>1. i \in 0..n /\ i # 0 OBVIOUS
  <2>2. f[i] = Step[i][f[i - 1]] BY <1>1, <2>1
  <2> QED BY <1>3, <2>2
<1> QED BY <1>2, <1>3, TurnsStay

(* What steps through 1..n from x exists, when every step stays in its     *)
(* set.                                                                    *)
LEMMA StepsExist ==
  ASSUME NEW n \in Nat, NEW J, NEW x \in J[0], NEW Step,
         \A i \in 1..n : \A r \in J[i - 1] : Step[i][r] \in J[i]
  PROVE  \E f : IsSteps(f, n, x, Step)
<1> DEFINE V == UNION {J[i] : i \in 0..n}
           G == [p \in V \X (1..n) |-> Step[p[2]][p[1]]]
<1>1. ASSUME NEW i \in 1..n, NEW r \in J[i - 1] PROVE G[<<r, i>>] \in J[i] /\ G[<<r, i>>] = Step[i][r]
  <2>1. i - 1 \in 0..n OBVIOUS
  <2>2. r \in V BY <2>1
  <2>3. G[<<r, i>>] = Step[i][r] BY <2>2
  <2> QED BY <2>3
<1> HIDE DEF G
<1>2. PICK f : IsTurns(f, n, x, G) /\ \A i \in 0..n : f[i] \in J[i] BY <1>1, TurnsKeep
<1>3. ASSUME NEW i \in 0..n
      PROVE  (IF i = 0 THEN x ELSE G[<<f[i - 1], i>>]) = IF i = 0 THEN x ELSE Step[i][f[i - 1]]
  <2>1. CASE i = 0 BY <2>1
  <2>2. CASE i # 0
    <3>1. i \in 1..n /\ i - 1 \in 0..n BY <2>2
    <3> QED BY <1>1, <1>2, <3>1
  <2> QED BY <2>1, <2>2
<1>4. f = [i \in 0..n |-> IF i = 0 THEN x ELSE G[<<f[i - 1], i>>]] BY <1>2 DEF IsTurns
<1>5. f = [i \in 0..n |-> IF i = 0 THEN x ELSE Step[i][f[i - 1]]] BY <1>3, <1>4
<1> QED BY <1>5 DEF IsSteps

(* sort() puts no head before one that is below it.                        *)
LEMMA SortedOrderIs ==
  ASSUME NEW s, Comparable(s), Len(s) >= 2
  PROVE  Settled(s, HeadsList!SortedOrder(s), 1)
<1> DEFINE n == Len(s)
           m == n \div 2
           id == [k \in 1..n |-> k]
           HE(f) == f = [i \in 0..m |-> IF i = 0 THEN id ELSE HeadsList!Downheap(s, m + 1 - i, n)[f[i - 1]]]
           HF == CHOOSE f : HE(f)
           DE(f) == f = [i \in 0..n - 1 |-> IF i = 0 THEN HF[m] ELSE HeadsList!Drain(s, n - i)[f[i - 1]]]
           DF == CHOOSE f : DE(f)
           HJ == [i \in 0..m |-> {o \in Perms(s) : Heap(s, o, m + 1 - i, n)}]
           DJ == [i \in 0..n - 1 |-> {o \in Perms(s) : Settled(s, o, n - i)}]
           HS == [i \in 0..m |-> HeadsList!Downheap(s, m + 1 - i, n)]
           DS == [i \in 0..n - 1 |-> HeadsList!Drain(s, n - i)]
<1>1. n \in Nat \ {0, 1} /\ m \in Nat \ {0} /\ 2 * m <= n /\ n <= 2 * m + 1
  <2>1. n \in Nat /\ n >= 2 BY DEF Comparable
  <2> HIDE DEF n
  <2> QED BY <2>1
<1>2. Places(s) = 1..n BY DEF Places
<1>3. HeadsList!SortedOrder(s) = DF[n - 1]
  <2> HIDE DEF n
  <2> QED BY DEF HeadsList!SortedOrder, n
<1> HIDE DEF n, m
<1>4. id \in HJ[0]
  <2>1. id \in Perms(s) BY <1>2 DEF Perms
  <2>2. Heap(s, id, m + 1 - 0, n)
    <3>1. \A i, j \in 1..n : Kid(i, j) => ~(i >= m + 1 - 0) BY <1>1 DEF Kid
    <3> HIDE DEF id
    <3> QED BY <3>1 DEF Heap
  <2>3. 0 \in 0..m BY <1>1
  <2> HIDE DEF id
  <2> QED BY <2>1, <2>2, <2>3
<1>5. ASSUME NEW i \in 1..m, NEW o \in HJ[i - 1] PROVE HS[i][o] \in HJ[i]
  <2>1. i - 1 \in 0..m /\ i \in 0..m /\ m + 1 - i \in 1..m /\ m + 1 - (i - 1) = (m + 1 - i) + 1 BY <1>1
  <2> DEFINE a == m + 1 - i
  <2>2. o \in Perms(s) /\ Heap(s, o, a + 1, n) BY <2>1
  <2>3. HS[i][o] = HeadsList!Downheap(s, a, n)[o] BY <2>1
  <2>4. a \in 1..Len(s) \div 2 BY <2>1 DEF m, n
  <2> HIDE DEF a, HS
  <2>5. HS[i][o] \in Perms(s) /\ Heap(s, HS[i][o], a, n) BY <2>2, <2>3, <2>4, HeapGrows DEF n
  <2> QED BY <2>1, <2>5 DEF a
<1>6. HE(HF) /\ HF[m] \in Perms(s) /\ Heap(s, HF[m], 1, n)
  <2>1. \A i \in 1..m : \A o \in HJ[i - 1] : HS[i][o] \in HJ[i]
    <3> HIDE DEF HS, HJ
    <3> QED BY <1>5
  <2>2. PICK f : IsSteps(f, m, id, HS)
    <3> HIDE DEF HS, HJ, id
    <3> QED BY <1>1, <1>4, <2>1, StepsExist
  <2>3. HE(f) BY <2>2 DEF IsSteps
  <2>4. HE(HF)
    <3> HIDE DEF HE
    <3> QED BY <2>3
  <2> HIDE DEF HF
  <2>5. IsSteps(HF, m, id, HS) BY <2>4 DEF IsSteps
  <2>6. \A i \in 0..m : HF[i] \in HJ[i]
    <3> HIDE DEF HS, HJ, id
    <3> QED BY <1>1, <1>4, <2>1, <2>5, StepsStay
  <2>7. m \in 0..m /\ m + 1 - m = 1 BY <1>1
  <2>8. HF[m] \in HJ[m] BY <2>6, <2>7
  <2> QED BY <2>4, <2>7, <2>8
<1> HIDE DEF HF, HE, HJ, HS
<1>7. HF[m] \in DJ[0]
  <2>1. Settled(s, HF[m], n - 0)
    <3>1. n - 0 = n /\ \A p \in 1..n : ~(p > n) BY <1>1
    <3> QED BY <1>2, <1>6, <3>1 DEF Settled
  <2>2. 0 \in 0..n - 1 BY <1>1
  <2> QED BY <1>6, <2>1, <2>2
<1>8. ASSUME NEW i \in 1..n - 1, NEW o \in DJ[i - 1] PROVE DS[i][o] \in DJ[i]
  <2>1. i - 1 \in 0..n - 1 /\ i \in 0..n - 1 /\ n - (i - 1) = (n - i) + 1 /\ n - i \in Nat \ {0} /\ (n - i) + 1 <= n
    BY <1>1
  <2> DEFINE leaf == n - i
  <2>2. Settled(s, o, leaf + 1) BY <2>1
  <2>3. DS[i][o] = HeadsList!Drain(s, leaf)[o] BY <2>1
  <2> HIDE DEF leaf, DS
  <2>4. leaf \in Nat \ {0} /\ leaf + 1 <= Len(s) BY <2>1 DEF leaf, n
  <2>5. Settled(s, DS[i][o], leaf) BY <2>2, <2>3, <2>4, DrainIs
  <2>6. DS[i][o] \in Perms(s) BY <2>5 DEF Settled
  <2> QED BY <2>1, <2>5, <2>6 DEF leaf
<1>9. DF[n - 1] \in DJ[n - 1]
  <2>1. \A i \in 1..n - 1 : \A o \in DJ[i - 1] : DS[i][o] \in DJ[i]
    <3> HIDE DEF DS, DJ
    <3> QED BY <1>8
  <2>2. n - 1 \in Nat /\ n - 1 \in 0..n - 1 BY <1>1
  <2> DEFINE x == HF[m]
             w == n - 1
  <2>3. PICK f : IsSteps(f, w, x, DS)
    <3>1. x \in DJ[0] BY <1>7
    <3> HIDE DEF DS, DJ, x
    <3>2. w \in Nat /\ \A i \in 1..w : \A o \in DJ[i - 1] : DS[i][o] \in DJ[i] BY <2>1, <2>2
    <3> HIDE DEF w
    <3> QED BY <3>1, <3>2, StepsExist
  <2>4. DE(f) BY <2>3 DEF IsSteps
  <2>5. DE(DF)
    <3> HIDE DEF DE
    <3> QED BY <2>4
  <2> HIDE DEF DF
  <2>6. IsSteps(DF, w, x, DS) BY <2>5 DEF IsSteps
  <2>7. \A i \in 0..w : DF[i] \in DJ[i]
    <3>1. x \in DJ[0] BY <1>7
    <3> HIDE DEF DS, DJ, x
    <3>2. w \in Nat /\ \A i \in 1..w : \A o \in DJ[i - 1] : DS[i][o] \in DJ[i] BY <2>1, <2>2
    <3> HIDE DEF w
    <3> QED BY <2>6, <3>1, <3>2, StepsStay
  <2> HIDE DEF DJ
  <2> QED BY <2>2, <2>7
<1>10. n - 1 \in 0..n - 1 /\ n - (n - 1) = 1 BY <1>1
<1> HIDE DEF DF
<1> QED BY <1>3, <1>9, <1>10

(* sort() permutes a list of comparable elements, and no later one is      *)
(* below an earlier one.                                                   *)
LEMMA SortedIs ==
  ASSUME NEW s \in Seq(BlockHeads), Comparable(s)
  PROVE  \E o \in Perms(s) :
           /\ HeadsList!Sorted(s) = [k \in Places(s) |-> s[o[k]]]
           /\ \A p, q \in Places(s) : q <= p => ~Below(s, o[p], o[q])
           /\ \A j \in Places(s) : \E k \in Places(s) : o[k] = j
<1>1. Len(s) \in Nat \ {0} /\ DOMAIN s = Places(s) /\ Places(s) = 1..Len(s) BY DEF Comparable, Places
<1>2. ASSUME NEW o \in Perms(s), HeadsList!Sorted(s) = [k \in Places(s) |-> s[o[k]]],
             \A p, q \in Places(s) : q <= p => ~Below(s, o[p], o[q])
      PROVE  \A j \in Places(s) : \E k \in Places(s) : o[k] = j
  <2>1. o \in [Places(s) -> Places(s)] /\ \A i, j \in Places(s) : o[i] = o[j] => i = j BY DEF Perms
  <2>2. IsFiniteSet(Places(s)) BY <1>1, FS_Interval
  <2>3. o \in Injection(Places(s), Places(s)) BY <2>1 DEF Injection, IsInjective
  <2>4. o \in Surjection(Places(s), Places(s)) BY <2>2, <2>3, FS_Injection
  <2> QED BY <2>4 DEF Surjection
<1>3. CASE Len(s) < 2
  <2> DEFINE id == [k \in Places(s) |-> k]
  <2>1. HeadsList!Sorted(s) = s BY <1>3 DEF HeadsList!Sorted
  <2>2. Places(s) = {1} BY <1>1, <1>3
  <2>3. id \in Perms(s) BY DEF Perms
  <2>4. s = [k \in Places(s) |-> s[id[k]]]
    <3>1. \A k \in Places(s) : id[k] = k OBVIOUS
    <3> HIDE DEF id
    <3> QED BY <1>1, <3>1
  <2>5. ASSUME NEW p \in Places(s), NEW q \in Places(s) PROVE ~Below(s, id[p], id[q])
    <3>1. p = 1 /\ q = 1 /\ id[1] = 1 BY <2>2
    <3> QED BY <2>2, <3>1 DEF Comparable
  <2> HIDE DEF id
  <2> QED BY <1>2, <2>1, <2>3, <2>4, <2>5
<1>4. CASE ~(Len(s) < 2)
  <2> DEFINE o == HeadsList!SortedOrder(s)
  <2>1. Len(s) >= 2 BY <1>1, <1>4
  <2>2. Settled(s, o, 1)
    <3> HIDE DEF o
    <3> QED BY <2>1, SortedOrderIs DEF o
  <2>3. HeadsList!Sorted(s) = [k \in Places(s) |-> s[o[k]]] BY <1>1, <1>4 DEF HeadsList!Sorted
  <2> HIDE DEF o
  <2>4. o \in Perms(s) /\ o \in [Places(s) -> Places(s)] BY <2>2 DEF Settled, Perms
  <2>5. ASSUME NEW p \in Places(s), NEW q \in Places(s), q <= p PROVE ~Below(s, o[p], o[q])
    <3>1. CASE p > 1 BY <2>2, <2>5, <3>1 DEF Settled
    <3>2. CASE ~(p > 1)
      <4>1. q = p /\ o[p] \in Places(s) BY <1>1, <2>4, <2>5, <3>2
      <4> QED BY <4>1 DEF Comparable
    <3> QED BY <3>1, <3>2
  <2> QED BY <1>2, <2>3, <2>4, <2>5
<1> QED BY <1>3, <1>4

-----------------------------------------------------------------------------
(* The detection.                                                          *)

(* hs has a head for every branch but those to come, and each one once.    *)
HeadsFound(hs, come) ==
  /\ \A i \in 1..Len(hs) : hs[i].path \in Selectable \ come
  /\ \A p \in Selectable \ come : \E i \in 1..Len(hs) : hs[i].path = p
  /\ \A i, j \in 1..Len(hs) : hs[i].path = hs[j].path => i = j

HeadsAre(hs, a) ==
  /\ hs \in Seq(BlockHeads)
  /\ \A i \in 1..Len(hs) :
       /\ IsHead(hs[i])
       /\ Scored(hs[i], IF i < a[1] THEN Len(hs[i].path) + 1 ELSE IF i = a[1] THEN a[2] ELSE 1)
       /\ i = a[1] => a[2] <= Len(hs[i].path) + 1
CacheIs(c) ==
  /\ c \in [Headers -> {NotCached} \cup [voted : {0}, voting : Nat]]
  /\ \A h \in Headers : c[h] # NotCached => c[h] = [voted |-> 0, voting |-> Own(h)]
PhaseIs ==
  /\ phase = "new" => stack = <<>> /\ heads = <<>> /\ at = <<1, 1>>
  /\ phase = "walk" => /\ HeadsFound(heads, ToCome(stack)) /\ at = <<1, 1>>
                       /\ stack # <<>> \/ Len(heads) > 0
  /\ phase = "evaluate" => HeadsFound(heads, {}) /\ stack = <<>> /\ Len(heads) > 0
DetectorInv ==
  /\ TreeIs /\ phase \in {"new", "walk", "evaluate", "done", "failed"}
  /\ stack = <<>> \/ OnStack(stack)
  /\ at \in (Nat \ {0}) \X (Nat \ {0}) /\ HeadsAre(heads, at) /\ CacheIs(cache) /\ PhaseIs

(* What is said of the tree stays true with it.                            *)
LEMMA TreeStays ==
  ASSUME tree' = tree
  PROVE  /\ TreeIs' = TreeIs /\ NoVotes' = NoVotes /\ Selectable' = Selectable
         /\ \A s : OnStack(s)' = OnStack(s) /\ ToCome(s)' = ToCome(s)
         /\ \A c : CacheIs(c)' = CacheIs(c)
         /\ \A hs, a : HeadsAre(hs, a)' = HeadsAre(hs, a)
         /\ \A hs, come : HeadsFound(hs, come)' = HeadsFound(hs, come)
<1>1. TreeIs' = TreeIs BY DEF tree, TreeIs, Grows, Headers
<1>2. NoVotes' = NoVotes BY DEF tree, NoVotes, Headers
<1>3. Selectable' = Selectable
  BY DEF tree, Selectable, Branches, PathTo, BlocksAtHeight, Height, Headers, InOrder, ChildrenOf, Before
<1>4. \A s : OnStack(s)' = OnStack(s)
  BY DEF tree, OnStack, Siblings, StartBlocks, BlocksAtHeight, Height, Headers, InOrder, ChildrenOf
<1>5. \A s : ToCome(s)' = ToCome(s) BY <1>3 DEF ToCome, Parts, Later
<1>6. \A c : CacheIs(c)' = CacheIs(c) BY DEF tree, CacheIs, Headers, Own, VotesFor, Before
<1>7. \A d : IsHead(d)' = IsHead(d)
  BY DEF tree, IsHead, BlockHeads, Grown, Chain, StartBlocks, BlocksAtHeight, Height, Headers, InOrder, ChildrenOf
<1>8. \A d, n : Scored(d, n)' = Scored(d, n) BY DEF tree, Scored, Own, Cast, VotesFor, Before
<1>9. BlockHeads' = BlockHeads BY DEF tree, BlockHeads, Headers
<1>10. \A hs, a : HeadsAre(hs, a)' = HeadsAre(hs, a) BY <1>7, <1>8, <1>9 DEF HeadsAre
<1>11. \A hs, come : HeadsFound(hs, come)' = HeadsFound(hs, come) BY <1>3 DEF HeadsFound
<1> QED BY <1>1, <1>2, <1>3, <1>4, <1>5, <1>6, <1>10, <1>11

(* At first there are no heads.                                            *)
LEMMA DetectorFirst == Init => DetectorInv
<1> SUFFICES ASSUME Init PROVE DetectorInv OBVIOUS
<1>1. PICK n \in 1..MaxHeaders : parent \in {p \in [1..n -> 0..n - 1] : \A h \in 1..n : p[h] < h} BY DEF Init
<1>2. n \in Nat \ {0} /\ DiffBlocks \in Nat \ {0} /\ MaxVotes \in Nat BY DetectorAssumption
<1>3. Headers = 1..n BY <1>1 DEF Headers
<1>4. Grows
  <2>1. parent \in [Headers -> {0} \cup Headers]
    <3>1. 0..n - 1 \subseteq {0} \cup 1..n BY <1>2
    <3> QED BY <1>1, <1>3, <3>1
  <2> QED BY <1>1, <1>2, <1>3, <2>1 DEF Grows
<1>5. TreeIs
  <2>1. votes \in [Headers -> [1..DiffBlocks -> 0..MaxVotes]] BY DEF Init
  <2>2. 0..MaxVotes \subseteq Nat BY <1>2
  <2>3. votes \in [Headers -> [1..DiffBlocks -> Nat]] BY <2>1, <2>2
  <2> QED BY <1>4, <2>3 DEF Init, TreeIs
<1>6. CacheIs(cache)
  <2>1. cache = [h \in Headers |-> NotCached] BY DEF Init
  <2> QED BY <2>1 DEF CacheIs
<1>7. HeadsAre(heads, at) BY DEF Init, HeadsAre
<1>8. at \in (Nat \ {0}) \X (Nat \ {0}) BY DEF Init
<1> QED BY <1>5, <1>6, <1>7, <1>8 DEF Init, DetectorInv, PhaseIs

(* The walk begins at the start blocks.                                    *)
LEMMA BuildHeadsKeeps == DetectorInv /\ BuildHeads => DetectorInv'
<1> SUFFICES ASSUME DetectorInv, BuildHeads PROVE DetectorInv' OBVIOUS
<1>1. tree' = tree /\ heads' = heads /\ at' = at /\ cache' = cache /\ heads = <<>> /\ at = <<1, 1>> /\ stack = <<>>
  BY DEF BuildHeads, DetectorInv, PhaseIs
<1>2. TreeIs' /\ HeadsAre(heads, at)' /\ CacheIs(cache)' /\ at' \in (Nat \ {0}) \X (Nat \ {0})
  <2>1. TreeIs /\ HeadsAre(heads, at) /\ CacheIs(cache) /\ at \in (Nat \ {0}) \X (Nat \ {0}) BY DEF DetectorInv
  <2> QED BY <1>1, <2>1, TreeStays
<1>3. CASE StartBlocks = <<>>
  <2>1. phase' = "failed" /\ stack' = <<>> BY <1>1, <1>3 DEF BuildHeads
  <2> QED BY <1>2, <2>1 DEF DetectorInv, PhaseIs
<1>4. CASE StartBlocks # <<>>
  <2>1. phase' = "walk" /\ stack' = <<Element(StartBlocks)>> BY <1>4 DEF BuildHeads
  <2>2. Grows /\ start \in 1..2 BY DEF DetectorInv, TreeIs
  <2>3. OnStack(stack') /\ ToCome(stack') = Selectable BY <1>4, <2>1, <2>2, ComeFirst
  <2>4. HeadsFound(<<>>, ToCome(stack')) BY <2>3 DEF HeadsFound
  <2>5. OnStack(stack)' /\ HeadsFound(heads, ToCome(stack))'
    <3>1. OnStack(stack)' BY <2>3, TreeStays, <1>1
    <3>2. ToCome(stack)' = ToCome(stack') BY <1>1, TreeStays
    <3>3. HeadsFound(heads, ToCome(stack))' = HeadsFound(heads', ToCome(stack')) BY <1>1, <3>2, TreeStays
    <3>4. heads' = <<>> BY <1>1
    <3> QED BY <2>4, <3>1, <3>3, <3>4
  <2>6. stack' # <<>> BY <2>1
  <2> QED BY <1>1, <1>2, <2>1, <2>5, <2>6 DEF DetectorInv, PhaseIs
<1> QED BY <1>3, <1>4

(* Votes cast for a block of a head are a number.                          *)
LEMMA CastIs ==
  ASSUME TreeIs, NEW d, IsHead(d), NEW k
  PROVE  Cast(d, k) \in Nat
<1>1. CASE k + DiffBlocks \in 1..Len(d.path)
  <2>1. d.path[k + DiffBlocks] \in Headers BY <1>1, HeadIs
  <2> QED BY <1>1, <2>1, VotesAre DEF Cast
<1>2. CASE k + DiffBlocks \notin 1..Len(d.path) BY <1>2 DEF Cast
<1> QED BY <1>1, <1>2

(* A new head has the current blocks and no scores.                        *)
LEMMA NewHeadIs ==
  ASSUME TreeIs, NEW s, OnStack(s), ChildrenOf(Current(s[Len(s)])) = <<>>
  PROVE  CreateBlockHead(s).path = Trail(s) /\ IsHead(CreateBlockHead(s)) /\ Scored(CreateBlockHead(s), 1)
<1> DEFINE n == Len(s)
           p == Trail(s)
           d == CreateBlockHead(s)
           zero == [k \in 1..n |-> 0]
<1>0. Grows /\ start \in 1..2 BY DEF TreeIs
<1>1. n \in Nat \ {0} BY <1>0, StackIs
<1>2. Chain(p) /\ Len(p) = n /\ (\E i \in 1..Len(StartBlocks) : StartBlocks[i] = p[1]) /\ p[n] = Current(s[n])
  BY <1>0, <1>1, TrailIs
<1>3. d = [path |-> p, voted |-> zero, voting |-> zero, size |-> n] BY DEF CreateBlockHead, Trail
<1> HIDE DEF d, p
<1>4. zero \in Seq(Nat) /\ Len(zero) = n /\ \A k \in 1..n : zero[k] = 0 BY <1>1
<1> HIDE DEF zero
<1>5. d.path = p /\ d.voted = zero /\ d.voting = zero /\ d.size = n BY <1>3
<1>6. d \in BlockHeads BY <1>1, <1>2, <1>3, <1>4 DEF BlockHeads, Chain
<1>7. Grown(p) BY <1>2 DEF Grown
<1>8. IsHead(d) BY <1>1, <1>2, <1>4, <1>5, <1>6, <1>7 DEF IsHead
<1>9. Scored(d, 1)
  <2> SUFFICES ASSUME NEW k \in 1..n
               PROVE  /\ d.voting[k] = IF k < 1 THEN Own(d.path[k]) ELSE 0
                      /\ d.voted[k] <= Cast(d, k) /\ (k + DiffBlocks >= 1 => d.voted[k] = 0)
    BY <1>2, <1>5 DEF Scored
  <2>1. ~(k < 1) /\ d.voted[k] = 0 /\ d.voting[k] = 0 BY <1>4, <1>5
  <2> QED BY <1>8, <2>1, CastIs
<1> QED BY <1>5, <1>8, <1>9 DEF d, p

(* The sizes of the heads are bounded.                                     *)
LEMMA SizesBounded ==
  ASSUME NEW hs \in Seq(BlockHeads)
  PROVE  \E n \in Nat : \A i \in 1..Len(hs) : hs[i].size \in Nat /\ hs[i].size <= n
<1> DEFINE T == {m \in Nat : m <= Len(hs) => \E n \in Nat : \A i \in 1..m : hs[i].size <= n}
<1>1. \A i \in 1..Len(hs) : hs[i].size \in Nat
  <2> SUFFICES ASSUME NEW i \in 1..Len(hs) PROVE hs[i].size \in Nat OBVIOUS
  <2>1. hs[i] \in BlockHeads OBVIOUS
  <2> QED BY <2>1 DEF BlockHeads
<1>2. 0 \in T OBVIOUS
<1>3. ASSUME NEW m \in Nat, m \in T PROVE m + 1 \in T
  <2> SUFFICES ASSUME m + 1 <= Len(hs) PROVE \E n \in Nat : \A i \in 1..m + 1 : hs[i].size <= n OBVIOUS
  <2>0. Len(hs) \in Nat OBVIOUS
  <2>1. PICK n \in Nat : \A i \in 1..m : hs[i].size <= n BY <1>3, <2>0
  <2> DEFINE w == IF hs[m + 1].size <= n THEN n ELSE hs[m + 1].size
  <2>2. w \in Nat /\ hs[m + 1].size <= w /\ n <= w BY <1>1, <2>0
  <2>3. ASSUME NEW i \in 1..m + 1 PROVE hs[i].size <= w
    <3>1. CASE i = m + 1 BY <2>2, <3>1
    <3>2. CASE i # m + 1
      <4>1. i \in 1..m /\ i \in 1..Len(hs) BY <2>0, <3>2
      <4>2. hs[i].size <= n /\ hs[i].size \in Nat BY <1>1, <2>1, <4>1
      <4> HIDE DEF w
      <4> QED BY <2>2, <4>2
    <3> QED BY <3>1, <3>2
  <2> HIDE DEF w
  <2> QED BY <2>2, <2>3
<1>4. Nat \subseteq T
  <2> HIDE DEF T
  <2> QED BY <1>2, <1>3, NatUpwards
<1>5. Len(hs) \in Nat /\ Len(hs) <= Len(hs) OBVIOUS
<1>6. Len(hs) \in T
  <2> HIDE DEF T
  <2> QED BY <1>4, <1>5
<1>7. \E n \in Nat : \A i \in 1..Len(hs) : hs[i].size <= n BY <1>5, <1>6
<1> QED BY <1>1, <1>7

(* The padding changes nothing but the sizes.                              *)
LEMMA NormalizedIs ==
  ASSUME TreeIs, NEW hs, NEW a, HeadsAre(hs, a)
  PROVE  LET ns == NormalizeHeadLength(hs)
         IN  HeadsAre(ns, a) /\ Len(ns) = Len(hs) /\ \A i \in 1..Len(hs) : ns[i].path = hs[i].path
<1> DEFINE ns == NormalizeHeadLength(hs)
           sizes == {hs[i].size : i \in DOMAIN hs}
           length == Max(sizes)
<1>1. hs \in Seq(BlockHeads) /\ Len(hs) \in Nat /\ DOMAIN hs = 1..Len(hs) BY DEF HeadsAre
<1>2. ns = [i \in 1..Len(hs) |-> [hs[i] EXCEPT !.size = length]] BY <1>1 DEF NormalizeHeadLength
<1>3. ASSUME NEW i \in 1..Len(hs) PROVE length \in Nat /\ hs[i].size <= length
  <2>1. PICK n \in Nat : \A k \in 1..Len(hs) : hs[k].size \in Nat /\ hs[k].size <= n BY <1>1, SizesBounded
  <2>2. \A k \in 1..Len(hs) : hs[k].size \in 1..n
    <3> SUFFICES ASSUME NEW k \in 1..Len(hs) PROVE hs[k].size \in 1..n OBVIOUS
    <3>1. IsHead(hs[k]) BY DEF HeadsAre
    <3>2. Len(hs[k].path) \in Nat \ {0} /\ Len(hs[k].path) <= hs[k].size BY <3>1, HeadIs DEF IsHead
    <3> QED BY <2>1, <3>2
  <2>3. sizes \subseteq 1..n /\ hs[i].size \in sizes BY <1>1, <2>2
  <2>4. length \in sizes /\ \A k \in sizes : k <= length
    <3> HIDE DEF sizes
    <3> QED BY <2>3, FirstPlace
  <2> HIDE DEF sizes, length
  <2>5. length \in 1..n BY <2>3, <2>4
  <2>6. hs[i].size <= length BY <2>3, <2>4
  <2> QED BY <2>5, <2>6
<1> HIDE DEF ns, length
<1>4. ASSUME NEW i \in 1..Len(hs)
      PROVE  /\ ns[i] \in BlockHeads /\ ns[i].path = hs[i].path /\ ns[i].voted = hs[i].voted
             /\ ns[i].voting = hs[i].voting /\ ns[i].size = length
  <2> DEFINE d == hs[i]
  <2>1. d \in BlockHeads BY <1>1
  <2>2. d = [path |-> d.path, voted |-> d.voted, voting |-> d.voting, size |-> d.size] BY <2>1 DEF BlockHeads
  <2>3. ns[i] = [d EXCEPT !.size = length] BY <1>2
  <2> HIDE DEF d
  <2>4. ns[i] = [path |-> d.path, voted |-> d.voted, voting |-> d.voting, size |-> length] BY <2>2, <2>3
  <2>5. ns[i] \in BlockHeads BY <1>3, <2>1, <2>4 DEF BlockHeads
  <2> QED BY <2>4, <2>5 DEF d
<1>5. ns \in Seq(BlockHeads) /\ Len(ns) = Len(hs)
  <2>1. ns \in [1..Len(hs) -> BlockHeads] BY <1>2, <1>4
  <2> QED BY <1>1, <2>1, ListIs
<1>6. ASSUME NEW i \in 1..Len(hs)
      PROVE  /\ IsHead(ns[i])
             /\ Scored(ns[i], IF i < a[1] THEN Len(ns[i].path) + 1 ELSE IF i = a[1] THEN a[2] ELSE 1)
             /\ i = a[1] => a[2] <= Len(ns[i].path) + 1
  <2>1. /\ IsHead(hs[i])
        /\ Scored(hs[i], IF i < a[1] THEN Len(hs[i].path) + 1 ELSE IF i = a[1] THEN a[2] ELSE 1)
        /\ i = a[1] => a[2] <= Len(hs[i].path) + 1 BY DEF HeadsAre
  <2>2. IsHead(ns[i])
    <3>1. Len(hs[i].path) <= length
      <4>1. Len(hs[i].path) \in Nat /\ hs[i].size \in Nat /\ Len(hs[i].path) <= hs[i].size BY <2>1, HeadIs DEF IsHead
      <4> QED BY <1>3, <4>1
    <3> QED BY <1>4, <2>1, <3>1 DEF IsHead
  <2>3. ASSUME NEW n, Scored(hs[i], n) PROVE Scored(ns[i], n)
    <3>1. \A k : Cast(ns[i], k) = Cast(hs[i], k) BY <1>4 DEF Cast
    <3> QED BY <1>4, <2>3, <3>1 DEF Scored
  <2>4. ns[i].path = hs[i].path BY <1>4
  <2> QED BY <2>1, <2>2, <2>3, <2>4
<1>7. HeadsAre(ns, a) BY <1>5, <1>6 DEF HeadsAre
<1>8. \A i \in 1..Len(hs) : ns[i].path = hs[i].path BY <1>4
<1> QED BY <1>5, <1>7, <1>8 DEF ns

(* A step of the walk finds a branch or goes down.                         *)
LEMMA WalkKeeps == DetectorInv /\ Walk => DetectorInv'
<1> SUFFICES ASSUME DetectorInv, Walk PROVE DetectorInv' OBVIOUS
<1> DEFINE s == stack
           c == ChildrenOf(Current(s[Len(s)]))
<1>1. /\ tree' = tree /\ phase' = phase /\ at' = at /\ cache' = cache
      /\ phase = "walk" /\ stack # <<>> /\ Last(stack) = s[Len(s)]
  BY DEF Walk, Last
<1>2. TreeIs /\ Grows /\ start \in 1..2 BY DEF DetectorInv, TreeIs
<1>3. OnStack(s) /\ HeadsFound(heads, ToCome(s)) /\ at = <<1, 1>> /\ HeadsAre(heads, at)
  BY <1>1 DEF DetectorInv, PhaseIs
<1>4. TreeIs' /\ CacheIs(cache)' /\ at' \in (Nat \ {0}) \X (Nat \ {0})
  <2>1. TreeIs /\ CacheIs(cache) /\ at \in (Nat \ {0}) \X (Nat \ {0}) BY DEF DetectorInv
  <2> QED BY <1>1, <2>1, TreeStays
<1>5. CASE c = <<>>
  <2> DEFINE t == GotoBranch(s)
             d == CreateBlockHead(s)
             hs == Append(heads, d)
             n == Len(heads)
  <2>1. heads' = hs /\ stack' = t BY <1>1, <1>5 DEF Walk
  <2>2. d.path = Trail(s) /\ IsHead(d) /\ Scored(d, 1) BY <1>2, <1>3, <1>5, NewHeadIs
  <2>3. (t = <<>> \/ OnStack(t)) /\ Trail(s) \in ToCome(s) /\ ToCome(t) = ToCome(s) \ {Trail(s)}
    BY <1>2, <1>3, <1>5, ComeBranch
  <2> HIDE DEF d, t
  <2>4. heads \in Seq(BlockHeads) /\ d \in BlockHeads /\ n \in Nat BY <1>3, <2>2 DEF HeadsAre, IsHead
  <2>5. hs \in Seq(BlockHeads) /\ Len(hs) = n + 1 /\ hs[n + 1] = d /\ \A i \in 1..n : hs[i] = heads[i] BY <2>4
  <2> HIDE DEF hs
  <2>6. ASSUME NEW i \in 1..n + 1 PROVE (i = n + 1 /\ hs[i] = d) \/ (i \in 1..n /\ hs[i] = heads[i]) BY <2>4, <2>5
  <2>7. Trail(s) \in Selectable /\ \A p \in ToCome(s) : p \in Selectable BY <2>3 DEF ToCome
  <2>8. HeadsFound(hs, ToCome(t))
    <3>1. \A i \in 1..Len(hs) : hs[i].path \in Selectable \ ToCome(t)
      <4> SUFFICES ASSUME NEW i \in 1..n + 1 PROVE hs[i].path \in Selectable \ ToCome(t) BY <2>5
      <4>1. CASE hs[i] = d BY <2>2, <2>3, <2>7, <4>1
      <4>2. CASE i \in 1..n /\ hs[i] = heads[i] BY <1>3, <2>3, <4>2 DEF HeadsFound
      <4> QED BY <2>6, <4>1, <4>2
    <3>2. \A p \in Selectable \ ToCome(t) : \E i \in 1..Len(hs) : hs[i].path = p
      <4> SUFFICES ASSUME NEW p \in Selectable, p \notin ToCome(t) PROVE \E i \in 1..n + 1 : hs[i].path = p BY <2>5
      <4>1. CASE p = Trail(s)
        <5>1. n + 1 \in 1..n + 1 BY <2>4
        <5> QED BY <2>2, <2>5, <4>1, <5>1
      <4>2. CASE p # Trail(s)
        <5>1. p \notin ToCome(s) BY <2>3, <4>2
        <5>2. PICK i \in 1..n : heads[i].path = p BY <1>3, <5>1 DEF HeadsFound
        <5>3. i \in 1..n + 1 BY <2>4
        <5> QED BY <2>5, <5>2, <5>3
      <4> QED BY <4>1, <4>2
    <3>3. \A i, j \in 1..Len(hs) : hs[i].path = hs[j].path => i = j
      <4> SUFFICES ASSUME NEW i \in 1..n + 1, NEW j \in 1..n + 1, hs[i].path = hs[j].path PROVE i = j BY <2>5
      <4>0. \A k \in 1..n : heads[k].path # Trail(s) BY <1>3, <2>3 DEF HeadsFound
      <4>1. CASE i \in 1..n /\ hs[i] = heads[i]
        <5>1. j \in 1..n /\ hs[j] = heads[j] BY <2>2, <2>6, <4>0, <4>1
        <5> QED BY <1>3, <4>1, <5>1 DEF HeadsFound
      <4>2. CASE i = n + 1 /\ hs[i] = d BY <2>2, <2>6, <4>0, <4>2
      <4> QED BY <2>6, <4>1, <4>2
    <3> QED BY <3>1, <3>2, <3>3 DEF HeadsFound
  <2>9. HeadsAre(hs, at)
    <3> SUFFICES ASSUME NEW i \in 1..n + 1
                 PROVE  IsHead(hs[i]) /\ Scored(hs[i], 1) /\ 1 <= Len(hs[i].path) + 1
      <4>1. \A i \in 1..Len(hs) : i \in Nat /\ ~(i < 1) BY <2>4, <2>5
      <4> QED BY <1>3, <2>5, <4>1 DEF HeadsAre
    <3>1. IsHead(hs[i]) /\ Scored(hs[i], 1)
      <4>1. CASE hs[i] = d BY <2>2, <4>1
      <4>2. CASE i \in 1..n /\ hs[i] = heads[i]
        <5>1. ~(i < 1) BY <2>4
        <5> QED BY <1>3, <4>2, <5>1 DEF HeadsAre
      <4> QED BY <2>6, <4>1, <4>2
    <3>2. 1 <= Len(hs[i].path) + 1
      <4>1. Len(hs[i].path) \in Nat BY <1>2, <3>1, HeadIs
      <4> QED BY <4>1
    <3> QED BY <3>1, <3>2
  <2>10. stack' = <<>> \/ OnStack(stack)' BY <1>1, <2>1, <2>3, TreeStays
  <2>11. HeadsFound(heads, ToCome(stack))'
    <3>1. ToCome(stack)' = ToCome(stack') BY <1>1, TreeStays
    <3>2. HeadsFound(heads, ToCome(stack))' = HeadsFound(heads', ToCome(stack')) BY <1>1, <3>1, TreeStays
    <3> QED BY <2>1, <2>8, <3>2
  <2>12. HeadsAre(heads, at)' BY <1>1, <2>1, <2>9, TreeStays
  <2>13. Len(heads') > 0 BY <2>1, <2>4, <2>5
  <2> QED BY <1>1, <1>3, <1>4, <2>10, <2>11, <2>12, <2>13 DEF DetectorInv, PhaseIs
<1>6. CASE c # <<>>
  <2> DEFINE t == Append(s, Element(c))
  <2>1. heads' = heads /\ stack' = t BY <1>1, <1>6 DEF Walk
  <2>2. OnStack(t) /\ ToCome(t) = ToCome(s) BY <1>2, <1>3, <1>6, ComePush
  <2>3. t # <<>> BY <2>2, StackIs, <1>2
  <2> HIDE DEF t
  <2>4. OnStack(stack)' BY <1>1, <2>1, <2>2, TreeStays
  <2>5. HeadsFound(heads, ToCome(stack))'
    <3>1. ToCome(stack)' = ToCome(stack') BY <1>1, TreeStays
    <3>2. HeadsFound(heads, ToCome(stack))' = HeadsFound(heads', ToCome(stack')) BY <1>1, <3>1, TreeStays
    <3> QED BY <1>3, <2>1, <2>2, <3>2
  <2>6. HeadsAre(heads, at)' BY <1>1, <1>3, <2>1, TreeStays
  <2> QED BY <1>1, <1>3, <1>4, <2>1, <2>3, <2>4, <2>5, <2>6 DEF DetectorInv, PhaseIs
<1> QED BY <1>5, <1>6

(* The walk has found all the branches.                                    *)
LEMMA EndOfWalkKeeps == DetectorInv /\ EndOfWalk => DetectorInv'
<1> SUFFICES ASSUME DetectorInv, EndOfWalk PROVE DetectorInv' OBVIOUS
<1> DEFINE ns == NormalizeHeadLength(heads)
<1>1. /\ tree' = tree /\ phase' = "evaluate" /\ at' = at /\ cache' = cache /\ stack' = <<>> /\ stack = <<>>
      /\ heads' = ns /\ phase = "walk"
  BY DEF EndOfWalk
<1>2. TreeIs /\ HeadsAre(heads, at) /\ HeadsFound(heads, ToCome(<<>>)) /\ Len(heads) > 0
  BY <1>1 DEF DetectorInv, PhaseIs
<1>3. TreeIs' /\ CacheIs(cache)' /\ at' \in (Nat \ {0}) \X (Nat \ {0})
  <2>1. TreeIs /\ CacheIs(cache) /\ at \in (Nat \ {0}) \X (Nat \ {0}) BY DEF DetectorInv
  <2> QED BY <1>1, <2>1, TreeStays
<1>4. HeadsAre(ns, at) /\ Len(ns) = Len(heads) /\ \A i \in 1..Len(heads) : ns[i].path = heads[i].path
  BY <1>2, NormalizedIs
<1> HIDE DEF ns
<1>5. ToCome(<<>>) = {} BY DEF ToCome
<1>6. HeadsFound(ns, {}) BY <1>2, <1>4, <1>5 DEF HeadsFound
<1>7. HeadsAre(heads, at)' BY <1>1, <1>4, TreeStays
<1>8. HeadsFound(heads, {})' BY <1>1, <1>6, TreeStays
<1> QED BY <1>1, <1>2, <1>3, <1>4, <1>7, <1>8 DEF DetectorInv, PhaseIs

(* One head has been evaluated further, the others are as they were.       *)
LEMMA EvaluatedIs ==
  ASSUME TreeIs, NEW hs, NEW b \in 1..Len(hs), NEW i \in Nat \ {0}, HeadsAre(hs, <<b, i>>), i <= Len(hs[b].path),
         NEW e, IsHead(e), e.path = hs[b].path, Scored(e, i + 1)
  PROVE  LET es == [hs EXCEPT ![b] = e]
         IN  /\ HeadsAre(es, <<b, i + 1>>) /\ Len(es) = Len(hs)
             /\ \A k \in 1..Len(hs) : es[k].path = hs[k].path
<1> DEFINE es == [hs EXCEPT ![b] = e]
           Reached(k, p, n) == IF k < b THEN Len(p) + 1 ELSE IF k = b THEN n ELSE 1
<1>1. hs \in Seq(BlockHeads) /\ Len(hs) \in Nat /\ e \in BlockHeads BY DEF HeadsAre, IsHead
<1>2. es \in Seq(BlockHeads) /\ Len(es) = Len(hs) /\ \A k \in 1..Len(hs) : es[k] = IF k = b THEN e ELSE hs[k] BY <1>1
<1> HIDE DEF es
<1>3. <<b, i>>[1] = b /\ <<b, i>>[2] = i /\ <<b, i + 1>>[1] = b /\ <<b, i + 1>>[2] = i + 1 OBVIOUS
<1>4. ASSUME NEW k \in 1..Len(hs)
      PROVE  /\ IsHead(es[k]) /\ Scored(es[k], Reached(k, es[k].path, i + 1))
             /\ k = b => i + 1 <= Len(es[k].path) + 1
  <2>1. CASE k = b
    <3>1. es[k] = e /\ Reached(k, es[k].path, i + 1) = i + 1 BY <1>1, <1>2, <2>1
    <3>2. Len(e.path) \in Nat BY HeadIs
    <3> HIDE DEF Reached
    <3> QED BY <3>1, <3>2
  <2>2. CASE k # b
    <3>1. es[k] = hs[k] BY <1>2, <2>2
    <3>2. Reached(k, es[k].path, i + 1) = Reached(k, hs[k].path, i) BY <2>2, <3>1
    <3>3. IsHead(hs[k]) /\ Scored(hs[k], Reached(k, hs[k].path, i)) BY <1>3 DEF HeadsAre
    <3> HIDE DEF Reached
    <3> QED BY <2>2, <3>1, <3>2, <3>3
  <2> QED BY <2>1, <2>2
<1>5. HeadsAre(es, <<b, i + 1>>) BY <1>2, <1>3, <1>4 DEF HeadsAre
<1>6. \A k \in 1..Len(hs) : es[k].path = hs[k].path BY <1>2
<1> QED BY <1>2, <1>5, <1>6 DEF es

(* Where the walk of the elements goes on to the next head.                *)
LEMMA NextHeadIs ==
  ASSUME TreeIs, NEW hs, NEW b \in 1..Len(hs), NEW i \in Nat \ {0}, HeadsAre(hs, <<b, i>>), ~(i <= Len(hs[b].path))
  PROVE  HeadsAre(hs, <<b + 1, 1>>)
<1>1. hs \in Seq(BlockHeads) /\ Len(hs) \in Nat BY DEF HeadsAre
<1>2. <<b, i>>[1] = b /\ <<b, i>>[2] = i /\ <<b + 1, 1>>[1] = b + 1 /\ <<b + 1, 1>>[2] = 1 OBVIOUS
<1>3. ASSUME NEW k \in 1..Len(hs)
      PROVE  /\ IsHead(hs[k])
             /\ Scored(hs[k], IF k < b + 1 THEN Len(hs[k].path) + 1 ELSE IF k = b + 1 THEN 1 ELSE 1)
             /\ k = b + 1 => 1 <= Len(hs[k].path) + 1
  <2>1. /\ IsHead(hs[k]) /\ Scored(hs[k], IF k < b THEN Len(hs[k].path) + 1 ELSE IF k = b THEN i ELSE 1)
        /\ k = b => i <= Len(hs[k].path) + 1
    BY <1>2 DEF HeadsAre
  <2>2. Len(hs[k].path) \in Nat BY <2>1, HeadIs
  <2>3. CASE k = b
    <3>1. i = Len(hs[k].path) + 1 BY <2>1, <2>2, <2>3
    <3>2. ~(k < b) /\ k < b + 1 BY <2>3
    <3>3. Scored(hs[k], i) BY <2>1, <2>3, <3>2
    <3> QED BY <2>1, <2>2, <3>1, <3>2, <3>3
  <2>4. CASE k # b
    <3>1. k < b + 1 <=> k < b BY <2>4
    <3> QED BY <2>1, <2>2, <2>4, <3>1
  <2> QED BY <2>3, <2>4
<1> QED BY <1>1, <1>2, <1>3 DEF HeadsAre

(* The scores of one element are added.                                    *)
LEMMA EvaluateKeeps == DetectorInv /\ EvaluateElement => DetectorInv'
<1> SUFFICES ASSUME DetectorInv, EvaluateElement PROVE DetectorInv' OBVIOUS
<1> DEFINE b == at[1]
           i == at[2]
           head == heads[b]
           h == head.path[i]
<1>1. tree' = tree /\ phase' = phase /\ stack' = stack /\ phase = "evaluate" /\ b <= Len(heads) BY DEF EvaluateElement
<1>2. TreeIs /\ HeadsAre(heads, at) /\ HeadsFound(heads, {}) /\ stack = <<>> /\ Len(heads) > 0 /\ CacheIs(cache)
  BY <1>1 DEF DetectorInv, PhaseIs
<1>3. at = <<b, i>> /\ b \in Nat \ {0} /\ i \in Nat \ {0} /\ b \in 1..Len(heads)
  <2>1. at \in (Nat \ {0}) \X (Nat \ {0}) BY DEF DetectorInv
  <2>2. at = <<b, i>> /\ b \in Nat \ {0} /\ i \in Nat \ {0} BY <2>1
  <2>3. Len(heads) \in Nat BY <1>2 DEF HeadsAre
  <2> HIDE DEF b, i
  <2> QED BY <1>1, <2>2, <2>3
<1>4. IsHead(head) /\ Scored(head, i)
  <2>1. ~(b < b) BY <1>3
  <2> HIDE DEF b, i
  <2>2. IsHead(heads[b]) /\ Scored(heads[b], IF b < at[1] THEN Len(heads[b].path) + 1 ELSE IF b = at[1] THEN at[2] ELSE 1)
    BY <1>2, <1>3 DEF HeadsAre
  <2>3. b = at[1] /\ i = at[2] BY DEF b, i
  <2> QED BY <2>1, <2>2, <2>3
<1> SUFFICES /\ heads' \in Seq(BlockHeads) /\ HeadsAre(heads', at') /\ HeadsFound(heads', {}) /\ Len(heads') > 0
             /\ CacheIs(cache') /\ at' \in (Nat \ {0}) \X (Nat \ {0})
  <2>1. TreeIs' BY <1>1, <1>2, TreeStays
  <2>2. HeadsAre(heads, at)' /\ HeadsFound(heads, {})' /\ CacheIs(cache)' BY <1>1, TreeStays
  <2> QED BY <1>1, <1>2, <2>1, <2>2 DEF DetectorInv, PhaseIs
<1>5. CASE i > Len(head.path)
  <2>1. at' = <<b + 1, 1>> /\ heads' = heads /\ cache' = cache BY <1>5 DEF EvaluateElement, AfterPadding
  <2>2. ~(i <= Len(head.path)) BY <1>2, <1>3, <1>4, <1>5, HeadIs
  <2>3. HeadsAre(heads, <<b + 1, 1>>)
    <3> HIDE DEF b, i
    <3> QED BY <1>2, <1>3, <2>2, NextHeadIs
  <2>4. b + 1 \in Nat \ {0} BY <1>3
  <2> HIDE DEF b, i
  <2> QED BY <1>2, <2>1, <2>3, <2>4 DEF HeadsAre
<1>6. CASE ~(i > Len(head.path))
  <2>1. Len(head.path) \in Nat BY <1>2, <1>4, HeadIs
  <2>2. i \in 1..Len(head.path) /\ i <= Len(head.path)
    <3> HIDE DEF i
    <3> QED BY <1>3, <1>6, <2>1
  <2>3. h \in Headers BY <1>2, <1>4, <2>2, HeadIs
  <2>4. ASSUME NEW e, IsHead(e), e.path = head.path, Scored(e, i + 1), heads' = [heads EXCEPT ![b] = e],
               at' = <<b, i + 1>>
        PROVE  /\ heads' \in Seq(BlockHeads) /\ HeadsAre(heads', at') /\ HeadsFound(heads', {}) /\ Len(heads') > 0
               /\ at' \in (Nat \ {0}) \X (Nat \ {0})
    <3> HIDE DEF b, i
    <3>1. HeadsAre(heads', at') /\ Len(heads') = Len(heads) /\ \A k \in 1..Len(heads) : heads'[k].path = heads[k].path
      <4> DEFINE es == [heads EXCEPT ![b] = e]
      <4>1. HeadsAre(heads, <<b, i>>) BY <1>2, <1>3
      <4>2. HeadsAre(es, <<b, i + 1>>) /\ Len(es) = Len(heads) /\ \A k \in 1..Len(heads) : es[k].path = heads[k].path
      <5>1. i <= Len(heads[b].path) /\ e.path = heads[b].path /\ IsHead(e) /\ Scored(e, i + 1) BY <2>2, <2>4
      <5>2. TreeIs /\ b \in 1..Len(heads) /\ i \in Nat \ {0} BY <1>2, <1>3
      <5> HIDE DEF head, h
      <5> QED BY <4>1, <5>1, <5>2, EvaluatedIs
      <4>3. heads' = es BY <2>4
      <4> HIDE DEF es
      <4> QED BY <2>4, <4>2, <4>3
    <3>2. HeadsFound(heads', {}) BY <1>2, <3>1 DEF HeadsFound
    <3>3. i + 1 \in Nat \ {0} BY <1>3
    <3> QED BY <1>2, <1>3, <2>4, <3>1, <3>2, <3>3 DEF HeadsAre
  <2>5. at' = <<b, i + 1>> BY <1>6 DEF EvaluateElement
  <2>6. CASE cache[h] # NotCached
    <3> DEFINE e == WithScores(head, i, cache[h])
    <3>1. heads' = [heads EXCEPT ![b] = e] /\ cache' = cache BY <1>6, <2>6 DEF EvaluateElement
    <3>2. cache[h] = [voted |-> 0, voting |-> Own(h)] BY <1>2, <2>3, <2>6 DEF CacheIs
    <3>3. IsHead(e) /\ e.path = head.path /\ Scored(e, i + 1)
      <4> DEFINE sc == cache[h]
      <4> HIDE DEF i, head, sc
      <4> QED BY <1>2, <1>4, <2>2, <3>2, CachedIs DEF sc, h
    <3> HIDE DEF e, i, b, h, head
    <3> QED BY <1>2, <2>4, <2>5, <3>1, <3>3
  <2>7. CASE cache[h] = NotCached
    <3> DEFINE e == HandleVotes(head, i)
               sc == [voted |-> 0, voting |-> Own(h)]
    <3>1. heads' = [heads EXCEPT ![b] = e] /\ cache' = [cache EXCEPT ![h] = Scores(e, i)]
      BY <1>6, <2>7 DEF EvaluateElement, Evaluated
    <3>2. IsHead(e) /\ e.path = head.path /\ Scored(e, i + 1) /\ e.voted[i] = 0 /\ e.voting[i] = Own(h)
      <4> HIDE DEF i, head
      <4> QED BY <1>2, <1>4, <2>2, HandledIs DEF h
    <3>3. Scores(e, i) = sc BY <3>2 DEF Scores
    <3>4. CacheIs(cache')
      <4>1. Own(h) \in Nat BY <1>2, <2>3, VotesAre DEF Own
      <4>2. sc \in [voted : {0}, voting : Nat] BY <4>1
      <4>3. cache' = [cache EXCEPT ![h] = sc] BY <3>1, <3>3
      <4> HIDE DEF e, h, sc
      <4>4. cache' \in [Headers -> {NotCached} \cup [voted : {0}, voting : Nat]] BY <1>2, <2>3, <4>2, <4>3 DEF CacheIs
      <4>5. \A x \in Headers : cache'[x] = IF x = h THEN sc ELSE cache[x] BY <1>2, <2>3, <4>3 DEF CacheIs
      <4>6. \A x \in Headers : cache'[x] # NotCached => cache'[x] = [voted |-> 0, voting |-> Own(x)]
        BY <1>2, <4>5 DEF CacheIs, sc
      <4> QED BY <4>4, <4>6 DEF CacheIs
    <3> HIDE DEF e, i, b, h, head
    <3> QED BY <2>4, <2>5, <3>1, <3>2, <3>4
  <2> QED BY <2>6, <2>7
<1> QED BY <1>5, <1>6

-----------------------------------------------------------------------------
(* The order of the heads of a tree without votes.                         *)
LastOf(d) == d.path[Len(d.path)]
Full(d) == IsHead(d) /\ Scored(d, Len(d.path) + 1)

(* There, nobody has a score.                                              *)
LEMMA SilentIs ==
  ASSUME TreeIs, NoVotes, NEW d, Full(d)
  PROVE  \A k : Score(d.voted, k) = 0 /\ Score(d.voting, k) = 0
<1>1. DiffBlocks \in Nat \ {0} BY DetectorAssumption
<1>2. ASSUME NEW h \in Headers, NEW b PROVE VotesFor(h, b) = 0
  <2> DEFINE below == {n \in DOMAIN votes[h] : Before(h, n) = b}
  <2>1. DOMAIN votes[h] = 1..DiffBlocks BY DEF TreeIs
  <2>2. CASE below = {} BY <2>2 DEF VotesFor
  <2>3. CASE below # {}
    <3>1. below \subseteq 1..DiffBlocks BY <2>1
    <3>2. Min(below) \in below
      <4> HIDE DEF below
      <4> QED BY <1>1, <2>3, <3>1, FirstPlace
    <3>3. VotesFor(h, b) = votes[h][Min(below)] BY <2>3 DEF VotesFor
    <3>4. Min(below) \in 1..DiffBlocks
      <4> HIDE DEF below
      <4> QED BY <3>1, <3>2
    <3> HIDE DEF below
    <3> QED BY <3>3, <3>4 DEF NoVotes
  <2> QED BY <2>2, <2>3
<1>3. /\ Len(d.path) \in Nat /\ DOMAIN d.voted = 1..Len(d.path) /\ DOMAIN d.voting = 1..Len(d.path)
      /\ \A k \in 1..Len(d.path) : d.path[k] \in Headers /\ d.voted[k] \in Nat
  BY HeadIs DEF Full
<1>4. ASSUME NEW k \in 1..Len(d.path) PROVE d.voted[k] = 0 /\ d.voting[k] = 0
  <2>1. d.voting[k] = (IF k < Len(d.path) + 1 THEN Own(d.path[k]) ELSE 0) /\ d.voted[k] <= Cast(d, k) BY DEF Full, Scored
  <2>2. Own(d.path[k]) = 0 BY <1>2, <1>3 DEF Own
  <2>3. Cast(d, k) = 0
    <3>1. CASE k + DiffBlocks \in 1..Len(d.path)
      <4>1. d.path[k + DiffBlocks] \in Headers BY <1>3, <3>1
      <4> QED BY <1>2, <3>1, <4>1 DEF Cast
    <3>2. CASE k + DiffBlocks \notin 1..Len(d.path) BY <3>2 DEF Cast
    <3> QED BY <3>1, <3>2
  <2>4. d.voted[k] \in Nat BY <1>3
  <2> QED BY <2>1, <2>2, <2>3, <2>4
<1> QED BY <1>3, <1>4 DEF Score

(* So heads are compared by the height and the time of their last blocks.  *)
LEMMA CompareIs ==
  ASSUME TreeIs, NoVotes, NEW a, Full(a), NEW b, Full(b)
  PROVE  /\ LastOf(a) \in Headers /\ Height(LastOf(a)) \in Nat /\ LastOf(a) \in Nat
         /\ CompareTo(a, b) = IF Height(LastOf(a)) # Height(LastOf(b)) THEN Height(LastOf(a)) - Height(LastOf(b))
                              ELSE LastOf(a) - LastOf(b)
<1> DEFINE x == Height(LastOf(a)) - Height(LastOf(b))
           y == LastOf(a) - LastOf(b)
           d == <<ByVoted(a, b), ByVoting(a, b), ByLastHeight(a, b), ByLastTimestamp(a, b)>>
           differs == {k \in DOMAIN d : d[k] # 0}
<1>1. ASSUME NEW e, Full(e) PROVE LastOf(e) \in Headers /\ Height(LastOf(e)) \in Nat /\ LastOf(e) \in Nat
  <2>1. Len(e.path) \in Nat \ {0} /\ \A k \in 1..Len(e.path) : e.path[k] \in Headers BY <1>1, HeadIs DEF Full
  <2>2. LastOf(e) \in Headers BY <2>1 DEF LastOf
  <2>3. Grows BY DEF TreeIs
  <2> QED BY <2>2, <2>3, HeightIs, HeadersAre
<1>2. ByVoted(a, b) = 0 /\ ByVoting(a, b) = 0
  <2>1. \A k : Score(a.voted, k) = 0 /\ Score(a.voting, k) = 0 /\ Score(b.voting, k) = 0 BY SilentIs
  <2> QED BY <2>1 DEF ByVoted, ByVoting, FirstDifference
<1>3. ByLastHeight(a, b) = x /\ ByLastTimestamp(a, b) = y
  BY DEF ByLastHeight, ByLastTimestamp, HeadHeader, Last, LastOf
<1>4. Height(LastOf(a)) \in Nat /\ Height(LastOf(b)) \in Nat /\ LastOf(a) \in Nat /\ LastOf(b) \in Nat BY <1>1
<1>5. x \in Int /\ y \in Int /\ (x = 0 <=> Height(LastOf(a)) = Height(LastOf(b))) BY <1>4
<1> HIDE DEF x, y
<1>6. DOMAIN d = 1..4 /\ d[1] = 0 /\ d[2] = 0 /\ d[3] = x /\ d[4] = y BY <1>2, <1>3
<1>7. CompareTo(a, b) = IF differs = {} THEN 0 ELSE d[Min(differs)] BY DEF CompareTo
<1> HIDE DEF d
<1>8. differs = {k \in 3..4 : d[k] # 0} /\ differs \subseteq 1..4
  <2>1. \A k \in 1..4 : k = 1 \/ k = 2 \/ k \in 3..4 OBVIOUS
  <2>2. \A k \in 3..4 : k \in 1..4 OBVIOUS
  <2> QED BY <1>6, <2>1, <2>2
<1>9. CASE x # 0
  <2>1. 3 \in differs BY <1>6, <1>8, <1>9
  <2>2. Min(differs) \in differs /\ Min(differs) <= 3
    <3> HIDE DEF differs
    <3> QED BY <1>8, <2>1, FirstPlace
  <2>3. Min(differs) \in 3..4 BY <1>8, <2>2
  <2>4. Min(differs) = 3
    <3> HIDE DEF differs
    <3> QED BY <2>2, <2>3
  <2>5. differs # {} BY <2>1
  <2>6. CompareTo(a, b) = x BY <1>6, <1>7, <2>4, <2>5
  <2> QED BY <1>1, <1>5, <1>9, <2>6 DEF x
<1>10. CASE x = 0 /\ y # 0
  <2>1. differs = {4}
    <3>1. \A k \in 3..4 : k = 3 \/ k = 4 OBVIOUS
    <3> QED BY <1>6, <1>8, <1>10, <3>1
  <2>2. Min(differs) = 4
    <3> HIDE DEF differs
    <3> QED BY <1>8, <2>1, FirstPlace
  <2>3. CompareTo(a, b) = y BY <1>6, <1>7, <2>1, <2>2
  <2> QED BY <1>1, <1>5, <1>10, <2>3 DEF y
<1>11. CASE x = 0 /\ y = 0
  <2>1. differs = {}
    <3>1. \A k \in 3..4 : k = 3 \/ k = 4 OBVIOUS
    <3> QED BY <1>6, <1>8, <1>11, <3>1
  <2>2. CompareTo(a, b) = 0 BY <1>7, <2>1
  <2> QED BY <1>1, <1>5, <1>11, <2>2 DEF y
<1> QED BY <1>9, <1>10, <1>11

(* A branch is known by its last block.                                    *)
LEMMA LastIs ==
  ASSUME TreeIs, NEW p \in Selectable
  PROVE  /\ Len(p) \in Nat \ {0} /\ p[Len(p)] \in Headers /\ Height(p[Len(p)]) = start + Len(p) - 1
         /\ p = PathTo(p[Len(p)])
<1>1. Grows /\ start \in 1..2 BY DEF TreeIs
<1>2. Chain(p) /\ \E i \in 1..Len(StartBlocks) : StartBlocks[i] = p[1] BY <1>1, SelectableIs DEF Grown
<1>3. Height(p[1]) = start BY <1>1, <1>2, StartsAre
<1>4. Len(p) \in Nat \ {0} BY <1>1, <1>2, ChainHeights
<1> QED BY <1>1, <1>2, <1>3, <1>4, PathOnly

(* That order is total on the heads of different branches.                 *)
LEMMA HeadsComparable ==
  ASSUME TreeIs, NoVotes, NEW hs \in Seq(BlockHeads), Len(hs) > 0, \A i \in 1..Len(hs) : Full(hs[i]), HeadsFound(hs, {})
  PROVE  /\ Comparable(hs)
         /\ \A i, j \in 1..Len(hs) : ~Below(hs, i, j) <=>
              \/ Height(LastOf(hs[j])) < Height(LastOf(hs[i]))
              \/ Height(LastOf(hs[j])) = Height(LastOf(hs[i])) /\ LastOf(hs[j]) <= LastOf(hs[i])
<1> DEFINE H(i) == Height(LastOf(hs[i]))
           L(i) == LastOf(hs[i])
<1>1. Len(hs) \in Nat \ {0} /\ hs # <<>> /\ DOMAIN hs = Places(hs) /\ Places(hs) = 1..Len(hs) BY DEF Places
<1>2. ASSUME NEW i \in 1..Len(hs), NEW j \in 1..Len(hs)
      PROVE  H(i) \in Nat /\ L(i) \in Nat /\ CompareTo(hs[i], hs[j]) = IF H(i) # H(j) THEN H(i) - H(j) ELSE L(i) - L(j)
  <2>1. Full(hs[i]) /\ Full(hs[j]) OBVIOUS
  <2> QED BY <2>1, CompareIs
<1>3. ASSUME NEW i \in 1..Len(hs), NEW j \in 1..Len(hs)
      PROVE  Below(hs, i, j) <=> (H(i) < H(j) \/ (H(i) = H(j) /\ L(i) < L(j)))
  <2>1. H(i) \in Nat /\ H(j) \in Nat /\ L(i) \in Nat /\ L(j) \in Nat BY <1>2
  <2>2. CompareTo(hs[i], hs[j]) = IF H(i) # H(j) THEN H(i) - H(j) ELSE L(i) - L(j) BY <1>2
  <2> HIDE DEF H, L
  <2> QED BY <2>1, <2>2 DEF Below
<1>4. ASSUME NEW i \in 1..Len(hs), NEW j \in 1..Len(hs), L(i) = L(j) PROVE i = j
  <2>1. hs[i].path \in Selectable /\ hs[j].path \in Selectable BY DEF HeadsFound
  <2>2. hs[i].path = PathTo(L(i)) /\ hs[j].path = PathTo(L(j)) BY <2>1, LastIs DEF LastOf
  <2> QED BY <1>4, <2>2 DEF HeadsFound
<1>5. \A i \in 1..Len(hs) : H(i) \in Nat /\ L(i) \in Nat BY <1>2
<1> HIDE DEF H, L
<1>6. \A i \in Places(hs) : ~Below(hs, i, i) BY <1>1, <1>3, <1>5
<1>7. ASSUME NEW i \in Places(hs), NEW j \in Places(hs), i # j PROVE Below(hs, i, j) <=> ~Below(hs, j, i)
  <2>1. L(i) # L(j) BY <1>1, <1>4, <1>7
  <2>2. H(i) \in Nat /\ H(j) \in Nat /\ L(i) \in Nat /\ L(j) \in Nat BY <1>1, <1>5
  <2> QED BY <1>1, <1>3, <2>1, <2>2
<1>8. ASSUME NEW i \in Places(hs), NEW j \in Places(hs), NEW k \in Places(hs), Below(hs, i, j), Below(hs, j, k)
      PROVE  Below(hs, i, k)
  <2>1. H(i) \in Nat /\ H(j) \in Nat /\ L(i) \in Nat /\ L(j) \in Nat /\ H(k) \in Nat /\ L(k) \in Nat BY <1>1, <1>5
  <2>2. H(i) < H(j) \/ (H(i) = H(j) /\ L(i) < L(j)) BY <1>1, <1>3, <1>8
  <2>3. H(j) < H(k) \/ (H(j) = H(k) /\ L(j) < L(k)) BY <1>1, <1>3, <1>8
  <2>4. H(i) < H(k) \/ (H(i) = H(k) /\ L(i) < L(k)) BY <2>1, <2>2, <2>3
  <2> QED BY <1>1, <1>3, <2>4
<1>9. Comparable(hs) BY <1>1, <1>6, <1>7, <1>8 DEF Comparable
<1>10. ASSUME NEW i \in 1..Len(hs), NEW j \in 1..Len(hs)
       PROVE  ~Below(hs, i, j) <=> (H(j) < H(i) \/ (H(j) = H(i) /\ L(j) <= L(i)))
  <2>1. H(i) \in Nat /\ H(j) \in Nat /\ L(i) \in Nat /\ L(j) \in Nat BY <1>5
  <2> QED BY <1>3, <2>1
<1> QED BY <1>9, <1>10 DEF H, L

(* Without votes the chain that sort() puts last is the highest.           *)
LEMMA LongestIsLast ==
  ASSUME TreeIs, NoVotes, NEW hs \in Seq(BlockHeads), Len(hs) > 0, \A i \in 1..Len(hs) : Full(hs[i]), HeadsFound(hs, {}),
         NEW first, NEW next,
         first = CopyOriginal(HeadsList!Sorted(hs)[Len(hs)]),
         next = IF Len(hs) > 1 THEN CopyOriginal(HeadsList!Sorted(hs)[Len(hs) - 1]) ELSE NoHead
  PROVE  /\ first.path \in Selectable
         /\ \A p \in Selectable : \/ Len(p) < Len(first.path)
                                  \/ Len(p) = Len(first.path) /\ Last(p) <= Last(first.path)
         /\ Cardinality(Selectable) > 1 => next.path \in Selectable \ {first.path}
<1> DEFINE n == Len(hs)
<1>1. n \in Nat \ {0} /\ Places(hs) = 1..n BY DEF Places
<1>2. /\ Comparable(hs)
      /\ \A i, j \in 1..n : ~Below(hs, i, j) <=>
              \/ Height(LastOf(hs[j])) < Height(LastOf(hs[i]))
              \/ Height(LastOf(hs[j])) = Height(LastOf(hs[i])) /\ LastOf(hs[j]) <= LastOf(hs[i])
  BY HeadsComparable
<1>3. PICK o \in Perms(hs) :
           /\ HeadsList!Sorted(hs) = [k \in Places(hs) |-> hs[o[k]]]
           /\ \A p, q \in Places(hs) : q <= p => ~Below(hs, o[p], o[q])
           /\ \A j \in Places(hs) : \E k \in Places(hs) : o[k] = j
  BY <1>2, SortedIs
<1>4. o \in [1..n -> 1..n] /\ \A i, j \in 1..n : o[i] = o[j] => i = j BY <1>1 DEF Perms
<1>5. ASSUME NEW k \in 1..n PROVE CopyOriginal(HeadsList!Sorted(hs)[k]).path = hs[o[k]].path
  <2>1. HeadsList!Sorted(hs)[k] = hs[o[k]] BY <1>1, <1>3
  <2>2. o[k] \in 1..n BY <1>4
  <2>3. hs[o[k]] \in BlockHeads BY <2>2
  <2>4. CopyOriginal(hs[o[k]]).path = hs[o[k]].path BY <2>3 DEF BlockHeads, CopyOriginal
  <2> QED BY <2>1, <2>4
<1>6. n \in 1..n /\ o[n] \in 1..n BY <1>1, <1>4
<1>7. first.path = hs[o[n]].path BY <1>5, <1>6
<1>8. first.path \in Selectable BY <1>6, <1>7 DEF HeadsFound
<1>9. ASSUME NEW p \in Selectable
      PROVE  \/ Len(p) < Len(first.path)
             \/ Len(p) = Len(first.path) /\ Last(p) <= Last(first.path)
  <2> DEFINE q == first.path
  <2>1. PICK j \in 1..n : hs[j].path = p BY DEF HeadsFound
  <2>2. PICK k \in 1..n : o[k] = j BY <1>1, <1>3
  <2>3. ~Below(hs, o[n], j)
    <3>1. k <= n /\ k \in Places(hs) /\ n \in Places(hs) BY <1>1, <1>6
    <3> QED BY <1>3, <2>2, <3>1
  <2>4. LastOf(hs[j]) = p[Len(p)] /\ LastOf(hs[o[n]]) = q[Len(q)] BY <1>7, <2>1 DEF LastOf
  <2>5. \/ Height(p[Len(p)]) < Height(q[Len(q)])
        \/ Height(p[Len(p)]) = Height(q[Len(q)]) /\ p[Len(p)] <= q[Len(q)]
    BY <1>2, <1>6, <2>3, <2>4
  <2>6. /\ Len(p) \in Nat \ {0} /\ Height(p[Len(p)]) = start + Len(p) - 1
        /\ Len(q) \in Nat \ {0} /\ Height(q[Len(q)]) = start + Len(q) - 1 BY <1>8, LastIs
  <2>7. start \in 1..2 BY DEF TreeIs
  <2>8. Last(p) = p[Len(p)] /\ Last(q) = q[Len(q)] BY DEF Last
  <2> HIDE DEF q
  <2>9. Len(p) < Len(q) \/ (Len(p) = Len(q) /\ Last(p) <= Last(q)) BY <2>5, <2>6, <2>7, <2>8
  <2> QED BY <2>9 DEF q
<1>10. ASSUME Cardinality(Selectable) > 1 PROVE next.path \in Selectable \ {first.path}
  <2>1. CASE n > 1
    <3>1. n - 1 \in 1..n /\ n - 1 # n BY <1>1, <2>1
    <3>2. next.path = hs[o[n - 1]].path BY <1>5, <2>1, <3>1
    <3>3. o[n - 1] \in 1..n /\ o[n - 1] # o[n] BY <1>4, <1>6, <3>1
    <3>4. hs[o[n - 1]].path \in Selectable /\ hs[o[n - 1]].path # hs[o[n]].path BY <1>6, <3>3 DEF HeadsFound
    <3> QED BY <1>7, <3>2, <3>4
  <2>2. CASE ~(n > 1)
    <3>1. n = 1
      <4> HIDE DEF n
      <4> QED BY <1>1, <2>2
    <3>2. \A p \in Selectable : p = first.path
      <4> SUFFICES ASSUME NEW p \in Selectable PROVE p = first.path OBVIOUS
      <4>1. PICK j \in 1..n : hs[j].path = p BY DEF HeadsFound
      <4>2. j = o[n] BY <1>6, <3>1
      <4> QED BY <1>7, <4>1, <4>2
    <3>3. Selectable = {first.path} BY <1>8, <3>2
    <3>4. Cardinality(Selectable) = 1 BY <3>3, FS_Singleton
    <3> QED BY <1>10, <3>4
  <2> QED BY <2>1, <2>2
<1> QED BY <1>8, <1>9, <1>10

(* The selection ends the detection.                                       *)
LEMMA SelectKeeps == DetectorInv /\ SelectChain => DetectorInv' /\ LongestWins'
<1> SUFFICES ASSUME DetectorInv, SelectChain PROVE DetectorInv' /\ LongestWins' OBVIOUS
<1>1. tree' = tree /\ at' = at /\ cache' = cache /\ stack' = stack /\ phase = "evaluate" /\ at[1] > Len(heads)
  BY DEF SelectChain
<1>2. /\ TreeIs /\ HeadsAre(heads, at) /\ HeadsFound(heads, {}) /\ stack = <<>> /\ Len(heads) > 0 /\ CacheIs(cache)
      /\ at \in (Nat \ {0}) \X (Nat \ {0})
  BY <1>1 DEF DetectorInv, PhaseIs
<1>3. TreeIs' /\ CacheIs(cache)' /\ at' \in (Nat \ {0}) \X (Nat \ {0}) BY <1>1, <1>2, TreeStays
<1>4. CASE HeadsList!SortThrows(heads)
  <2>1. phase' = "failed" /\ heads' = heads BY <1>4 DEF SelectChain
  <2>2. HeadsAre(heads, at)' BY <1>1, <1>2, <2>1, TreeStays
  <2> QED BY <1>1, <1>2, <1>3, <2>1, <2>2 DEF DetectorInv, PhaseIs, LongestWins
<1>5. CASE ~HeadsList!SortThrows(heads)
  <2>1. /\ phase' = "done" /\ heads' = <<>> /\ selected' = CopyOriginal(HeadsList!Sorted(heads)[Len(heads)])
        /\ second' = IF Len(heads) > 1 THEN CopyOriginal(HeadsList!Sorted(heads)[Len(heads) - 1]) ELSE NoHead
    BY <1>5 DEF SelectChain
  <2>2. HeadsAre(<<>>, at) BY DEF HeadsAre
  <2>3. HeadsAre(heads, at)' BY <1>1, <2>1, <2>2, TreeStays
  <2>4. DetectorInv' BY <1>1, <1>2, <1>3, <2>1, <2>3 DEF DetectorInv, PhaseIs
  <2>5. ASSUME NoVotes
        PROVE  /\ selected'.path \in Selectable
               /\ \A p \in Selectable : \/ Len(p) < Len(selected'.path)
                                        \/ Len(p) = Len(selected'.path) /\ Last(p) <= Last(selected'.path)
               /\ Cardinality(Selectable) > 1 => second'.path \in Selectable \ {selected'.path}
    <3>1. heads \in Seq(BlockHeads) /\ Len(heads) \in Nat BY <1>2 DEF HeadsAre
    <3>2. ASSUME NEW i \in 1..Len(heads) PROVE Full(heads[i])
      <4>1. i < at[1] BY <1>1, <1>2, <3>1
      <4> QED BY <1>2, <4>1 DEF HeadsAre, Full
    <3> QED BY <1>2, <2>1, <2>5, <3>1, <3>2, LongestIsLast
  <2>6. NoVotes' = NoVotes /\ Selectable' = Selectable BY <1>1, TreeStays
  <2>7. LongestWins' BY <2>5, <2>6 DEF LongestWins
  <2> QED BY <2>4, <2>7
<1> QED BY <1>4, <1>5

(* The invariant is kept by every step.                                    *)
LEMMA DetectorKeeps == DetectorInv /\ LongestWins /\ [Next]_vars => DetectorInv' /\ LongestWins'
<1> SUFFICES ASSUME DetectorInv, LongestWins, [Next]_vars PROVE DetectorInv' /\ LongestWins' OBVIOUS
<1>1. CASE BuildHeads
  <2>1. phase' # "done" BY <1>1 DEF BuildHeads
  <2> QED BY <1>1, <2>1, BuildHeadsKeeps DEF LongestWins
<1>2. CASE Walk
  <2>1. phase' # "done" BY <1>2 DEF Walk
  <2> QED BY <1>2, <2>1, WalkKeeps DEF LongestWins
<1>3. CASE EndOfWalk
  <2>1. phase' # "done" BY <1>3 DEF EndOfWalk
  <2> QED BY <1>3, <2>1, EndOfWalkKeeps DEF LongestWins
<1>4. CASE EvaluateElement
  <2>1. phase' # "done" BY <1>4 DEF EvaluateElement
  <2> QED BY <1>4, <2>1, EvaluateKeeps DEF LongestWins
<1>5. CASE SelectChain BY <1>5, SelectKeeps
<1>6. CASE UNCHANGED vars
  <2>1. /\ tree' = tree /\ phase' = phase /\ stack' = stack /\ heads' = heads /\ at' = at /\ cache' = cache
        /\ selected' = selected /\ second' = second
    BY <1>6 DEF vars
  <2>2. TreeIs' /\ (stack' = <<>> \/ OnStack(stack)') /\ HeadsAre(heads, at)' /\ CacheIs(cache)'
    BY <2>1, TreeStays DEF DetectorInv
  <2>3. PhaseIs'
    <3>1. ToCome(stack)' = ToCome(stack) BY <2>1, TreeStays
    <3>2. HeadsFound(heads, ToCome(stack))' = HeadsFound(heads, ToCome(stack))
          /\ HeadsFound(heads, {})' = HeadsFound(heads, {}) BY <2>1, <3>1, TreeStays
    <3> QED BY <2>1, <3>2 DEF DetectorInv, PhaseIs
  <2>4. DetectorInv' BY <2>1, <2>2, <2>3 DEF DetectorInv
  <2>5. NoVotes' = NoVotes /\ Selectable' = Selectable BY <2>1, TreeStays
  <2>6. LongestWins' BY <2>1, <2>5 DEF LongestWins
  <2> QED BY <2>4, <2>6
<1> QED BY <1>1, <1>2, <1>3, <1>4, <1>5, <1>6 DEF Next

(* It holds in every state.                                                *)
LEMMA DetectorStays == Spec => []DetectorInv /\ []LongestWins
<1>1. Init => DetectorInv /\ LongestWins
  <2>1. Init => phase # "done" BY DEF Init
  <2> QED BY <2>1, DetectorFirst DEF LongestWins
<1> QED BY <1>1, DetectorKeeps, PTL DEF Spec

(* The heads of a finished walk are the branches of the tree, of any tree: *)
(* BlockStack.gotoBranch() skips no sibling and repeats none.              *)
THEOREM BranchesAreFound == Spec => []HeadsAreTheBranches
<1>1. DetectorInv => HeadsAreTheBranches
  <2> SUFFICES ASSUME DetectorInv, phase = "evaluate"
               PROVE  /\ {heads[i].path : i \in DOMAIN heads} = Selectable
                      /\ Cardinality(Selectable) = Len(heads)
    BY DEF HeadsAreTheBranches
  <2>1. HeadsFound(heads, {}) /\ heads \in Seq(BlockHeads) BY DEF DetectorInv, PhaseIs, HeadsAre
  <2>2. DOMAIN heads = 1..Len(heads) /\ Len(heads) \in Nat BY <2>1
  <2> DEFINE f == [i \in 1..Len(heads) |-> heads[i].path]
  <2>3. {heads[i].path : i \in DOMAIN heads} = Selectable BY <2>1, <2>2 DEF HeadsFound
  <2>4. f \in [1..Len(heads) -> Selectable] /\ (\A i, j \in 1..Len(heads) : f[i] = f[j] => i = j)
        /\ \A p \in Selectable : \E i \in 1..Len(heads) : f[i] = p
    BY <2>1 DEF HeadsFound
  <2> HIDE DEF f
  <2>5. f \in Injection(1..Len(heads), Selectable) /\ f \in Surjection(1..Len(heads), Selectable)
    BY <2>4 DEF Injection, Surjection, IsInjective
  <2>6. \A n \in Nat : IsFiniteSet(1..n) /\ Cardinality(1..n) = n BY FS_Interval
  <2>7. Cardinality(Selectable) = Len(heads) BY <2>2, <2>5, <2>6, FS_Surjection
  <2> QED BY <2>3, <2>7
<1> QED BY <1>1, DetectorStays, PTL

(* The scores are the votes: a header's own votes for the block DiffBlocks *)
(* below it, whichever head it was evaluated in, and no vote twice.        *)
THEOREM ScoresAreTheVotes == Spec => []ScoresAreVotes
<1>1. DetectorInv => ScoresAreVotes
  <2> SUFFICES ASSUME DetectorInv PROVE ScoresAreVotes OBVIOUS
  <2>1. TreeIs /\ HeadsAre(heads, at) /\ heads \in Seq(BlockHeads) /\ Grows /\ start \in 1..2
    BY DEF DetectorInv, HeadsAre, TreeIs
  <2>2. DOMAIN heads = 1..Len(heads) /\ Len(heads) \in Nat BY <2>1
  <2>3. ASSUME NEW i \in DOMAIN heads
        PROVE  /\ IsHead(heads[i]) /\ DOMAIN heads[i].path = 1..Len(heads[i].path)
               /\ Scored(heads[i], IF i < at[1] THEN Len(heads[i].path) + 1 ELSE IF i = at[1] THEN at[2] ELSE 1)
    <3>1. IsHead(heads[i])
          /\ Scored(heads[i], IF i < at[1] THEN Len(heads[i].path) + 1 ELSE IF i = at[1] THEN at[2] ELSE 1)
      BY <2>1, <2>2 DEF HeadsAre
    <3>2. heads[i].path \in Seq(Headers) BY <2>1, <3>1, HeadIs
    <3> QED BY <3>1, <3>2
  <2>4. TypeOK
    <3>1. \A i \in DOMAIN stack : stack[i].pos \in DOMAIN stack[i].list
      <4>1. CASE stack = <<>> BY <4>1
      <4>2. CASE OnStack(stack)
        <5>1. DOMAIN stack = 1..Len(stack) BY <4>2 DEF OnStack
        <5> SUFFICES ASSUME NEW i \in 1..Len(stack) PROVE stack[i].pos \in DOMAIN stack[i].list BY <5>1
        <5>2. stack[i].list \in Seq(Headers) /\ stack[i].pos \in 1..Len(stack[i].list) BY <2>1, <4>2, StackIs
        <5> QED BY <5>2
      <4> QED BY <4>1, <4>2 DEF DetectorInv
    <3>2. ASSUME NEW i \in DOMAIN heads
          PROVE  /\ heads[i].path \in Seq(Headers) /\ heads[i].size \in Nat /\ heads[i].size >= Len(heads[i].path)
                 /\ heads[i].voted \in Seq(Nat) /\ heads[i].voting \in Seq(Nat)
                 /\ Len(heads[i].voted) = Len(heads[i].path) /\ Len(heads[i].voting) = Len(heads[i].path)
      <4>1. IsHead(heads[i]) BY <2>3
      <4>2. Len(heads[i].path) \in Nat BY <2>1, <4>1, HeadIs
      <4> QED BY <4>1, <4>2 DEF IsHead, BlockHeads
    <3>3. at \in Nat \X Nat /\ phase \in {"new", "walk", "evaluate", "done", "failed"} /\ start \in Nat
      BY <2>1 DEF DetectorInv
    <3> QED BY <3>1, <3>2, <3>3 DEF TypeOK
  <2>5. VotingScoreIsOwn
    <3> SUFFICES ASSUME NEW i \in DOMAIN heads, NEW k \in DOMAIN heads[i].path, i < at[1] \/ (i = at[1] /\ k < at[2])
                 PROVE  heads[i].voting[k] = Own(heads[i].path[k])
      BY DEF VotingScoreIsOwn, Own
    <3>1. k \in 1..Len(heads[i].path) BY <2>3
    <3>2. heads[i].voting[k] =
            IF k < (IF i < at[1] THEN Len(heads[i].path) + 1 ELSE IF i = at[1] THEN at[2] ELSE 1)
            THEN Own(heads[i].path[k]) ELSE 0
      BY <2>3, <3>1 DEF Scored
    <3>3. Len(heads[i].path) \in Nat BY <2>1, <2>3, HeadIs
    <3>4. CASE i < at[1] BY <3>1, <3>2, <3>3, <3>4
    <3>5. CASE ~(i < at[1]) BY <3>2, <3>5
    <3> QED BY <3>4, <3>5
  <2>6. NoVoteCountedTwice
    <3> SUFFICES ASSUME NEW i \in DOMAIN heads, NEW k \in DOMAIN heads[i].path
                 PROVE  heads[i].voted[k] <= Cast(heads[i], k)
      <4>1. \A i \in DOMAIN heads : DOMAIN heads[i].path = 1..Len(heads[i].path) BY <2>3
      <4> QED BY <4>1 DEF NoVoteCountedTwice, Cast
    <3>1. k \in 1..Len(heads[i].path) BY <2>3
    <3> QED BY <2>3, <3>1 DEF Scored
  <2> QED BY <2>4, <2>5, <2>6 DEF ScoresAreVotes
<1> QED BY <1>1, DetectorStays, PTL

(* Without votes the longest branch is selected, and of several longest    *)
(* ones the youngest: ArrayList.sort() puts it last.                       *)
THEOREM LongestIsSelected == Spec => []LongestWins
BY DetectorStays, PTL
=============================================================================
