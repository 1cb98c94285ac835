------------------------ MODULE NetworkWallet_proofs ------------------------
(***************************************************************************)
(* Proofs about NetworkWallet, for every tree of headers, every set of     *)
(* transactions, every way in which methods of other classes throw, and    *)
(* every order in which headers and transactions arrive.                   *)
(***************************************************************************)
EXTENDS NetworkWallet, DataLemmas, FiniteSetTheorems

-----------------------------------------------------------------------------
(* The inductive invariant.                                                *)

(* The header store: a header that was ever stored is listed until a       *)
(* finalization drops it; so is the header before it, or it has been       *)
(* missed since.                                                           *)
Stored(h) == Listed(h) \/ h \in dropped

HeadersKnown ==
  /\ scenario \in Scenarios /\ sections \subseteq Heights /\ dropped \subseteq Headers /\ missed \subseteq Headers
  /\ index \in [Heights -> Seq(Headers)]
  /\ \A n \in Heights : \A k \in DOMAIN index[n] : Height[index[n][k]] = n
  /\ \A h \in Headers : Stored(h) => Parent[h] = NoHeader \/ Stored(Parent[h]) \/ Parent[h] \in missed

(* A walk goes over headers that were stored, up to the first gap.         *)
WalkKnown ==
  /\ finalizedHeight \in Nat /\ head \in Headers \cup {NoHeader}
  /\ Walking => /\ walk \in [id : Headers, height : Heights, target : Headers]
                /\ Height[walk.id] = walk.height /\ (Stored(walk.id) \/ walk.id \in missed)

Parcels == /\ groups \in [Headers -> {NoGroup} \cup Seq(Trxs)]
           /\ last \in [method : {"build", "mempool", "other"}, ok : BOOLEAN]

PoolKept ==
  /\ stored \subseteq Trxs /\ failed \subseteq Trxs /\ order \in Seq(Trxs) /\ IsInjective(order)
  /\ PoolOrdered

(* An account: what its list and its map have in common, unless a method   *)
(* of the coin's transaction threw, and a history that knows every coin.   *)
Accounts == [history : Seq(Trxs), list : Seq(Owned), map : SUBSET Owned]
Sound(t) == broken[t] \in {"none", "address"}

Agrees(a) ==
  /\ a \in Accounts /\ IsInjective(a.history)
  /\ \A t \in a.map : t \in Range(a.list)
  /\ \A t \in Range(a.list) : Sound(t) => t \in a.map /\ t \in Range(a.history)
  /\ \A j, k \in DOMAIN a.list : a.list[j] = a.list[k] /\ Sound(a.list[j]) => j = k

(* A coin of its list that its history spends came after its spender.      *)
After(list, t, s) ==
  \E j, k \in DOMAIN list : list[j] = s /\ list[k] = t /\ j < k
LateOnly(a) ==
  \A t \in Range(a.list) : \A s \in Range(a.history) :
    t \in Range(Spends[s]) /\ broken[t] = "none" => After(a.history, t, s)

Account(a) == Agrees(a) /\ LateOnly(a)

AccountsKept == account \in [Layers -> Accounts] /\ \A l \in Layers : Account(account[l])

HeaderInv == HeadersKnown /\ WalkKnown
WalletInv == HeaderInv /\ Parcels /\ PoolKept /\ AccountsKept /\ Layered

-----------------------------------------------------------------------------
(* Lists without some of their elements.                                   *)
IsWithout(f, s, X) ==
  f = [i \in 0..Len(s) |-> IF i = 0 THEN <<>>
                           ELSE IF s[i] \in X THEN f[i - 1] ELSE Append(f[i - 1], s[i])]

LEMMA WithoutIsLast ==
  ASSUME NEW s, NEW X
  PROVE  Without(s, X) = (CHOOSE f : IsWithout(f, s, X))[Len(s)]
BY DEF Without, IsWithout

(* What a list has left.                                                   *)
LEMMA WithoutIs ==
  ASSUME NEW S, NEW s \in Seq(S), NEW X
  PROVE  /\ Without(s, X) \in Seq(S) /\ Range(Without(s, X)) = Range(s) \ X
         /\ IsInjective(s) => IsInjective(Without(s, X))
<1> DEFINE n == Len(s)
           part(i) == {s[k] : k \in 1..i} \ X
           good(i) == {r \in Seq(S) : Range(r) = part(i) /\ (IsInjective(s) => IsInjective(r))}
           J == [i \in 0..n |-> good(i)]
           G == [p \in Seq(S) \X (1..n) |-> IF s[p[2]] \in X THEN p[1] ELSE Append(p[1], s[p[2]])]
<1>1. n \in Nat /\ DOMAIN s = 1..n /\ \A k \in 1..n : s[k] \in S OBVIOUS
<1>2. <<>> \in J[0]
  <2>1. Range(<<>>) = {} /\ IsInjective(<<>>) /\ <<>> \in Seq(S) BY DEF Range, IsInjective
  <2>2. part(0) = {} OBVIOUS
  <2> QED BY <1>1, <2>1, <2>2
<1>3. ASSUME NEW i \in 1..n, NEW r \in J[i - 1]
      PROVE  (IF s[i] \in X THEN r ELSE Append(r, s[i])) \in J[i] /\ r \in Seq(S)
  <2>1. r \in Seq(S) /\ Range(r) = part(i - 1) /\ (IsInjective(s) => IsInjective(r))
    BY <1>1
  <2>2. {s[k] : k \in 1..i} = {s[k] : k \in 1..i - 1} \cup {s[i]}
    <3>1. 1..i = (1..i - 1) \cup {i} OBVIOUS
    <3> QED BY <3>1
  <2>3. CASE s[i] \in X
    <3>1. part(i) = part(i - 1) BY <2>2, <2>3
    <3> QED BY <1>1, <2>1, <2>3, <3>1
  <2>4. CASE s[i] \notin X
    <3> DEFINE q == Append(r, s[i])
               m == Len(r)
    <3>1. /\ q \in Seq(S) /\ m \in Nat /\ DOMAIN r = 1..m /\ DOMAIN q = 1..m + 1 /\ q[m + 1] = s[i]
          /\ \A k \in 1..m : q[k] = r[k]
      BY <1>1, <2>1
    <3> HIDE DEF q, m
    <3>2. part(i) = part(i - 1) \cup {s[i]} BY <2>2, <2>4
    <3>3. Range(q) = Range(r) \cup {s[i]}
      <4>1. 1..m + 1 = (1..m) \cup {m + 1} BY <3>1
      <4> QED BY <3>1, <4>1 DEF Range
    <3>4. ASSUME IsInjective(s) PROVE IsInjective(q)
      <4>1. s[i] \notin Range(r) BY <1>1, <2>1, <3>4 DEF IsInjective
      <4>2. \A k \in 1..m : r[k] # s[i] BY <3>1, <4>1 DEF Range
      <4>3. \A j, k \in 1..m : r[j] = r[k] => j = k BY <2>1, <3>1, <3>4 DEF IsInjective
      <4>4. ASSUME NEW j \in 1..m + 1, NEW k \in 1..m + 1, q[j] = q[k] PROVE j = k
        <5>1. (j \in 1..m \/ j = m + 1) /\ (k \in 1..m \/ k = m + 1) BY <3>1
        <5> QED BY <3>1, <4>2, <4>3, <4>4, <5>1
      <4> QED BY <3>1, <4>4 DEF IsInjective
    <3>5. q \in good(i) BY <2>1, <3>1, <3>2, <3>3, <3>4
    <3>6. q \in J[i] BY <1>1, <3>5
    <3> QED BY <2>1, <2>4, <3>6 DEF q
  <2> QED BY <2>3, <2>4
<1>4. \A i \in 1..n : \A r \in J[i - 1] : G[<<r, i>>] \in J[i] /\ G[<<r, i>>] = IF s[i] \in X THEN r ELSE Append(r, s[i])
  <2> SUFFICES ASSUME NEW i \in 1..n, NEW r \in J[i - 1]
               PROVE G[<<r, i>>] \in J[i] /\ G[<<r, i>>] = IF s[i] \in X THEN r ELSE Append(r, s[i])
    OBVIOUS
  <2> HIDE DEF J
  <2>1. <<r, i>> \in Seq(S) \X (1..n) BY <1>3
  <2>2. G[<<r, i>>] = IF s[i] \in X THEN r ELSE Append(r, s[i]) BY <2>1
  <2> QED BY <1>3, <2>2
<1> HIDE DEF J, G
<1>5. PICK f : IsTurns(f, n, <<>>, G) /\ \A i \in 0..n : f[i] \in J[i] BY <1>1, <1>2, <1>4, TurnsKeep
<1>6. \A i \in 0..n : f[i] = IF i = 0 THEN <<>> ELSE G[<<f[i - 1], i>>] BY <1>5 DEF IsTurns
<1>8. IsWithout(f, s, X)
  <2>1. ASSUME NEW i \in 0..n
        PROVE  f[i] = IF i = 0 THEN <<>> ELSE IF s[i] \in X THEN f[i - 1] ELSE Append(f[i - 1], s[i])
    <3>1. CASE i = 0 BY <1>6, <3>1
    <3>2. CASE i # 0
      <4>1. i \in 1..n /\ i - 1 \in 0..n BY <3>2
      <4> QED BY <1>4, <1>5, <1>6, <3>2, <4>1
    <3> QED BY <3>1, <3>2
  <2>2. f = [i \in 0..n |-> f[i]] BY <1>5 DEF IsTurns
  <2> QED BY <2>1, <2>2 DEF IsWithout
<1> DEFINE g == CHOOSE f0 : IsWithout(f0, s, X)
<1>9. IsWithout(g, s, X) BY <1>8
<1>10. Without(s, X) = g[n] BY WithoutIsLast
<1> HIDE DEF g
<1>11. \A i \in 0..n : g[i] = IF i = 0 THEN <<>> ELSE IF s[i] \in X THEN g[i - 1] ELSE Append(g[i - 1], s[i])
  BY <1>9 DEF IsWithout
<1>12. \A i \in 0..n : g[i] \in J[i]
  <2>1. g[0] \in J[0] BY <1>1, <1>2, <1>11
  <2>2. ASSUME NEW i \in 1..n, g[i - 1] \in J[i - 1] PROVE g[i] \in J[i]
    <3>1. i \in 0..n /\ i # 0 OBVIOUS
    <3>2. g[i] = IF s[i] \in X THEN g[i - 1] ELSE Append(g[i - 1], s[i]) BY <1>11, <3>1
    <3> QED BY <1>3, <2>2, <3>2
  <2> QED BY <1>1, <2>1, <2>2, TurnsStay
<1>13. g[n] \in good(n)
  <2>1. n \in 0..n BY <1>1
  <2> QED BY <1>12, <2>1 DEF J
<1>14. part(n) = Range(s) \ X BY <1>1 DEF Range
<1> QED BY <1>10, <1>13, <1>14

-----------------------------------------------------------------------------
(* The headers before a header.                                            *)
NoneFound(ok) == [ok |-> ok, header |-> NoHeader]

IsBack(f, n) ==
  f = [at \in (Headers \cup {NoHeader}) \X (0..n) |->
        IF at[1] = NoHeader THEN NoneFound(TRUE)
        ELSE IF ~CanRead(Height[at[1]]) THEN NoneFound(FALSE)
        ELSE IF ~Listed(at[1]) THEN NoneFound(TRUE)
        ELSE IF at[2] = 0 THEN [ok |-> TRUE, header |-> at[1]] ELSE f[<<Parent[at[1]], at[2] - 1>>]]

LEMMA BeforeIs ==
  ASSUME NEW h, NEW n
  PROVE  Before(h, n) = (CHOOSE f : IsBack(f, n))[<<h, n>>]
BY DEF Before, IsBack, NoneFound

LEMMA BackExists ==
  ASSUME NEW n \in Nat
  PROVE  \E f : IsBack(f, n)
<1> DEFINE H == Headers \cup {NoHeader}
           R == [ok : BOOLEAN, header : H]
           found(x) == IF x = NoHeader THEN NoneFound(TRUE)
                       ELSE IF ~CanRead(Height[x]) THEN NoneFound(FALSE)
                       ELSE IF ~Listed(x) THEN NoneFound(TRUE) ELSE [ok |-> TRUE, header |-> x]
           more(x) == x # NoHeader /\ CanRead(Height[x]) /\ Listed(x)
           G == [p \in [H -> R] \X (1..n) |-> [x \in H |-> IF more(x) THEN p[1][Parent[x]] ELSE found(x)]]
           first == [x \in H |-> found(x)]
<1>1. \A x \in H : found(x) \in R BY DEF NoneFound
<1>2. \A x \in H : more(x) => x \in Headers /\ Parent[x] \in H BY WalletAssumption
<1> HIDE DEF R
<1>3. first \in [H -> R] BY <1>1
<1>4. ASSUME NEW p \in [H -> R] \X (1..n)
      PROVE  [x \in H |-> IF more(x) THEN p[1][Parent[x]] ELSE found(x)] \in [H -> R]
  <2>1. p[1] \in [H -> R] OBVIOUS
  <2> QED BY <1>1, <1>2, <2>1
<1>5. G \in [[H -> R] \X (1..n) -> [H -> R]] BY <1>4
<1>6. PICK t \in [0..n -> [H -> R]] : IsTurns(t, n, first, G)
  <2> HIDE DEF G, first
  <2> QED BY <1>3, <1>5, TurnsExist
<1>7. ASSUME NEW i \in 0..n, NEW x \in H
      PROVE  t[i][x] = IF i # 0 /\ more(x) THEN t[i - 1][Parent[x]] ELSE found(x)
  <2>1. t[i] = IF i = 0 THEN first ELSE G[<<t[i - 1], i>>]
    <3> HIDE DEF G, first
    <3> QED BY <1>6 DEF IsTurns
  <2>2. CASE i = 0 BY <2>1, <2>2
  <2>3. CASE i # 0
    <3>1. i \in 1..n /\ i - 1 \in 0..n BY <2>3
    <3>2. <<t[i - 1], i>> \in [H -> R] \X (1..n) BY <1>6, <3>1
    <3>3. t[i] = [y \in H |-> IF more(y) THEN t[i - 1][Parent[y]] ELSE found(y)] BY <2>1, <2>3, <3>2
    <3> QED BY <2>3, <3>3
  <2> QED BY <2>2, <2>3
<1> DEFINE f == [at \in H \X (0..n) |-> t[at[2]][at[1]]]
<1>8. ASSUME NEW at \in H \X (0..n)
      PROVE  f[at] = IF at[1] = NoHeader THEN NoneFound(TRUE)
                     ELSE IF ~CanRead(Height[at[1]]) THEN NoneFound(FALSE)
                     ELSE IF ~Listed(at[1]) THEN NoneFound(TRUE)
                     ELSE IF at[2] = 0 THEN [ok |-> TRUE, header |-> at[1]] ELSE f[<<Parent[at[1]], at[2] - 1>>]
  <2>1. at[1] \in H /\ at[2] \in 0..n OBVIOUS
  <2>2. f[at] = IF at[2] # 0 /\ more(at[1]) THEN t[at[2] - 1][Parent[at[1]]] ELSE found(at[1]) BY <1>7, <2>1
  <2>3. CASE at[2] # 0 /\ more(at[1])
    <3>1. at[2] - 1 \in 0..n /\ Parent[at[1]] \in H BY <1>2, <2>1, <2>3
    <3>2. f[<<Parent[at[1]], at[2] - 1>>] = t[at[2] - 1][Parent[at[1]]] BY <3>1
    <3> QED BY <2>2, <2>3, <3>2
  <2>4. CASE ~(at[2] # 0 /\ more(at[1])) BY <2>2, <2>4
  <2> QED BY <2>3, <2>4
<1>9. IsBack(f, n) BY <1>8 DEF IsBack
<1> QED BY <1>9

(* What is found n headers before a header is listed, n blocks below it.   *)
LEMMA BeforeFinds ==
  ASSUME NEW h \in Headers, NEW n \in Nat, Before(h, n).header # NoHeader
  PROVE  Listed(Before(h, n).header) /\ Height[Before(h, n).header] = Height[h] - n
<1> DEFINE H == Headers \cup {NoHeader}
           f == CHOOSE g : IsBack(g, n)
           is(i, x) == LET e == f[<<x, i>>].header
                       IN e # NoHeader => x \in Headers /\ Listed(e) /\ Height[e] = Height[x] - i
           J == [i \in 0..n |-> {k \in {i} : \A x \in H : is(i, x)}]
           own == [i \in 0..n |-> i]
<1>1. IsBack(f, n) BY BackExists
<1>2. Before(h, n) = f[<<h, n>>] BY BeforeIs
<1> HIDE DEF f
<1>3. \A at \in H \X (0..n) :
         f[at] = IF at[1] = NoHeader THEN NoneFound(TRUE)
                 ELSE IF ~CanRead(Height[at[1]]) THEN NoneFound(FALSE)
                 ELSE IF ~Listed(at[1]) THEN NoneFound(TRUE)
                 ELSE IF at[2] = 0 THEN [ok |-> TRUE, header |-> at[1]] ELSE f[<<Parent[at[1]], at[2] - 1>>]
  BY <1>1 DEF IsBack
<1>4. ASSUME NEW i \in 0..n, NEW x \in H, f[<<x, i>>].header # NoHeader
      PROVE  /\ x \in Headers
             /\ i = 0 => Listed(x) /\ f[<<x, i>>].header = x
             /\ i # 0 => f[<<x, i>>] = f[<<Parent[x], i - 1>>]
  <2>1. <<x, i>> \in H \X (0..n) OBVIOUS
  <2>2. f[<<x, i>>] = IF x = NoHeader THEN NoneFound(TRUE)
                      ELSE IF ~CanRead(Height[x]) THEN NoneFound(FALSE)
                      ELSE IF ~Listed(x) THEN NoneFound(TRUE)
                      ELSE IF i = 0 THEN [ok |-> TRUE, header |-> x] ELSE f[<<Parent[x], i - 1>>]
    BY <1>3, <2>1
  <2> QED BY <1>4, <2>2 DEF NoneFound
<1>5. own[0] \in J[0]
  <2>1. 0 \in 0..n OBVIOUS
  <2>2. \A x \in H : is(0, x)
    <3>1. \A x \in Headers : Height[x] - 0 = Height[x] BY WalletAssumption
    <3> QED BY <1>4, <2>1, <3>1
  <2> QED BY <2>1, <2>2
<1>6. ASSUME NEW i \in 1..n, own[i - 1] \in J[i - 1] PROVE own[i] \in J[i]
  <2>1. i \in 0..n /\ i # 0 /\ i - 1 \in 0..n OBVIOUS
  <2>2. \A x \in H : is(i - 1, x) BY <1>6, <2>1
  <2>3. ASSUME NEW x \in H PROVE is(i, x)
    <3> SUFFICES ASSUME f[<<x, i>>].header # NoHeader
                 PROVE  x \in Headers /\ Listed(f[<<x, i>>].header) /\ Height[f[<<x, i>>].header] = Height[x] - i
      OBVIOUS
    <3>1. x \in Headers /\ f[<<x, i>>] = f[<<Parent[x], i - 1>>] BY <1>4, <2>1
    <3>2. Parent[x] \in H BY <3>1, WalletAssumption
    <3> DEFINE e == f[<<Parent[x], i - 1>>].header
    <3>3. Parent[x] \in Headers /\ Listed(e) /\ Height[e] = Height[Parent[x]] - (i - 1) BY <2>2, <3>1, <3>2
    <3>4. Height[x] = Height[Parent[x]] + 1 /\ Height[Parent[x]] \in Nat BY <3>1, <3>3, WalletAssumption
    <3>5. Height[x] - i = Height[Parent[x]] - (i - 1) BY <3>4
    <3> QED BY <3>1, <3>3, <3>5
  <2> QED BY <2>1, <2>3
<1>7. \A i \in 0..n : own[i] \in J[i]
  <2> HIDE DEF own, J
  <2> QED BY <1>5, <1>6, TurnsStay
<1>8. is(n, h)
  <2>1. n \in 0..n OBVIOUS
  <2> QED BY <1>7, <2>1
<1> QED BY <1>2, <1>8

-----------------------------------------------------------------------------
(* The headers and the walk over them.                                     *)
LEMMA HeaderInit == Init => HeaderInv
<1> SUFFICES ASSUME Init PROVE HeaderInv OBVIOUS
<1> USE DEF Init
<1>1. index = [n \in Heights |-> <<>>] /\ <<>> \in Seq(Headers) OBVIOUS
<1>2. \A h \in Headers : Height[h] \in Heights BY DEF Heights
<1>3. \A h \in Headers : ~Stored(h) BY <1>1, <1>2 DEF Stored, Listed, Range
<1>4. HeadersKnown BY <1>1, <1>3 DEF HeadersKnown
<1>5. WalkKnown BY DEF WalkKnown, Walking
<1> QED BY <1>4, <1>5 DEF HeaderInv

(* A header that arrives is listed, and nothing else changes.              *)
LEMMA HeaderArrives ==
  ASSUME HeaderInv, NEW h \in Headers, ~Walking,
         index' = IF Listed(h) THEN index ELSE WithHeader(h), dropped' = dropped \ {h},
         missed' = IF Listed(h) THEN missed ELSE MissedWith(h),
         UNCHANGED <<scenario, head, finalizedHeight, walk>>, sections' \subseteq Heights
  PROVE  /\ HeaderInv' /\ \A n \in Heights : Range(index[n]) \subseteq Range(index'[n])
<1> USE DEF HeaderInv, HeadersKnown
<1>1. Height[h] \in Heights BY DEF Heights
<1>2. /\ index' \in [Heights -> Seq(Headers)]
      /\ \A n \in Heights : Range(index'[n]) = IF n = Height[h] THEN Range(index[n]) \cup {h} ELSE Range(index[n])
      /\ \A n \in Heights : \A k \in DOMAIN index'[n] : Height[index'[n][k]] = n
  <2>1. CASE Listed(h) BY <2>1 DEF Listed
  <2>2. CASE ~Listed(h)
    <3> DEFINE s == index[Height[h]]
               q == Append(s, h)
    <3>1. s \in Seq(Headers) BY <1>1
    <3>2. /\ q \in Seq(Headers) /\ DOMAIN s = 1..Len(s) /\ DOMAIN q = 1..Len(s) + 1 /\ q[Len(s) + 1] = h
          /\ Len(s) \in Nat /\ \A k \in 1..Len(s) : q[k] = s[k]
      <4> HIDE DEF s
      <4> QED BY <3>1
    <3>3. index' = [index EXCEPT ![Height[h]] = q] BY <2>2 DEF WithHeader
    <3>4. \A k \in DOMAIN s : Height[s[k]] = Height[h] BY <1>1
    <3> HIDE DEF s, q
    <3>5. 1..Len(s) + 1 = (1..Len(s)) \cup {Len(s) + 1} BY <3>2
    <3>6. Range(q) = Range(s) \cup {h} BY <3>2, <3>5 DEF Range
    <3>7. \A k \in DOMAIN q : Height[q[k]] = Height[h]
      <4> SUFFICES ASSUME NEW k \in 1..Len(s) + 1 PROVE Height[q[k]] = Height[h] BY <3>2
      <4>1. k \in 1..Len(s) \/ k = Len(s) + 1 BY <3>5
      <4> QED BY <3>2, <3>4, <4>1
    <3>8. index'[Height[h]] = q /\ \A n \in Heights : n # Height[h] => index'[n] = index[n] BY <1>1, <3>3
    <3>9. index' \in [Heights -> Seq(Headers)] BY <1>1, <3>2, <3>3
    <3>10. \A n \in Heights : Range(index'[n]) = IF n = Height[h] THEN Range(index[n]) \cup {h} ELSE Range(index[n])
      BY <3>6, <3>8 DEF s
    <3>11. \A n \in Heights : \A k \in DOMAIN index'[n] : Height[index'[n][k]] = n BY <3>7, <3>8
    <3> QED BY <3>9, <3>10, <3>11
  <2> QED BY <2>1, <2>2
<1>3. \A x \in Headers : Stored(x)' <=> Stored(x) \/ x = h
  <2> SUFFICES ASSUME NEW x \in Headers PROVE Stored(x)' <=> Stored(x) \/ x = h OBVIOUS
  <2>1. Height[x] \in Heights BY DEF Heights
  <2>2. x \in Range(index'[Height[x]]) <=> x \in Range(index[Height[x]]) \/ x = h
    <3> DEFINE N == Height[x]
    <3>1. Range(index'[N]) = IF N = Height[h] THEN Range(index[N]) \cup {h} ELSE Range(index[N]) BY <1>2, <2>1
    <3>2. x = h => N = Height[h] OBVIOUS
    <3> QED BY <3>1, <3>2 DEF N
  <2> QED BY <2>2 DEF Stored, Listed
<1>4. /\ missed' \subseteq Headers
      /\ \A p \in missed : p = h \/ p \in missed'
      /\ Parent[h] = NoHeader \/ Stored(Parent[h]) \/ Parent[h] \in missed'
  <2>1. Parent[h] \in Headers \cup {NoHeader} BY WalletAssumption
  <2>2. CASE Listed(h) BY <2>2 DEF Stored
  <2>3. CASE ~Listed(h) BY <2>1, <2>3 DEF MissedWith, Stored
  <2> QED BY <2>2, <2>3
<1>5. \A x \in Headers : Stored(x)' => Parent[x] = NoHeader \/ Stored(Parent[x])' \/ Parent[x] \in missed'
  BY <1>3, <1>4, WalletAssumption
<1>6. HeadersKnown' BY <1>2, <1>4, <1>5
<1>7. WalkKnown' BY DEF WalkKnown, Walking
<1> QED BY <1>2, <1>6, <1>7

(* A finalization takes one header other than the finalized one, or none.  *)
LEMMA DroppedIs ==
  ASSUME HeaderInv, NEW h \in Headers
  PROVE  /\ Dropped(h) \subseteq Range(index[Height[h]]) \ {h}
         /\ Dropped(h) = {} \/ Cardinality(Dropped(h)) = 1
<1> DEFINE s == index[Height[h]]
           F == FirstSibling(h)
<1>1. Height[h] \in Heights BY DEF Heights
<1>2. s \in Seq(Headers) BY <1>1 DEF HeaderInv, HeadersKnown
<1>3. F \subseteq DOMAIN s /\ \A k \in F : s[k] # h BY DEF FirstSibling
<1>4. DOMAIN s \subseteq Nat BY <1>2
<1>5. CASE F = {} BY <1>5 DEF Dropped
<1>6. CASE F # {}
  <2>1. F \subseteq Nat BY <1>3, <1>4
  <2>2. PICK m \in F : \A k \in F : m <= k
    <3> HIDE DEF F
    <3> QED BY <1>6, <2>1, LeastNumber
  <2>3. Min(F) \in F
    <3> HIDE DEF F
    <3> QED BY <2>2 DEF Min
  <2>4. Dropped(h) = {s[Min(F)]} BY <1>6 DEF Dropped
  <2>5. s[Min(F)] \in Range(s) /\ s[Min(F)] # h BY <1>3, <2>3 DEF Range
  <2>6. Cardinality({s[Min(F)]}) = 1 BY FS_Singleton
  <2> QED BY <2>4, <2>5, <2>6
<1> QED BY <1>5, <1>6

LEMMA HeaderEndWalk ==
  ASSUME HeaderInv, EndWalk
  PROVE  /\ HeaderInv' /\ walk.target \in Headers
         /\ \A n \in Heights : Range(index'[n]) =
              IF n = Height[walk.target] THEN Range(index[n]) \ Dropped(walk.target) ELSE Range(index[n])
<1> USE DEF HeaderInv, HeadersKnown
<1> DEFINE h == walk.target
           N == Height[h]
           gone == Dropped(h)
           s == index[N]
           q == Without(s, gone)
<1>1. h \in Headers /\ N \in Heights /\ Walking BY DEF EndWalk, WalkKnown, Heights
<1>2. s \in Seq(Headers) /\ \A k \in DOMAIN s : Height[s[k]] = N BY <1>1
<1>3. gone \subseteq Range(s) BY <1>1, DroppedIs
<1>4. Range(s) \subseteq Headers BY <1>2 DEF Range
<1>5. q \in Seq(Headers) /\ Range(q) = Range(s) \ gone BY <1>2, WithoutIs
<1>6. index' = [index EXCEPT ![N] = q] /\ dropped' = dropped \cup gone /\ walk' = NotWalking
      /\ UNCHANGED <<scenario, sections, missed, head, finalizedHeight>>
  BY DEF EndWalk
<1> HIDE DEF s, q, gone, N, h
<1>7. index'[N] = q /\ \A n \in Heights : n # N => index'[n] = index[n] BY <1>1, <1>6
<1>8. index' \in [Heights -> Seq(Headers)] BY <1>1, <1>5, <1>6
<1>9. \A n \in Heights : Range(index'[n]) = IF n = N THEN Range(index[n]) \ gone ELSE Range(index[n])
  BY <1>5, <1>7 DEF s
<1>10. \A n \in Heights : \A k \in DOMAIN index'[n] : Height[index'[n][k]] = n
  <2>1. \A k \in DOMAIN q : Height[q[k]] = N
    <3>1. \A x \in Range(s) : Height[x] = N BY <1>2 DEF Range
    <3>2. \A k \in DOMAIN q : q[k] \in Range(q) BY DEF Range
    <3> QED BY <1>5, <3>1, <3>2
  <2> QED BY <1>7, <2>1
<1>11. \A x \in Headers : Stored(x) => Stored(x)'
  <2> SUFFICES ASSUME NEW x \in Headers, Stored(x) PROVE Stored(x)' OBVIOUS
  <2>1. Height[x] \in Heights BY DEF Heights
  <2>2. CASE x \in gone BY <1>6, <2>2 DEF Stored
  <2>3. CASE x \notin gone
    <3>1. Listed(x) => Listed(x)' BY <1>9, <2>1, <2>3 DEF Listed
    <3> QED BY <1>6, <3>1 DEF Stored
  <2> QED BY <2>2, <2>3
<1>12. ASSUME NEW x \in Headers, Stored(x)' PROVE Stored(x)
  <2>1. Height[x] \in Heights BY DEF Heights
  <2>2. CASE x \in gone
    <3>1. Height[x] = N /\ x \in Range(s) BY <1>2, <1>3, <2>2 DEF Range
    <3> QED BY <3>1 DEF Stored, Listed, s
  <2>3. CASE x \notin gone
    <3>1. Listed(x)' => Listed(x) BY <1>9, <2>1 DEF Listed
    <3>2. Listed(x)' \/ x \in dropped' BY <1>12 DEF Stored
    <3>3. x \in dropped' => x \in dropped BY <1>6, <2>3
    <3> QED BY <3>1, <3>2, <3>3 DEF Stored
  <2> QED BY <2>2, <2>3
<1>13. \A x \in Headers : Stored(x)' => Parent[x] = NoHeader \/ Stored(Parent[x])' \/ Parent[x] \in missed'
  <2> SUFFICES ASSUME NEW x \in Headers, Stored(x)', Parent[x] # NoHeader, Parent[x] \notin missed
               PROVE  Stored(Parent[x])'
    BY <1>6
  <2>1. Stored(Parent[x]) /\ Parent[x] \in Headers BY <1>12, WalletAssumption
  <2> QED BY <1>11, <2>1
<1>14. HeadersKnown'
  <2>1. dropped' \subseteq Headers BY <1>3, <1>4, <1>6
  <2> QED BY <1>6, <1>8, <1>10, <1>13, <2>1
<1>15. WalkKnown' BY <1>6 DEF WalkKnown, Walking
<1> QED BY <1>1, <1>9, <1>14, <1>15 DEF h, N, gone

(* A walk starts at the header that was found.                             *)
LEMMA HeaderStartFinalize ==
  ASSUME HeaderInv, NEW h \in Headers, StartFinalize(h),
         UNCHANGED <<scenario, headerStore, head, finalizedHeight>>
  PROVE  HeaderInv'
<1>1. HeadersKnown' BY DEF HeaderInv, HeadersKnown, headerStore, Stored, Listed
<1>2. \A x : Stored(x)' <=> Stored(x) BY DEF headerStore, Stored, Listed
<1>3. CASE UNCHANGED walk
  BY <1>1, <1>3 DEF HeaderInv, WalkKnown, Walking, headerStore, Stored, Listed
<1>4. CASE ~UNCHANGED walk
  <2> DEFINE b == Before(h, BeforeHeight).header
  <2>1. /\ b # NoHeader /\ Height[h] - BeforeHeight > finalizedHeight
        /\ walk' = [id |-> b, height |-> Height[h] - BeforeHeight, target |-> b]
    BY <1>4 DEF StartFinalize
  <2>2. Listed(b) /\ Height[b] = Height[h] - BeforeHeight BY <2>1, BeforeFinds, WalletAssumption
  <2>3. b \in Headers /\ Height[b] \in Heights /\ Stored(b) BY <2>2 DEF Listed, Heights, Stored
  <2> HIDE DEF b
  <2>4. Walking' => /\ walk' \in [id : Headers, height : Heights, target : Headers]
                    /\ Height[walk'.id] = walk'.height /\ (Stored(walk'.id) \/ walk'.id \in missed)
    BY <2>1, <2>2, <2>3
  <2>5. WalkKnown' BY <1>2, <2>4 DEF HeaderInv, WalkKnown, headerStore
  <2> QED BY <1>1, <2>5 DEF HeaderInv
<1> QED BY <1>1, <1>3, <1>4 DEF HeaderInv

(* Every step of the wallet keeps the headers.                             *)
LEMMA HeaderStep ==
  ASSUME HeaderInv, [Next]_vars
  PROVE  HeaderInv'
<1> USE DEF headerStore
<1>0. /\ scenario.headers \subseteq Headers /\ scenario.sent \subseteq Headers
      /\ \A h \in Headers : Height[h] \in Heights
  BY WalletAssumption DEF HeaderInv, HeadersKnown, Heights
<1>1. ASSUME NEW h \in scenario.headers, StoreHeader(h) PROVE HeaderInv'
  BY <1>0, <1>1, HeaderArrives DEF StoreHeader, HeaderInv, HeadersKnown
<1>2. ASSUME NEW h \in scenario.headers, DoFinalize(h) PROVE HeaderInv'
  BY <1>0, <1>2, HeaderStartFinalize DEF DoFinalize
<1> DEFINE Still == UNCHANGED <<scenario, headerStore, head, finalizedHeight, walk>>
<1>3. CASE Still
  BY <1>3 DEF HeaderInv, HeadersKnown, WalkKnown, Walking, Stored, Listed
<1>4. ASSUME NEW h \in scenario.sent, NEW list \in {<<>>, Body[h]}, AddHeader(h, list) PROVE HeaderInv'
  <2>1. h \in Headers BY <1>0
  <2>2. CASE ~CanRead(Height[h])
    <3>1. Still BY <1>4, <2>2 DEF AddHeader
    <3> QED BY <1>3, <3>1
  <2>3. CASE CanRead(Height[h])
    BY <1>4, <2>1, <2>3, HeaderArrives DEF AddHeader, HeaderInv, HeadersKnown
  <2> QED BY <2>2, <2>3
<1>5. ASSUME NEW t \in scenario.trxs, AddTransactionDataToMempool(t) PROVE HeaderInv'
  BY <1>3, <1>5 DEF AddTransactionDataToMempool
<1>6. CASE UpdateHeadDetection
  <2>1. head' \in Headers \cup {NoHeader}
    <3>1. CASE head' = NoHeader BY <3>1
    <3>2. CASE CanRead(1) /\ head' \in Range(index[1])
      <4>1. 1 \in Heights BY <3>2 DEF CanRead, HeaderInv, HeadersKnown
      <4>2. index[1] \in Seq(Headers) BY <4>1 DEF HeaderInv, HeadersKnown
      <4> QED BY <3>2, <4>2 DEF Range
    <3> QED BY <1>6, <3>1, <3>2 DEF UpdateHeadDetection
  <2>2. UNCHANGED <<scenario, headerStore, finalizedHeight, walk>> BY <1>6 DEF UpdateHeadDetection
  <2> QED BY <2>1, <2>2 DEF HeaderInv, HeadersKnown, WalkKnown, Walking, Stored, Listed
<1>7. CASE ResetManagementAccounts BY <1>3, <1>7 DEF ResetManagementAccounts
<1>8. CASE CheckAndFinalizing
  <2>1. UNCHANGED <<scenario, headerStore, head, finalizedHeight>> BY <1>8 DEF CheckAndFinalizing
  <2>2. CASE head # NoHeader /\ StartFinalize(head)
    BY <2>1, <2>2, HeaderStartFinalize DEF HeaderInv, WalkKnown
  <2>3. CASE UNCHANGED walk BY <1>3, <2>1, <2>3
  <2> QED BY <1>8, <2>2, <2>3 DEF CheckAndFinalizing
<1>9. ASSUME NEW f \in BOOLEAN, BuildManagementAccount(f) PROVE HeaderInv'
  BY <1>3, <1>9 DEF BuildManagementAccount
<1>10. CASE WalkStep
  <2>1. /\ Walking /\ walk.height > finalizedHeight + 1 /\ walk' = Up(walk)
        /\ UNCHANGED <<scenario, headerStore, head, finalizedHeight>>
    BY <1>10 DEF WalkStep, Lowest
  <2>2. /\ walk \in [id : Headers, height : Heights, target : Headers]
        /\ Height[walk.id] = walk.height /\ finalizedHeight \in Nat
    BY <2>1 DEF HeaderInv, WalkKnown
  <2>0. PICK p : p = Parent[walk.id] OBVIOUS
  <2>3. p # NoHeader /\ p \in Headers /\ Height[p] = walk.height - 1 /\ Height[p] \in Heights
    <3>1. walk.id \in Headers /\ walk.height # 1 BY <2>1, <2>2
    <3>2. p # NoHeader BY <2>0, <2>2, <3>1, WalletAssumption
    <3>3. p \in Headers BY <2>0, <3>1, <3>2, WalletAssumption
    <3>4. Height[p] \in Nat /\ walk.height = Height[p] + 1 BY <2>0, <2>2, <3>1, <3>2, <3>3, WalletAssumption
    <3> QED BY <1>0, <3>2, <3>3, <3>4
  <2>4. Stored(p) \/ p \in missed
    <3>1. Stored(walk.id)
      <4>1. walk.id \in Range(index[walk.height]) BY <1>10 DEF WalkStep
      <4> QED BY <2>2, <4>1 DEF Stored, Listed
    <3> QED BY <2>0, <2>2, <2>3, <3>1 DEF HeaderInv, HeadersKnown
  <2>5. walk' = [id |-> p, height |-> walk.height - 1, target |-> walk.target] BY <2>0, <2>1, <2>2 DEF Up
  <2>6. Stored(p)' \/ p \in missed' BY <2>1, <2>4 DEF Stored, Listed
  <2>7. HeadersKnown' BY <2>1 DEF HeaderInv, HeadersKnown, Stored, Listed
  <2>8. walk'.id = p /\ walk'.height = Height[p] /\ walk' \in [id : Headers, height : Heights, target : Headers]
    BY <2>2, <2>3, <2>5
  <2>9. finalizedHeight' \in Nat /\ head' \in Headers \cup {NoHeader}
    BY <2>1 DEF HeaderInv, WalkKnown
  <2>10. WalkKnown' BY <2>6, <2>8, <2>9 DEF WalkKnown
  <2> QED BY <2>7, <2>10 DEF HeaderInv
<1>11. CASE EndWalk BY <1>11, HeaderEndWalk
<1>12. CASE Spin \/ UNCHANGED vars BY <1>3, <1>12 DEF Spin, vars
<1>13. CASE WalkThrows
  <2>1. walk' = NotWalking /\ UNCHANGED <<scenario, headerStore, head, finalizedHeight>>
    BY <1>13 DEF WalkThrows
  <2> QED BY <2>1 DEF HeaderInv, HeadersKnown, WalkKnown, Walking, Stored, Listed
<1> QED
  BY <1>1, <1>2, <1>4, <1>5, <1>6, <1>7, <1>8, <1>9, <1>10, <1>11, <1>12, <1>13 DEF Next

(* The header store: in whatever order headers come, with the calls that   *)
(* fail on the way, the header before one that was ever stored was stored  *)
(* too, and is in the index until a finalization drops it, or has been     *)
(* missed since the later one came (addHeader,                             *)
(* BlockHeaderStoreCacheElement.finalize); a walk is at such a header.     *)
THEOREM HeadersAlwaysKnown == Spec => []HeaderInv
<1>1. Init => HeaderInv BY HeaderInit
<1>2. HeaderInv /\ [Next]_vars => HeaderInv' BY HeaderStep
<1> QED BY <1>1, <1>2, PTL DEF Spec

(* The walk of a finalization (__updateFinalizedData) spins only at a gap: *)
(* where an earlier finalization took the header out of the index, or the  *)
(* header was missing when the one after it was stored and has not come.   *)
(* Where the headers are stored without a gap, every walk ends.            *)
THEOREM WalkSpinsAtGapsOnly == Spec => []SpinsAtGapsOnly
<1>1. HeaderInv => SpinsAtGapsOnly
  BY DEF HeaderInv, WalkKnown, Stored, Listed, SpinsAtGapsOnly, Spins
<1> QED BY <1>1, HeadersAlwaysKnown, PTL

(* A header leaves the index only as the sibling of a header that is being *)
(* finalized, one at a time (BlockHeaderStoreCacheElement.finalize).       *)
THEOREM SiblingsRemovedOnly == Spec => OnlySiblingsRemoved
<1> DEFINE A == \A n \in Heights :
                  LET gone == Range(index[n]) \ Range(index'[n])
                  IN gone # {} => /\ Walking /\ n = Height[walk.target]
                                  /\ Cardinality(gone) = 1 /\ walk.target \notin gone
<1>1. ASSUME HeaderInv, [Next]_vars PROVE [A]_vars
  <2>0. scenario.headers \subseteq Headers /\ scenario.sent \subseteq Headers
    BY <1>1, WalletAssumption DEF HeaderInv, HeadersKnown
  <2>1. CASE UNCHANGED index BY <2>1
  <2>2. CASE EndWalk
    <3> DEFINE h == walk.target
    <3>1. /\ h \in Headers /\ Walking
          /\ \A n \in Heights : Range(index'[n]) =
               IF n = Height[h] THEN Range(index[n]) \ Dropped(h) ELSE Range(index[n])
      BY <1>1, <2>2, HeaderEndWalk DEF EndWalk
    <3>2. /\ Dropped(h) \subseteq Range(index[Height[h]]) \ {h}
          /\ Dropped(h) = {} \/ Cardinality(Dropped(h)) = 1
      BY <1>1, <3>1, DroppedIs
    <3> HIDE DEF h
    <3>3. ASSUME NEW n \in Heights, Range(index[n]) \ Range(index'[n]) # {}
          PROVE  n = Height[h] /\ Range(index[n]) \ Range(index'[n]) = Dropped(h)
      <4>1. n = Height[h] BY <3>1, <3>3
      <4>2. Range(index'[n]) = Range(index[n]) \ Dropped(h) BY <3>1, <3>3, <4>1
      <4>3. Dropped(h) \subseteq Range(index[n]) BY <3>2, <4>1
      <4> QED BY <4>1, <4>2, <4>3
    <3>4. A
      <4> SUFFICES ASSUME NEW n \in Heights, Range(index[n]) \ Range(index'[n]) # {}
                   PROVE  /\ Walking /\ n = Height[walk.target]
                          /\ Cardinality(Range(index[n]) \ Range(index'[n])) = 1
                          /\ walk.target \notin Range(index[n]) \ Range(index'[n])
        OBVIOUS
      <4>1. n = Height[h] /\ Range(index[n]) \ Range(index'[n]) = Dropped(h) BY <3>3
      <4>2. Dropped(h) # {} BY <4>1
      <4> QED BY <3>1, <3>2, <4>1, <4>2 DEF h
    <3> QED BY <3>4
  <2>3. ASSUME NEW h \in Headers, ~Walking,
               index' = IF Listed(h) THEN index ELSE WithHeader(h), dropped' = dropped \ {h},
               missed' = IF Listed(h) THEN missed ELSE MissedWith(h),
               UNCHANGED <<scenario, head, finalizedHeight, walk>>, sections' \subseteq Heights
        PROVE  A
    <3>1. \A n \in Heights : Range(index[n]) \subseteq Range(index'[n]) BY <1>1, <2>3, HeaderArrives
    <3> QED BY <3>1
  <2> HIDE DEF A
  <2>4. ASSUME NEW h \in scenario.headers, StoreHeader(h) PROVE A
    BY <1>1, <2>0, <2>3, <2>4 DEF StoreHeader, HeaderInv, HeadersKnown, Heights
  <2>5. ASSUME NEW h \in scenario.sent, NEW list \in {<<>>, Body[h]}, AddHeader(h, list) PROVE [A]_vars
    <3>1. CASE CanRead(Height[h])
      BY <1>1, <2>0, <2>3, <2>5, <3>1 DEF AddHeader, HeaderInv, HeadersKnown
    <3> QED BY <2>1, <2>5, <3>1 DEF AddHeader
  <2>6. CASE ~UNCHANGED index
    <3>1. Next BY <1>1, <2>6 DEF vars, headerStore
    <3> QED BY <2>2, <2>4, <2>5, <2>6, <3>1
         DEF Next, DoFinalize, AddTransactionDataToMempool, UpdateHeadDetection, ResetManagementAccounts,
             CheckAndFinalizing, BuildManagementAccount, WalkStep, WalkThrows, Spin, vars, headerStore
  <2> QED BY <2>1, <2>6
<1>2. HeaderInv /\ [Next]_vars => [A]_vars BY <1>1
<1> QED BY <1>2, HeadersAlwaysKnown, PTL DEF Spec, OnlySiblingsRemoved

-----------------------------------------------------------------------------
(* The loops over transactions: what J says after each turn.               *)

(* addUtxo for each record of another account.                             *)
IsCoinLoop(f, a, list) ==
  f = [n \in 0..Len(list) |-> IF n = 0 THEN Fine(a)
                              ELSE IF f[n - 1].ok THEN WithCoin(f[n - 1].acc, list[n]) ELSE f[n - 1]]

LEMMA CoinLoop ==
  ASSUME NEW a, NEW list, Len(list) \in Nat, NEW J, Fine(a) \in J[0],
         \A i \in 1..Len(list) : \A r \in J[i - 1] : (IF r.ok THEN WithCoin(r.acc, list[i]) ELSE r) \in J[i]
  PROVE  Loop(WithCoin, a, list) \in J[Len(list)]
<1> DEFINE n == Len(list)
           turn(r, i) == IF r.ok THEN WithCoin(r.acc, list[i]) ELSE r
           G == [p \in (UNION {J[i] : i \in 0..n}) \X (1..n) |-> turn(p[1], p[2])]
           g == CHOOSE f : IsCoinLoop(f, a, list)
<1>1. \A i \in 1..n : \A r \in J[i - 1] : G[<<r, i>>] = turn(r, i) /\ turn(r, i) \in J[i]
  <2> SUFFICES ASSUME NEW i \in 1..n, NEW r \in J[i - 1] PROVE G[<<r, i>>] = turn(r, i) /\ turn(r, i) \in J[i]
    OBVIOUS
  <2>1. i - 1 \in 0..n OBVIOUS
  <2>2. <<r, i>> \in (UNION {J[k] : k \in 0..n}) \X (1..n) BY <2>1
  <2> QED BY <2>2
<1>2. PICK f : IsTurns(f, n, Fine(a), G) /\ \A i \in 0..n : f[i] \in J[i]
  <2>1. n \in Nat OBVIOUS
  <2> HIDE DEF G, turn, n
  <2>2. \A i \in 1..n : \A r \in J[i - 1] : G[<<r, i>>] \in J[i] BY <1>1
  <2>3. PICK x : x = Fine(a) OBVIOUS
  <2>4. \E f : IsTurns(f, n, x, G) /\ \A i \in 0..n : f[i] \in J[i] BY <2>1, <2>2, <2>3, TurnsKeep
  <2> QED BY <2>3, <2>4
<1>3. IsCoinLoop(f, a, list)
  <2>1. f = [i \in 0..n |-> IF i = 0 THEN Fine(a) ELSE G[<<f[i - 1], i>>]] BY <1>2 DEF IsTurns
  <2>2. \A i \in 0..n : i # 0 => G[<<f[i - 1], i>>] = turn(f[i - 1], i)
    <3> SUFFICES ASSUME NEW i \in 0..n, i # 0 PROVE G[<<f[i - 1], i>>] = turn(f[i - 1], i) OBVIOUS
    <3>1. i \in 1..n /\ i - 1 \in 0..n OBVIOUS
    <3> QED BY <1>1, <1>2, <3>1
  <2> HIDE DEF G
  <2>3. f = [i \in 0..n |-> IF i = 0 THEN Fine(a) ELSE turn(f[i - 1], i)] BY <2>1, <2>2
  <2> QED BY <2>3 DEF IsCoinLoop
<1>4. IsCoinLoop(g, a, list) BY <1>3
<1>5. Loop(WithCoin, a, list) = g[n] BY DEF Loop, IsCoinLoop
<1> HIDE DEF g
<1>6. \A i \in 0..n : g[i] = IF i = 0 THEN Fine(a) ELSE turn(g[i - 1], i) BY <1>4 DEF IsCoinLoop
<1>7. g[0] \in J[0]
  <2>1. 0 \in 0..n OBVIOUS
  <2> QED BY <1>6, <2>1
<1>8. ASSUME NEW i \in 1..n, g[i - 1] \in J[i - 1] PROVE g[i] \in J[i]
  <2>1. i \in 0..n /\ i # 0 OBVIOUS
  <2>2. g[i] = turn(g[i - 1], i) BY <1>6, <2>1
  <2> QED BY <1>1, <1>8, <2>2
<1>9. \A i \in 0..n : g[i] \in J[i] BY <1>7, <1>8, TurnsStay
<1>10. n \in 0..n OBVIOUS
<1> QED BY <1>5, <1>9, <1>10

(* removeUtxo for each coin a transaction spends.                          *)
IsSpendLoop(f, a, list) ==
  f = [n \in 0..Len(list) |-> IF n = 0 THEN Fine(a)
                              ELSE IF f[n - 1].ok THEN WithoutCoin(f[n - 1].acc, list[n]) ELSE f[n - 1]]

LEMMA SpendLoop ==
  ASSUME NEW a, NEW list, Len(list) \in Nat, NEW J, Fine(a) \in J[0],
         \A i \in 1..Len(list) : \A r \in J[i - 1] : (IF r.ok THEN WithoutCoin(r.acc, list[i]) ELSE r) \in J[i]
  PROVE  Loop(WithoutCoin, a, list) \in J[Len(list)]
<1> DEFINE n == Len(list)
           turn(r, i) == IF r.ok THEN WithoutCoin(r.acc, list[i]) ELSE r
           G == [p \in (UNION {J[i] : i \in 0..n}) \X (1..n) |-> turn(p[1], p[2])]
           g == CHOOSE f : IsSpendLoop(f, a, list)
<1>1. \A i \in 1..n : \A r \in J[i - 1] : G[<<r, i>>] = turn(r, i) /\ turn(r, i) \in J[i]
  <2> SUFFICES ASSUME NEW i \in 1..n, NEW r \in J[i - 1] PROVE G[<<r, i>>] = turn(r, i) /\ turn(r, i) \in J[i]
    OBVIOUS
  <2>1. i - 1 \in 0..n OBVIOUS
  <2>2. <<r, i>> \in (UNION {J[k] : k \in 0..n}) \X (1..n) BY <2>1
  <2> QED BY <2>2
<1>2. PICK f : IsTurns(f, n, Fine(a), G) /\ \A i \in 0..n : f[i] \in J[i]
  <2>1. n \in Nat OBVIOUS
  <2> HIDE DEF G, turn, n
  <2>2. \A i \in 1..n : \A r \in J[i - 1] : G[<<r, i>>] \in J[i] BY <1>1
  <2>3. PICK x : x = Fine(a) OBVIOUS
  <2>4. \E f : IsTurns(f, n, x, G) /\ \A i \in 0..n : f[i] \in J[i] BY <2>1, <2>2, <2>3, TurnsKeep
  <2> QED BY <2>3, <2>4
<1>3. IsSpendLoop(f, a, list)
  <2>1. f = [i \in 0..n |-> IF i = 0 THEN Fine(a) ELSE G[<<f[i - 1], i>>]] BY <1>2 DEF IsTurns
  <2>2. \A i \in 0..n : i # 0 => G[<<f[i - 1], i>>] = turn(f[i - 1], i)
    <3> SUFFICES ASSUME NEW i \in 0..n, i # 0 PROVE G[<<f[i - 1], i>>] = turn(f[i - 1], i) OBVIOUS
    <3>1. i \in 1..n /\ i - 1 \in 0..n OBVIOUS
    <3> QED BY <1>1, <1>2, <3>1
  <2> HIDE DEF G
  <2>3. f = [i \in 0..n |-> IF i = 0 THEN Fine(a) ELSE turn(f[i - 1], i)] BY <2>1, <2>2
  <2> QED BY <2>3 DEF IsSpendLoop
<1>4. IsSpendLoop(g, a, list) BY <1>3
<1>5. Loop(WithoutCoin, a, list) = g[n] BY DEF Loop, IsSpendLoop
<1> HIDE DEF g
<1>6. \A i \in 0..n : g[i] = IF i = 0 THEN Fine(a) ELSE turn(g[i - 1], i) BY <1>4 DEF IsSpendLoop
<1>7. g[0] \in J[0]
  <2>1. 0 \in 0..n OBVIOUS
  <2> QED BY <1>6, <2>1
<1>8. ASSUME NEW i \in 1..n, g[i - 1] \in J[i - 1] PROVE g[i] \in J[i]
  <2>1. i \in 0..n /\ i # 0 OBVIOUS
  <2>2. g[i] = turn(g[i - 1], i) BY <1>6, <2>1
  <2> QED BY <1>1, <1>8, <2>2
<1>9. \A i \in 0..n : g[i] \in J[i] BY <1>7, <1>8, TurnsStay
<1>10. n \in 0..n OBVIOUS
<1> QED BY <1>5, <1>9, <1>10

(* addTransaction for each transaction of the pool.                        *)
IsAddLoop(f, a, list) ==
  f = [n \in 0..Len(list) |-> IF n = 0 THEN Fine(a)
                              ELSE IF f[n - 1].ok THEN AddTransaction(f[n - 1].acc, list[n]) ELSE f[n - 1]]

LEMMA AddLoop ==
  ASSUME NEW a, NEW list, Len(list) \in Nat, NEW J, Fine(a) \in J[0],
         \A i \in 1..Len(list) : \A r \in J[i - 1] : (IF r.ok THEN AddTransaction(r.acc, list[i]) ELSE r) \in J[i]
  PROVE  Loop(AddTransaction, a, list) \in J[Len(list)]
<1> DEFINE n == Len(list)
           turn(r, i) == IF r.ok THEN AddTransaction(r.acc, list[i]) ELSE r
           G == [p \in (UNION {J[i] : i \in 0..n}) \X (1..n) |-> turn(p[1], p[2])]
           g == CHOOSE f : IsAddLoop(f, a, list)
<1>1. \A i \in 1..n : \A r \in J[i - 1] : G[<<r, i>>] = turn(r, i) /\ turn(r, i) \in J[i]
  <2> SUFFICES ASSUME NEW i \in 1..n, NEW r \in J[i - 1] PROVE G[<<r, i>>] = turn(r, i) /\ turn(r, i) \in J[i]
    OBVIOUS
  <2>1. i - 1 \in 0..n OBVIOUS
  <2>2. <<r, i>> \in (UNION {J[k] : k \in 0..n}) \X (1..n) BY <2>1
  <2> QED BY <2>2
<1>2. PICK f : IsTurns(f, n, Fine(a), G) /\ \A i \in 0..n : f[i] \in J[i]
  <2>1. n \in Nat OBVIOUS
  <2> HIDE DEF G, turn, n
  <2>2. \A i \in 1..n : \A r \in J[i - 1] : G[<<r, i>>] \in J[i] BY <1>1
  <2>3. PICK x : x = Fine(a) OBVIOUS
  <2>4. \E f : IsTurns(f, n, x, G) /\ \A i \in 0..n : f[i] \in J[i] BY <2>1, <2>2, <2>3, TurnsKeep
  <2> QED BY <2>3, <2>4
<1>3. IsAddLoop(f, a, list)
  <2>1. f = [i \in 0..n |-> IF i = 0 THEN Fine(a) ELSE G[<<f[i - 1], i>>]] BY <1>2 DEF IsTurns
  <2>2. \A i \in 0..n : i # 0 => G[<<f[i - 1], i>>] = turn(f[i - 1], i)
    <3> SUFFICES ASSUME NEW i \in 0..n, i # 0 PROVE G[<<f[i - 1], i>>] = turn(f[i - 1], i) OBVIOUS
    <3>1. i \in 1..n /\ i - 1 \in 0..n OBVIOUS
    <3> QED BY <1>1, <1>2, <3>1
  <2> HIDE DEF G
  <2>3. f = [i \in 0..n |-> IF i = 0 THEN Fine(a) ELSE turn(f[i - 1], i)] BY <2>1, <2>2
  <2> QED BY <2>3 DEF IsAddLoop
<1>4. IsAddLoop(g, a, list) BY <1>3
<1>5. Loop(AddTransaction, a, list) = g[n] BY DEF Loop, IsAddLoop
<1> HIDE DEF g
<1>6. \A i \in 0..n : g[i] = IF i = 0 THEN Fine(a) ELSE turn(g[i - 1], i) BY <1>4 DEF IsAddLoop
<1>7. g[0] \in J[0]
  <2>1. 0 \in 0..n OBVIOUS
  <2> QED BY <1>6, <2>1
<1>8. ASSUME NEW i \in 1..n, g[i - 1] \in J[i - 1] PROVE g[i] \in J[i]
  <2>1. i \in 0..n /\ i # 0 OBVIOUS
  <2>2. g[i] = turn(g[i - 1], i) BY <1>6, <2>1
  <2> QED BY <1>1, <1>8, <2>2
<1>9. \A i \in 0..n : g[i] \in J[i] BY <1>7, <1>8, TurnsStay
<1>10. n \in 0..n OBVIOUS
<1> QED BY <1>5, <1>9, <1>10

(* The same for the transactions of a block that concern the wallet.       *)
IsFilterLoop(f, a, list) ==
  f = [n \in 0..Len(list) |-> IF n = 0 THEN Fine(a)
                              ELSE IF f[n - 1].ok THEN AddFiltered(f[n - 1].acc, list[n]) ELSE f[n - 1]]

LEMMA FilterLoop ==
  ASSUME NEW a, NEW list, Len(list) \in Nat, NEW J, Fine(a) \in J[0],
         \A i \in 1..Len(list) : \A r \in J[i - 1] : (IF r.ok THEN AddFiltered(r.acc, list[i]) ELSE r) \in J[i]
  PROVE  Loop(AddFiltered, a, list) \in J[Len(list)]
<1> DEFINE n == Len(list)
           turn(r, i) == IF r.ok THEN AddFiltered(r.acc, list[i]) ELSE r
           G == [p \in (UNION {J[i] : i \in 0..n}) \X (1..n) |-> turn(p[1], p[2])]
           g == CHOOSE f : IsFilterLoop(f, a, list)
<1>1. \A i \in 1..n : \A r \in J[i - 1] : G[<<r, i>>] = turn(r, i) /\ turn(r, i) \in J[i]
  <2> SUFFICES ASSUME NEW i \in 1..n, NEW r \in J[i - 1] PROVE G[<<r, i>>] = turn(r, i) /\ turn(r, i) \in J[i]
    OBVIOUS
  <2>1. i - 1 \in 0..n OBVIOUS
  <2>2. <<r, i>> \in (UNION {J[k] : k \in 0..n}) \X (1..n) BY <2>1
  <2> QED BY <2>2
<1>2. PICK f : IsTurns(f, n, Fine(a), G) /\ \A i \in 0..n : f[i] \in J[i]
  <2>1. n \in Nat OBVIOUS
  <2> HIDE DEF G, turn, n
  <2>2. \A i \in 1..n : \A r \in J[i - 1] : G[<<r, i>>] \in J[i] BY <1>1
  <2>3. PICK x : x = Fine(a) OBVIOUS
  <2>4. \E f : IsTurns(f, n, x, G) /\ \A i \in 0..n : f[i] \in J[i] BY <2>1, <2>2, <2>3, TurnsKeep
  <2> QED BY <2>3, <2>4
<1>3. IsFilterLoop(f, a, list)
  <2>1. f = [i \in 0..n |-> IF i = 0 THEN Fine(a) ELSE G[<<f[i - 1], i>>]] BY <1>2 DEF IsTurns
  <2>2. \A i \in 0..n : i # 0 => G[<<f[i - 1], i>>] = turn(f[i - 1], i)
    <3> SUFFICES ASSUME NEW i \in 0..n, i # 0 PROVE G[<<f[i - 1], i>>] = turn(f[i - 1], i) OBVIOUS
    <3>1. i \in 1..n /\ i - 1 \in 0..n OBVIOUS
    <3> QED BY <1>1, <1>2, <3>1
  <2> HIDE DEF G
  <2>3. f = [i \in 0..n |-> IF i = 0 THEN Fine(a) ELSE turn(f[i - 1], i)] BY <2>1, <2>2
  <2> QED BY <2>3 DEF IsFilterLoop
<1>4. IsFilterLoop(g, a, list) BY <1>3
<1>5. Loop(AddFiltered, a, list) = g[n] BY DEF Loop, IsFilterLoop
<1> HIDE DEF g
<1>6. \A i \in 0..n : g[i] = IF i = 0 THEN Fine(a) ELSE turn(g[i - 1], i) BY <1>4 DEF IsFilterLoop
<1>7. g[0] \in J[0]
  <2>1. 0 \in 0..n OBVIOUS
  <2> QED BY <1>6, <2>1
<1>8. ASSUME NEW i \in 1..n, g[i - 1] \in J[i - 1] PROVE g[i] \in J[i]
  <2>1. i \in 0..n /\ i # 0 OBVIOUS
  <2>2. g[i] = turn(g[i - 1], i) BY <1>6, <2>1
  <2> QED BY <1>1, <1>8, <2>2
<1>9. \A i \in 0..n : g[i] \in J[i] BY <1>7, <1>8, TurnsStay
<1>10. n \in 0..n OBVIOUS
<1> QED BY <1>5, <1>9, <1>10

-----------------------------------------------------------------------------
(* The accounts.  A coin is taken out of the list where it is found.       *)
LEMMA RemovedPlace ==
  ASSUME NEW list \in Seq(Owned), NEW t \in Range(list)
  PROVE  \E i \in 1..Len(list) : list[i] = t /\ RemoveFirst(list, t) = RemoveAt(list, i)
<1> DEFINE T == {k \in 1..Len(list) : list[k] = t}
<1>1. T \subseteq Nat /\ T # {} BY DEF Range
<1>2. PICK m \in T : \A k \in T : m <= k
  <2> HIDE DEF T
  <2> QED BY <1>1, LeastNumber
<1>3. Min(T) \in T BY <1>2 DEF Min
<1>4. RemoveFirst(list, t) = RemoveAt(list, Min(T)) BY <1>1 DEF RemoveFirst, SelectInSeq
<1> QED BY <1>3, <1>4

Results == [acc : Accounts, ok : BOOLEAN]

(* removeUtxo: the map loses the coin, the list one record of it, the      *)
(* history nothing.                                                        *)
LEMMA WithoutCoinKeeps ==
  ASSUME NEW a, Agrees(a), NEW t \in Owned
  PROVE  LET r == WithoutCoin(a, t)
         IN /\ r \in Results /\ Agrees(r.acc) /\ r.ok = TRUE
            /\ r.acc.history = a.history /\ r.acc.map = a.map \ {t}
            /\ Range(r.acc.list) \subseteq Range(a.list)
<1> DEFINE b == [a EXCEPT !.map = @ \ {t}, !.list = RemoveFirst(@, t)]
<1>0. a \in Accounts /\ a.history \in Seq(Trxs) /\ a.list \in Seq(Owned) /\ a.map \subseteq Owned
  BY DEF Agrees, Accounts
<1>1. CASE t \notin a.map
  <2>1. WithoutCoin(a, t) = [acc |-> a, ok |-> TRUE] BY <1>1 DEF WithoutCoin, Fine
  <2>2. a \in Accounts BY DEF Agrees
  <2> QED BY <1>1, <2>1, <2>2 DEF Results
<1>2. CASE t \in a.map
  <2>3. WithoutCoin(a, t) = [acc |-> b, ok |-> TRUE] BY <1>2 DEF WithoutCoin, Fine
  <2>4. t \in Range(a.list) BY <1>2 DEF Agrees
  <2>5. PICK i \in 1..Len(a.list) : a.list[i] = t /\ RemoveFirst(a.list, t) = RemoveAt(a.list, i)
    BY <1>0, <2>4, RemovedPlace
  <2> DEFINE q == RemoveAt(a.list, i)
  <2>6. /\ q \in Seq(Owned) /\ Len(q) = Len(a.list) - 1
        /\ \A k \in 1..Len(a.list) - 1 : q[k] = IF k < i THEN a.list[k] ELSE a.list[k + 1]
    BY <1>0, <2>5, RemoveAtIs
  <2>15. b \in Accounts /\ b.history = a.history /\ b.list = q /\ b.map = a.map \ {t}
    BY <1>0, <2>5, <2>6 DEF Accounts
  <2> HIDE DEF b
  <2> DEFINE n == Len(a.list)
             old(k) == IF k < i THEN k ELSE k + 1
  <2>7. n \in Nat /\ DOMAIN a.list = 1..n /\ DOMAIN q = 1..n - 1 /\ i \in 1..n
    BY <1>0, <2>5, <2>6
  <2> HIDE DEF q, n
  <2>8. \A k \in DOMAIN q : old(k) \in 1..n /\ old(k) # i /\ q[k] = a.list[old(k)]
    BY <2>6, <2>7 DEF n
  <2>9. \A j, k \in DOMAIN q : old(j) = old(k) => j = k BY <2>7
  <2>10. Range(q) \subseteq Range(a.list) BY <2>7, <2>8 DEF Range
  <2>11. ASSUME NEW x \in Range(a.list), x # t PROVE x \in Range(q)
    <3>1. PICK j \in 1..n : a.list[j] = x BY <2>7 DEF Range
    <3>2. CASE j < i
      <4>1. j \in DOMAIN q /\ q[j] = x BY <2>6, <2>7, <3>1, <3>2 DEF n
      <4> QED BY <4>1 DEF Range
    <3>3. CASE j > i
      <4>1. j - 1 \in DOMAIN q /\ q[j - 1] = a.list[(j - 1) + 1] BY <2>6, <2>7, <3>1, <3>3 DEF n
      <4>2. (j - 1) + 1 = j OBVIOUS
      <4> QED BY <3>1, <4>1, <4>2 DEF Range
    <3> QED BY <2>5, <2>7, <2>11, <3>1, <3>2, <3>3
  <2>12. \A j, k \in 1..n : a.list[j] = a.list[k] /\ Sound(a.list[j]) => j = k BY <2>7 DEF Agrees
  <2>13. \A x \in Range(q) : Sound(x) => x # t
    <3> SUFFICES ASSUME NEW k \in DOMAIN q, Sound(q[k]), q[k] = t PROVE FALSE BY DEF Range
    <3>1. old(k) \in 1..n /\ old(k) # i /\ a.list[old(k)] = t BY <2>8
    <3> HIDE DEF old
    <3> QED BY <2>5, <2>7, <2>12, <3>1
  <2>14. \A j, k \in DOMAIN q : q[j] = q[k] /\ Sound(q[j]) => j = k
    <3> SUFFICES ASSUME NEW j \in DOMAIN q, NEW k \in DOMAIN q, q[j] = q[k], Sound(q[j]) PROVE j = k OBVIOUS
    <3>1. /\ old(j) \in 1..n /\ q[j] = a.list[old(j)]
          /\ old(k) \in 1..n /\ q[k] = a.list[old(k)]
      BY <2>8
    <3>2. old(j) = old(k)
      <4> HIDE DEF old
      <4> QED BY <2>12, <3>1
    <3> QED BY <2>9, <3>2
  <2>16. IsInjective(b.history) BY <2>15 DEF Agrees
  <2>17. \A x \in b.map : x \in Range(b.list) BY <2>11, <2>15 DEF Agrees
  <2>18. \A x \in Range(b.list) : Sound(x) => x \in b.map /\ x \in Range(b.history)
    BY <2>10, <2>13, <2>15 DEF Agrees
  <2>19. Agrees(b)
    <3>1. \A j, k \in DOMAIN b.list : b.list[j] = b.list[k] /\ Sound(b.list[j]) => j = k BY <2>14, <2>15
    <3> QED BY <2>15, <2>16, <2>17, <2>18, <3>1 DEF Agrees
  <2> QED BY <2>3, <2>10, <2>15, <2>19 DEF Results
<1> QED BY <1>1, <1>2

(* Every coin a transaction spends is taken out.                           *)
LEMMA SpendKeeps ==
  ASSUME NEW a, Agrees(a), NEW list \in Seq(Owned)
  PROVE  LET b == Loop(WithoutCoin, a, list).acc
         IN /\ Agrees(b) /\ b.history = a.history /\ b.map = a.map \ Range(list)
            /\ Range(b.list) \subseteq Range(a.list)
<1> DEFINE n == Len(list)
           gone(i) == {list[k] : k \in 1..i}
           left(i) == {r \in Results : /\ r.ok = TRUE /\ Agrees(r.acc) /\ r.acc.history = a.history
                                       /\ r.acc.map = a.map \ gone(i)
                                       /\ Range(r.acc.list) \subseteq Range(a.list)}
           J == [i \in 0..n |-> left(i)]
<1>1. n \in Nat /\ DOMAIN list = 1..n /\ \A k \in 1..n : list[k] \in Owned OBVIOUS
<1>2. Fine(a) \in J[0]
  <2>1. gone(0) = {} OBVIOUS
  <2>2. a \in Accounts BY DEF Agrees
  <2>3. [acc |-> a, ok |-> TRUE] \in left(0) BY <2>1, <2>2 DEF Results
  <2>4. 0 \in 0..n BY <1>1
  <2> QED BY <2>3, <2>4 DEF Fine
<1>3. ASSUME NEW i \in 1..n, NEW r \in J[i - 1]
      PROVE  (IF r.ok THEN WithoutCoin(r.acc, list[i]) ELSE r) \in J[i]
  <2>1. i \in 0..n /\ i - 1 \in 0..n BY <1>1
  <2>2. r \in left(i - 1) BY <2>1
  <2>3. r.ok = TRUE /\ Agrees(r.acc) /\ r.acc.history = a.history /\ r.acc.map = a.map \ gone(i - 1)
        /\ Range(r.acc.list) \subseteq Range(a.list)
    BY <2>2
  <2>4. gone(i) = gone(i - 1) \cup {list[i]}
    <3>1. 1..i = (1..i - 1) \cup {i} BY <1>1
    <3> QED BY <3>1
  <2> DEFINE c == WithoutCoin(r.acc, list[i])
  <2>5. /\ c \in Results /\ Agrees(c.acc) /\ c.ok = TRUE /\ c.acc.history = r.acc.history
        /\ c.acc.map = r.acc.map \ {list[i]} /\ Range(c.acc.list) \subseteq Range(r.acc.list)
    BY <1>1, <2>3, WithoutCoinKeeps
  <2> HIDE DEF c
  <2>6. c \in left(i) BY <2>3, <2>4, <2>5
  <2>7. c \in J[i] BY <2>1, <2>6
  <2> QED BY <2>3, <2>7 DEF c
<1>4. Loop(WithoutCoin, a, list) \in J[n]
  <2> HIDE DEF J
  <2> QED BY <1>1, <1>2, <1>3, SpendLoop
<1>5. Loop(WithoutCoin, a, list) \in left(n)
  <2>1. n \in 0..n BY <1>1
  <2> QED BY <1>4, <2>1
<1>6. gone(n) = Range(list) BY <1>1 DEF Range
<1> QED BY <1>5, <1>6

(* addUtxo: the record comes last, and is found where its id is computed.  *)
LEMMA WithCoinIs ==
  ASSUME NEW a \in Accounts, NEW t \in Owned
  PROVE  LET r == WithCoin(a, t)
         IN /\ r \in Results /\ r.acc.history = a.history /\ r.acc.list = Append(a.list, t)
            /\ r.ok <=> broken[t] # "id"
            /\ r.acc.map = IF broken[t] # "id" THEN a.map \cup {t} ELSE a.map
<1> DEFINE c == [a EXCEPT !.list = Append(@, t)]
           d == [c EXCEPT !.map = @ \cup {t}]
<1>0. a.list \in Seq(Owned) /\ a.map \subseteq Owned BY DEF Accounts
<1>1. a.map \subseteq Owned /\ Append(a.list, t) \in Seq(Owned) BY <1>0
<1>2. c \in Accounts /\ c.history = a.history /\ c.list = Append(a.list, t) /\ c.map = a.map
  BY <1>1 DEF Accounts
<1>3. WithCoin(a, t) = IF broken[t] = "id" THEN [acc |-> c, ok |-> FALSE] ELSE [acc |-> d, ok |-> TRUE]
  BY DEF WithCoin, Thrown, Fine
<1> HIDE DEF c
<1>4. d \in Accounts /\ d.history = c.history /\ d.list = c.list /\ d.map = c.map \cup {t}
  BY <1>1, <1>2 DEF Accounts
<1> HIDE DEF d
<1>5. CASE broken[t] = "id"
  <2>1. WithCoin(a, t) = [acc |-> c, ok |-> FALSE] BY <1>3, <1>5
  <2> HIDE DEF d
  <2> QED BY <1>2, <1>5, <2>1 DEF Results
<1>6. CASE broken[t] # "id"
  <2>1. WithCoin(a, t) = [acc |-> d, ok |-> TRUE] BY <1>3, <1>6
  <2> QED BY <1>2, <1>4, <1>6, <2>1 DEF Results
<1> QED BY <1>5, <1>6

(* A list and what the map and the history have of it, with a coin more.   *)
LEMMA AgreesWithCoin ==
  ASSUME NEW a, Agrees(a), NEW t \in Owned,
         Sound(t) => t \notin Range(a.list),
         NEW b \in Accounts, b.list = Append(a.list, t), IsInjective(b.history),
         Range(a.history) \subseteq Range(b.history), Sound(t) => t \in Range(b.history),
         b.map = a.map \/ b.map = a.map \cup {t}, Sound(t) => t \in b.map
  PROVE  Agrees(b)
<1> DEFINE m == Len(a.list)
           q == b.list
<1>1. a.list \in Seq(Owned) BY DEF Agrees, Accounts
<1>2. /\ m \in Nat /\ DOMAIN a.list = 1..m /\ DOMAIN q = 1..m + 1 /\ q[m + 1] = t
      /\ \A k \in 1..m : q[k] = a.list[k]
  BY <1>1
<1> HIDE DEF q, m
<1>3. 1..m + 1 = (1..m) \cup {m + 1} BY <1>2
<1>4. Range(q) = Range(a.list) \cup {t} BY <1>2, <1>3 DEF Range
<1>5. \A x \in b.map : x \in Range(q) BY <1>4 DEF Agrees
<1>6. \A x \in Range(q) : Sound(x) => x \in b.map /\ x \in Range(b.history) BY <1>4 DEF Agrees
<1>7. \A j, k \in DOMAIN q : q[j] = q[k] /\ Sound(q[j]) => j = k
  <2> SUFFICES ASSUME NEW j \in 1..m + 1, NEW k \in 1..m + 1, q[j] = q[k], Sound(q[j]) PROVE j = k
    BY <1>2
  <2>1. \A x, y \in 1..m : a.list[x] = a.list[y] /\ Sound(a.list[x]) => x = y BY <1>2 DEF Agrees
  <2>2. \A x \in 1..m : Sound(t) => q[x] # t BY <1>2 DEF Range
  <2>3. (j \in 1..m \/ j = m + 1) /\ (k \in 1..m \/ k = m + 1) BY <1>3
  <2>4. CASE j \in 1..m /\ k \in 1..m
    <3>1. q[j] = a.list[j] /\ q[k] = a.list[k] BY <1>2, <2>4
    <3> QED BY <2>1, <2>4, <3>1
  <2>5. CASE j = m + 1 /\ k \in 1..m BY <1>2, <2>2, <2>5
  <2>6. CASE j \in 1..m /\ k = m + 1 BY <1>2, <2>2, <2>6
  <2>7. CASE j = m + 1 /\ k = m + 1 BY <2>7
  <2> QED BY <2>3, <2>4, <2>5, <2>6, <2>7
<1> QED BY <1>5, <1>6, <1>7 DEF Agrees, q

(* importOtherAccount: what is copied agrees as much as what it was copied *)
(* from, wherever the copy stops.                                          *)
LEMMA ImportedKeeps ==
  ASSUME NEW o, Account(o)
  PROVE  LET r == Imported(o)
         IN r \in Results /\ Account(r.acc) /\ r.acc.history = o.history
<1> DEFINE list == o.list
           n == Len(list)
           start == [Blank EXCEPT !.history = o.history]
           part(i) == {r \in Results : /\ Agrees(r.acc) /\ r.acc.history = o.history
                                       /\ Range(r.acc.list) \subseteq Range(list)
                                       /\ r.ok => /\ Len(r.acc.list) = i
                                                  /\ \A k \in 1..i : r.acc.list[k] = list[k]}
           J == [i \in 0..n |-> part(i)]
<1>0. Agrees(o) /\ LateOnly(o) BY DEF Account
<1>1. list \in Seq(Owned) /\ o.history \in Seq(Trxs) /\ IsInjective(o.history) BY <1>0 DEF Agrees, Accounts
<1>2. n \in Nat /\ DOMAIN list = 1..n /\ \A k \in 1..n : list[k] \in Owned /\ list[k] \in Range(list)
  BY <1>1 DEF Range
<1>3. /\ \A j, k \in 1..n : list[j] = list[k] /\ Sound(list[j]) => j = k
      /\ \A t \in Range(list) : Sound(t) => t \in Range(o.history)
  BY <1>0, <1>2 DEF Agrees
<1> HIDE DEF list, n
<1>4. start \in Accounts /\ start.history = o.history /\ start.list = <<>> /\ start.map = {}
  <2>1. Blank \in Accounts
    <3>1. <<>> \in Seq(Trxs) /\ <<>> \in Seq(Owned) /\ {} \subseteq Owned OBVIOUS
    <3> QED BY <3>1 DEF Blank, Accounts
  <2>2. Blank.list = <<>> /\ Blank.map = {} BY DEF Blank
  <2>3. start \in Accounts /\ start.history = o.history /\ start.list = Blank.list /\ start.map = Blank.map
    BY <1>1, <2>1 DEF Accounts
  <2> QED BY <2>2, <2>3
<1>5. Fine(start) \in J[0]
  <2> HIDE DEF start
  <2>1. Range(<<>>) = {} /\ DOMAIN <<>> = {} /\ Len(<<>>) = 0 BY DEF Range
  <2>2. Agrees(start) BY <1>1, <1>4, <2>1 DEF Agrees
  <2>3. [acc |-> start, ok |-> TRUE] \in part(0) BY <1>4, <2>1, <2>2 DEF Results
  <2>4. 0 \in 0..n BY <1>2
  <2> QED BY <2>3, <2>4 DEF Fine
<1> HIDE DEF start
<1>6. ASSUME NEW i \in 1..n, NEW r \in J[i - 1]
      PROVE  (IF r.ok THEN WithCoin(r.acc, list[i]) ELSE r) \in J[i]
  <2>1. i \in 0..n /\ i - 1 \in 0..n /\ i \in Nat /\ 1..i = (1..i - 1) \cup {i} BY <1>2
  <2>2. /\ r \in Results /\ Agrees(r.acc) /\ r.acc.history = o.history
        /\ Range(r.acc.list) \subseteq Range(list)
        /\ r.ok => Len(r.acc.list) = i - 1 /\ \A k \in 1..i - 1 : r.acc.list[k] = list[k]
    BY <2>1
  <2>3. CASE ~r.ok
    <3>1. r \in part(i) BY <2>2, <2>3
    <3> QED BY <2>1, <2>3, <3>1
  <2>4. CASE r.ok
    <3> DEFINE a == r.acc
               t == list[i]
               c == WithCoin(a, t)
               m == Len(a.list)
    <3>1. a \in Accounts /\ t \in Owned /\ t \in Range(list) BY <1>2, <2>2 DEF Results
    <3>2. a.list \in Seq(Owned) BY <3>1 DEF Accounts
    <3>3. /\ m = i - 1 /\ \A k \in 1..i - 1 : a.list[k] = list[k]
          /\ Agrees(a) /\ a.history = o.history /\ Range(a.list) \subseteq Range(list)
      BY <2>2, <2>4
    <3> HIDE DEF a
    <3>4. /\ c \in Results /\ c.acc.history = a.history /\ c.acc.list = Append(a.list, t)
          /\ c.ok <=> broken[t] # "id"
          /\ c.acc.map = IF broken[t] # "id" THEN a.map \cup {t} ELSE a.map
      <4> HIDE DEF t
      <4> QED BY <3>1, WithCoinIs
    <3> HIDE DEF c
    <3>5. DOMAIN a.list = 1..i - 1 BY <3>2, <3>3
    <3>6. Sound(t) => t \notin Range(a.list)
      <4> SUFFICES ASSUME NEW k \in 1..i - 1, Sound(t), a.list[k] = t PROVE FALSE BY <3>5 DEF Range
      <4>1. k \in 1..n /\ list[k] = list[i] /\ i \in 1..n BY <1>2, <3>3
      <4>2. k = i BY <1>3, <4>1
      <4> QED BY <4>2, <2>1
    <3>7. c.acc \in Accounts BY <3>4 DEF Results
    <3>8. Sound(t) => t \in Range(o.history) BY <1>3, <3>1
    <3>9. Sound(t) => t \in c.acc.map BY <3>4 DEF Sound
    <3>10. c.acc.map = a.map \/ c.acc.map = a.map \cup {t} BY <3>4
    <3>11. Agrees(c.acc)
      <4> HIDE DEF t
      <4>1. IsInjective(c.acc.history) /\ Range(a.history) \subseteq Range(c.acc.history)
            /\ (Sound(t) => t \in Range(c.acc.history))
        BY <1>1, <3>3, <3>4, <3>8
      <4> QED BY <3>1, <3>3, <3>4, <3>6, <3>7, <3>9, <3>10, <4>1, AgreesWithCoin
    <3>12. Len(c.acc.list) = i /\ \A k \in 1..i : c.acc.list[k] = list[k]
      <4>1. Len(Append(a.list, t)) = m + 1 /\ Append(a.list, t)[m + 1] = t
            /\ \A k \in 1..m : Append(a.list, t)[k] = a.list[k]
        BY <3>1, <3>2
      <4>2. m + 1 = i BY <2>1, <3>3
      <4> HIDE DEF m
      <4>3. Len(c.acc.list) = i /\ c.acc.list[i] = list[i] BY <3>4, <4>1, <4>2
      <4>4. \A k \in 1..i - 1 : c.acc.list[k] = list[k] BY <3>3, <3>4, <4>1
      <4> QED BY <2>1, <4>3, <4>4
    <3>13. Range(c.acc.list) \subseteq Range(list)
      <4>1. c.acc.list \in Seq(Owned) BY <3>7 DEF Accounts
      <4>2. DOMAIN c.acc.list = 1..i BY <3>12, <4>1
      <4>3. \A k \in 1..i : list[k] \in Range(list) BY <1>2
      <4> QED BY <3>12, <4>2, <4>3 DEF Range
    <3>14. c \in part(i) BY <3>3, <3>4, <3>11, <3>12, <3>13
    <3>15. c \in J[i] BY <2>1, <3>14
    <3> QED BY <2>4, <3>15 DEF c, a
  <2> QED BY <2>3, <2>4
<1>7. Loop(WithCoin, start, list) \in J[n]
  <2> HIDE DEF J
  <2> QED BY <1>2, <1>5, <1>6, CoinLoop DEF n
<1> DEFINE r == Imported(o)
<1>8. r \in part(n)
  <2>1. n \in 0..n BY <1>2
  <2>2. r = Loop(WithCoin, start, list) BY DEF Imported, start, list
  <2> QED BY <1>7, <2>1, <2>2
<1> HIDE DEF r
<1>9. r \in Results /\ Agrees(r.acc) /\ r.acc.history = o.history /\ Range(r.acc.list) \subseteq Range(list)
  BY <1>8
<1>10. LateOnly(r.acc) BY <1>0, <1>9 DEF LateOnly, list
<1> QED BY <1>9, <1>10 DEF Account, r

(* Every list is empty, and so everything holds of it.                     *)
LEMMA BlankAccount == Blank \in Accounts /\ Account(Blank)
<1>1. <<>> \in Seq(Trxs) /\ <<>> \in Seq(Owned) /\ {} \subseteq Owned OBVIOUS
<1>2. Blank \in Accounts /\ Blank.history = <<>> /\ Blank.list = <<>> /\ Blank.map = {}
  BY <1>1 DEF Blank, Accounts
<1>3. Range(<<>>) = {} /\ DOMAIN <<>> = {} /\ IsInjective(<<>>) BY DEF Range, IsInjective
<1>4. Agrees(Blank) /\ LateOnly(Blank) BY <1>2, <1>3 DEF Agrees, LateOnly
<1> QED BY <1>2, <1>4 DEF Account

(* A transaction more at the end of a history.                             *)
LEMMA LaterHistory ==
  ASSUME NEW s \in Seq(Trxs), NEW t \in Trxs, t \notin Range(s), IsInjective(s)
  PROVE  LET q == Append(s, t)
         IN /\ q \in Seq(Trxs) /\ IsInjective(q) /\ Range(q) = Range(s) \cup {t}
            /\ \A x, y : After(s, x, y) => After(q, x, y)
            /\ \A y \in Range(s) : After(q, t, y)
<1> DEFINE q == Append(s, t)
           m == Len(s)
<1>1. /\ q \in Seq(Trxs) /\ m \in Nat /\ DOMAIN s = 1..m /\ DOMAIN q = 1..m + 1 /\ q[m + 1] = t
      /\ \A k \in 1..m : q[k] = s[k]
  OBVIOUS
<1> HIDE DEF q, m
<1>2. 1..m + 1 = (1..m) \cup {m + 1} /\ 1..m \subseteq 1..m + 1 /\ m + 1 \in 1..m + 1 BY <1>1
<1>3. Range(q) = Range(s) \cup {t} BY <1>1, <1>2 DEF Range
<1>4. IsInjective(q)
  <2>1. \A j, k \in 1..m : s[j] = s[k] => j = k BY <1>1 DEF IsInjective
  <2>2. \A k \in 1..m : s[k] # t BY <1>1 DEF Range
  <2>3. ASSUME NEW j \in 1..m + 1, NEW k \in 1..m + 1, q[j] = q[k] PROVE j = k
    <3>1. (j \in 1..m \/ j = m + 1) /\ (k \in 1..m \/ k = m + 1) BY <1>2
    <3> QED BY <1>1, <2>1, <2>2, <2>3, <3>1
  <2> QED BY <1>1, <2>3 DEF IsInjective
<1>5. ASSUME NEW x, NEW y, After(s, x, y) PROVE After(q, x, y)
  <2>1. PICK j \in 1..m, k \in 1..m : s[j] = y /\ s[k] = x /\ j < k BY <1>1, <1>5 DEF After
  <2>2. j \in DOMAIN q /\ k \in DOMAIN q /\ q[j] = y /\ q[k] = x BY <1>1, <1>2, <2>1
  <2> QED BY <2>1, <2>2 DEF After
<1>6. ASSUME NEW y \in Range(s) PROVE After(q, t, y)
  <2>1. PICK j \in 1..m : s[j] = y BY <1>1 DEF Range
  <2>2. j \in DOMAIN q /\ m + 1 \in DOMAIN q /\ q[j] = y /\ q[m + 1] = t /\ j < m + 1 BY <1>1, <1>2, <2>1
  <2> QED BY <2>2 DEF After
<1> QED BY <1>1, <1>3, <1>4, <1>5, <1>6 DEF q

(* A spender at the end of the history spends nothing that is still listed,*)
(* and its own coin came after every spender before it.                    *)
LEMMA LateOnlyLonger ==
  ASSUME NEW a, LateOnly(a), a.history \in Seq(Trxs), IsInjective(a.history),
         NEW t \in Trxs, t \notin Range(a.history),
         NEW c, Agrees(c), Range(c.list) \subseteq Range(a.list), c.map = a.map \ Range(Spends[t]),
         NEW b, Range(b.list) \subseteq Range(c.list) \cup {t}, b.history = Append(a.history, t)
  PROVE  LateOnly(b)
<1> SUFFICES ASSUME NEW x \in Range(b.list), NEW s \in Range(b.history),
                    x \in Range(Spends[s]), broken[x] = "none"
             PROVE  After(b.history, x, s)
  BY DEF LateOnly
<1> DEFINE q == Append(a.history, t)
<1>1. /\ Range(q) = Range(a.history) \cup {t}
      /\ \A y, z : After(a.history, y, z) => After(q, y, z)
      /\ \A z \in Range(a.history) : After(q, t, z)
  BY LaterHistory
<1> HIDE DEF q
<1>2. b.history = q BY DEF q
<1>3. s \in Range(a.history) \/ s = t BY <1>1, <1>2
<1>4. x \in Range(c.list) \/ x = t OBVIOUS
<1>5. t \notin Range(Spends[t]) BY WalletAssumption
<1>6. CASE x = t
  <2>1. s \in Range(a.history) BY <1>3, <1>5, <1>6
  <2> QED BY <1>1, <1>2, <1>6, <2>1
<1>7. CASE x \in Range(c.list)
  <2>1. x \in c.map BY <1>7 DEF Agrees, Sound
  <2>2. s # t BY <2>1
  <2>3. s \in Range(a.history) /\ x \in Range(a.list) BY <1>3, <1>7, <2>2
  <2>4. After(a.history, x, s) BY <2>3 DEF LateOnly
  <2> QED BY <1>1, <1>2, <2>4
<1> QED BY <1>4, <1>6, <1>7

LEMMA WithHistoryIs ==
  ASSUME NEW a \in Accounts, NEW t \in Trxs
  PROVE  LET r == WithHistory(a, t)
         IN /\ r \in Results /\ r.acc.list = a.list /\ r.acc.map = a.map
            /\ r.ok <=> broken[t] # "copy"
            /\ r.acc.history = IF broken[t] # "copy" THEN Append(a.history, t) ELSE a.history
<1> DEFINE c == [a EXCEPT !.history = Append(@, t)]
<1>1. a.history \in Seq(Trxs) BY DEF Accounts
<1>2. Append(a.history, t) \in Seq(Trxs) BY <1>1
<1>3. c \in Accounts /\ c.history = Append(a.history, t) /\ c.list = a.list /\ c.map = a.map
  BY <1>2 DEF Accounts
<1>4. WithHistory(a, t) = IF broken[t] = "copy" THEN [acc |-> a, ok |-> FALSE] ELSE [acc |-> c, ok |-> TRUE]
  BY DEF WithHistory, Thrown, Fine
<1> HIDE DEF c
<1>5. CASE broken[t] = "copy"
  <2>1. WithHistory(a, t) = [acc |-> a, ok |-> FALSE] BY <1>4, <1>5
  <2> QED BY <1>5, <2>1 DEF Results
<1>6. CASE broken[t] # "copy"
  <2>1. WithHistory(a, t) = [acc |-> c, ok |-> TRUE] BY <1>4, <1>6
  <2> QED BY <1>3, <1>6, <2>1 DEF Results
<1> QED BY <1>5, <1>6

(* What addTransaction returns for an account that agrees.                 *)
Added(r, a, t) ==
  /\ r \in Results /\ Account(r.acc) /\ Range(a.history) \subseteq Range(r.acc.history)
  /\ r.ok /\ t \in Owned => t \in Range(r.acc.history)

LEMMA AddTransactionKeeps ==
  ASSUME NEW a, Account(a), NEW t \in Trxs
  PROVE  Added(AddTransaction(a, t), a, t)
<1> DEFINE spends == Spends[t]
           c == Loop(WithoutCoin, a, spends).acc
           r == AddTransaction(a, t)
<1>0. Agrees(a) /\ LateOnly(a) BY DEF Account
<1>1. a \in Accounts /\ a.history \in Seq(Trxs) /\ IsInjective(a.history) BY <1>0 DEF Agrees, Accounts
<1>2. CASE Known(a, t)
  <2>1. r = [acc |-> a, ok |-> TRUE] BY <1>2 DEF AddTransaction, Fine
  <2> QED BY <1>1, <1>2, <2>1 DEF Added, Known, Results
<1>3. CASE ~Known(a, t)
  <2>1. spends \in Seq(Owned) BY WalletAssumption
  <2>2. /\ Agrees(c) /\ c.history = a.history /\ c.map = a.map \ Range(spends)
        /\ Range(c.list) \subseteq Range(a.list)
    <3> HIDE DEF spends
    <3> QED BY <1>0, <2>1, SpendKeeps
  <2>3. LateOnly(c) BY <1>0, <2>2 DEF LateOnly
  <2>4. c \in Accounts BY <2>2 DEF Agrees
  <2>5. t \notin Range(a.history) BY <1>3 DEF Known
  <2> DEFINE q == Append(a.history, t)
  <2>6. q \in Seq(Trxs) /\ IsInjective(q) /\ Range(q) = Range(a.history) \cup {t}
    BY <1>1, <2>5, LaterHistory
  <2> HIDE DEF q
  <2>7. CASE broken[t] = "address"
    <3>1. r = [acc |-> c, ok |-> FALSE] BY <1>3, <2>7 DEF AddTransaction, Thrown
    <3> HIDE DEF c
    <3> QED BY <2>2, <2>3, <2>4, <3>1 DEF Added, Results, Account
  <2>8. CASE broken[t] # "address" /\ t \notin Owned
    <3>1. r = [acc |-> c, ok |-> TRUE] \/ r = WithHistory(c, t)
      BY <1>3, <2>8 DEF AddTransaction, Fine
    <3>2. CASE r = [acc |-> c, ok |-> TRUE]
      <4> HIDE DEF c, r
      <4> QED BY <2>2, <2>3, <2>4, <2>8, <3>2 DEF Added, Results, Account, r
    <3>3. CASE r = WithHistory(c, t)
      <4> HIDE DEF c
      <4>1. /\ r \in Results /\ r.acc.list = c.list /\ r.acc.map = c.map
            /\ r.acc.history = IF broken[t] # "copy" THEN q ELSE a.history
        BY <2>2, <2>4, <3>3, WithHistoryIs DEF q
      <4> HIDE DEF r
      <4>2. r.acc \in Accounts BY <4>1 DEF Results
      <4>3. IsInjective(r.acc.history) /\ Range(a.history) \subseteq Range(r.acc.history) BY <1>1, <2>6, <4>1
      <4>4. Agrees(r.acc) BY <2>2, <4>1, <4>2, <4>3 DEF Agrees
      <4>5. LateOnly(r.acc)
        <5>1. CASE broken[t] # "copy"
          <6>1. r.acc.history = Append(a.history, t) BY <4>1, <5>1 DEF q
          <6>2. Range(r.acc.list) \subseteq Range(c.list) \cup {t} BY <4>1
          <6> QED BY <1>0, <1>1, <2>2, <2>5, <6>1, <6>2, LateOnlyLonger
        <5>2. CASE broken[t] = "copy" BY <2>2, <2>3, <4>1, <5>2 DEF LateOnly
        <5> QED BY <5>1, <5>2
      <4> QED BY <2>8, <4>1, <4>3, <4>4, <4>5 DEF Added, Account, r
    <3> QED BY <3>1, <3>2, <3>3
  <2>9. CASE broken[t] # "address" /\ t \in Owned
    <3> DEFINE p == WithCoin(c, t)
    <3>1. /\ p \in Results /\ p.acc.history = c.history /\ p.acc.list = Append(c.list, t)
          /\ p.ok <=> broken[t] # "id"
          /\ p.acc.map = IF broken[t] # "id" THEN c.map \cup {t} ELSE c.map
      <4> HIDE DEF c
      <4> QED BY <2>4, <2>9, WithCoinIs
    <3>2. r = IF p.ok THEN WithHistory(p.acc, t) ELSE p BY <1>3, <2>9 DEF AddTransaction
    <3> HIDE DEF c, p, r
    <3>3. p.acc \in Accounts BY <3>1 DEF Results
    <3>4. /\ r \in Results /\ r.acc.list = Append(c.list, t)
          /\ r.acc.map = IF broken[t] # "id" THEN c.map \cup {t} ELSE c.map
          /\ r.ok <=> broken[t] \notin {"id", "copy"}
          /\ r.acc.history = IF broken[t] \notin {"id", "copy"} THEN q ELSE a.history
      <4>1. CASE broken[t] = "id"
        <5>1. ~p.ok /\ r = p BY <3>1, <3>2, <4>1
        <5> QED BY <2>2, <3>1, <4>1, <5>1
      <4>2. CASE broken[t] # "id"
        <5>1. p.ok /\ r = WithHistory(p.acc, t) BY <3>1, <3>2, <4>2
        <5>2. /\ r \in Results /\ r.acc.list = p.acc.list /\ r.acc.map = p.acc.map
              /\ r.ok <=> broken[t] # "copy"
              /\ r.acc.history = IF broken[t] # "copy" THEN Append(p.acc.history, t) ELSE p.acc.history
          BY <3>3, <5>1, WithHistoryIs
        <5>3. p.acc.history = a.history BY <2>2, <3>1
        <5> QED BY <3>1, <4>2, <5>2, <5>3 DEF q
      <4> QED BY <4>1, <4>2
    <3>5. r.acc \in Accounts BY <3>4 DEF Results
    <3>6. IsInjective(r.acc.history) /\ Range(a.history) \subseteq Range(r.acc.history) BY <1>1, <2>6, <3>4
    <3>7. Sound(t) => t \notin Range(c.list) BY <2>2, <2>5 DEF Agrees
    <3>8. Sound(t) => t \in Range(r.acc.history) /\ t \in r.acc.map BY <2>6, <3>4 DEF Sound
    <3>9. r.acc.map = c.map \/ r.acc.map = c.map \cup {t} BY <3>4
    <3>10. Agrees(r.acc) BY <2>2, <2>9, <3>4, <3>5, <3>6, <3>7, <3>8, <3>9, AgreesWithCoin
    <3>11. Range(r.acc.list) = Range(c.list) \cup {t}
      <4>1. c.list \in Seq(Owned) BY <2>4 DEF Accounts
      <4> DEFINE m == Len(c.list)
                 e == Append(c.list, t)
      <4>2. /\ m \in Nat /\ DOMAIN c.list = 1..m /\ DOMAIN e = 1..m + 1 /\ e[m + 1] = t
            /\ \A k \in 1..m : e[k] = c.list[k]
        BY <4>1
      <4> HIDE DEF m, e
      <4>3. 1..m + 1 = (1..m) \cup {m + 1} BY <4>2
      <4>4. Range(e) = Range(c.list) \cup {t} BY <4>2, <4>3 DEF Range
      <4> QED BY <3>4, <4>4 DEF e
    <3>12. LateOnly(r.acc)
      <4>1. CASE broken[t] \notin {"id", "copy"}
        <5>1. r.acc.history = Append(a.history, t) BY <3>4, <4>1 DEF q
        <5> QED BY <1>0, <1>1, <2>2, <2>5, <3>11, <5>1, LateOnlyLonger
      <4>2. CASE broken[t] \in {"id", "copy"}
        <5>1. r.acc.history = c.history BY <2>2, <3>4, <4>2
        <5> QED BY <2>3, <3>11, <4>2, <5>1 DEF LateOnly
      <4> QED BY <4>1, <4>2
    <3>13. r.ok => t \in Range(r.acc.history) BY <2>6, <3>4
    <3> QED BY <3>4, <3>6, <3>10, <3>12, <3>13 DEF Added, Account, r
  <2> QED BY <2>7, <2>8, <2>9
<1> QED BY <1>2, <1>3

(* What a chain of such calls returns: an account that agrees and forgot   *)
(* nothing.                                                                *)
Grown(r, a) ==
  r \in Results /\ Account(r.acc) /\ Range(a.history) \subseteq Range(r.acc.history)

LEMMA AddFilteredKeeps ==
  ASSUME NEW a, Account(a), NEW t \in Trxs
  PROVE  Grown(AddFiltered(a, t), a)
<1>1. a \in Accounts BY DEF Account, Agrees
<1>2. \/ AddFiltered(a, t) = AddTransaction(a, t)
      \/ AddFiltered(a, t) = [acc |-> a, ok |-> FALSE]
      \/ AddFiltered(a, t) = [acc |-> a, ok |-> TRUE]
  BY DEF AddFiltered, Thrown, Fine
<1>3. CASE AddFiltered(a, t) = AddTransaction(a, t) BY <1>3, AddTransactionKeeps DEF Added, Grown
<1>4. CASE AddFiltered(a, t) = [acc |-> a, ok |-> FALSE] BY <1>1, <1>4 DEF Grown, Results
<1>5. CASE AddFiltered(a, t) = [acc |-> a, ok |-> TRUE] BY <1>1, <1>5 DEF Grown, Results
<1> QED BY <1>2, <1>3, <1>4, <1>5

LEMMA FilterLoopKeeps ==
  ASSUME NEW a, Account(a), NEW list \in Seq(Trxs)
  PROVE  Grown(Loop(AddFiltered, a, list), a)
<1> DEFINE n == Len(list)
           part == {r \in Results : Grown(r, a)}
           J == [i \in 0..n |-> part]
<1>1. n \in Nat /\ \A k \in 1..n : list[k] \in Trxs OBVIOUS
<1>2. Fine(a) \in J[0]
  <2>1. a \in Accounts BY DEF Account, Agrees
  <2>2. [acc |-> a, ok |-> TRUE] \in part BY <2>1 DEF Grown, Results
  <2>3. 0 \in 0..n BY <1>1
  <2> QED BY <2>2, <2>3 DEF Fine
<1>3. ASSUME NEW i \in 1..n, NEW r \in J[i - 1]
      PROVE  (IF r.ok THEN AddFiltered(r.acc, list[i]) ELSE r) \in J[i]
  <2>1. i \in 0..n /\ i - 1 \in 0..n BY <1>1
  <2>2. r \in Results /\ Grown(r, a) BY <2>1
  <2>3. Grown(AddFiltered(r.acc, list[i]), r.acc) BY <1>1, <2>2, AddFilteredKeeps DEF Grown
  <2>4. AddFiltered(r.acc, list[i]) \in part BY <2>2, <2>3 DEF Grown
  <2> QED BY <2>1, <2>2, <2>4
<1>4. Loop(AddFiltered, a, list) \in J[n]
  <2> HIDE DEF J
  <2> QED BY <1>1, <1>2, <1>3, FilterLoop
<1>5. n \in 0..n BY <1>1
<1> QED BY <1>4, <1>5

LEMMA AddLoopKeeps ==
  ASSUME NEW a, Account(a), NEW list \in Seq(Trxs)
  PROVE  LET r == Loop(AddTransaction, a, list)
         IN Grown(r, a) /\ (r.ok => Range(list) \cap Owned \subseteq Range(r.acc.history))
<1> DEFINE n == Len(list)
           part(i) == {r \in Results : /\ Grown(r, a)
                                       /\ r.ok => \A k \in 1..i : list[k] \in Owned => list[k] \in Range(r.acc.history)}
           J == [i \in 0..n |-> part(i)]
<1>1. n \in Nat /\ DOMAIN list = 1..n /\ \A k \in 1..n : list[k] \in Trxs OBVIOUS
<1>2. Fine(a) \in J[0]
  <2>1. a \in Accounts BY DEF Account, Agrees
  <2>2. [acc |-> a, ok |-> TRUE] \in part(0)
    <3> DEFINE r == [acc |-> a, ok |-> TRUE]
    <3>1. r \in Results /\ Grown(r, a) BY <2>1 DEF Grown, Results
    <3>2. 1..0 = {} OBVIOUS
    <3> HIDE DEF r
    <3>3. r \in part(0) BY <3>1, <3>2
    <3> QED BY <3>3 DEF r
  <2>3. 0 \in 0..n BY <1>1
  <2> QED BY <2>2, <2>3 DEF Fine
<1>3. ASSUME NEW i \in 1..n, NEW r \in J[i - 1]
      PROVE  (IF r.ok THEN AddTransaction(r.acc, list[i]) ELSE r) \in J[i]
  <2>1. i \in 0..n /\ i - 1 \in 0..n /\ 1..i = (1..i - 1) \cup {i} BY <1>1
  <2>2. /\ r \in Results /\ Grown(r, a)
        /\ r.ok => \A k \in 1..i - 1 : list[k] \in Owned => list[k] \in Range(r.acc.history)
    BY <2>1
  <2>3. CASE ~r.ok
    <3>1. r \in part(i) BY <2>2, <2>3
    <3> QED BY <2>1, <2>3, <3>1
  <2>4. CASE r.ok
    <3> DEFINE c == AddTransaction(r.acc, list[i])
    <3>1. Added(c, r.acc, list[i]) BY <1>1, <2>2, AddTransactionKeeps DEF Grown
    <3> HIDE DEF c
    <3>2. Grown(c, a) BY <2>2, <3>1 DEF Grown, Added
    <3>3. c.ok => \A k \in 1..i : list[k] \in Owned => list[k] \in Range(c.acc.history)
      BY <2>1, <2>2, <2>4, <3>1 DEF Added
    <3>4. c \in part(i) BY <3>2, <3>3 DEF Grown
    <3>5. c \in J[i] BY <2>1, <3>4
    <3> QED BY <2>4, <3>5 DEF c
  <2> QED BY <2>3, <2>4
<1>4. Loop(AddTransaction, a, list) \in J[n]
  <2> HIDE DEF J
  <2> QED BY <1>1, <1>2, <1>3, AddLoop
<1>5. Loop(AddTransaction, a, list) \in part(n)
  <2>1. n \in 0..n BY <1>1
  <2> QED BY <1>4, <2>1
<1> HIDE DEF n
<1> QED BY <1>1, <1>5 DEF Range

(* The account of the pool: everything the account below knows, and every  *)
(* payment to the wallet in the pool.                                      *)
LEMMA PoolOnKeeps ==
  ASSUME NEW below, Account(below), NEW ids \in Seq(Trxs)
  PROVE  LET r == PoolOn(below, ids)
         IN /\ r \in Results /\ Account(r.acc)
            /\ r.ok => Range(below.history) \cup (Range(ids) \cap Owned) \subseteq Range(r.acc.history)
<1> DEFINE b == Imported(below)
           rest == Without(ids, Range(below.history))
           r == PoolOn(below, ids)
<1>1. b \in Results /\ Account(b.acc) /\ b.acc.history = below.history BY ImportedKeeps
<1>2. rest \in Seq(Trxs) /\ Range(rest) = Range(ids) \ Range(below.history) BY WithoutIs
<1>3. r = IF b.ok THEN Loop(AddTransaction, b.acc, rest) ELSE b BY DEF PoolOn, Then
<1> HIDE DEF b, rest, r
<1>4. CASE ~b.ok BY <1>1, <1>3, <1>4 DEF r
<1>5. CASE b.ok
  <2>1. Grown(r, b.acc) /\ (r.ok => Range(rest) \cap Owned \subseteq Range(r.acc.history))
    BY <1>1, <1>2, <1>3, <1>5, AddLoopKeeps
  <2>2. r.ok => Range(below.history) \cup (Range(ids) \cap Owned) \subseteq Range(r.acc.history)
    BY <1>1, <1>2, <2>1 DEF Grown
  <2> QED BY <2>1, <2>2 DEF Grown, r
<1> QED BY <1>4, <1>5

-----------------------------------------------------------------------------
(* The pool and the groups of transactions.                                *)
(* Two lists without duplicates that share nothing, and a transaction in   *)
(* between: still no duplicates.                                           *)
LEMMA InOrderKeeps ==
  ASSUME NEW ids \in Seq(Trxs), IsInjective(ids), NEW t \in Trxs
  PROVE  /\ InOrder(ids, t) \in Seq(Trxs) /\ IsInjective(InOrder(ids, t))
         /\ Range(InOrder(ids, t)) = Range(ids) \cup {t}
<1>1. CASE t \in Range(ids) BY <1>1 DEF InOrder
<1>2. CASE t \notin Range(ids)
  <2> DEFINE later == {u \in Trxs : Timestamp[u] > Timestamp[t]}
             p == Without(ids, later)
             s == Without(ids, Trxs \ later)
             a == Append(p, t)
             m == Len(p)
             n == Len(s)
             q == p \o <<t>> \o s
  <2>1. /\ p \in Seq(Trxs) /\ IsInjective(p) /\ Range(p) = Range(ids) \ later
        /\ s \in Seq(Trxs) /\ IsInjective(s) /\ Range(s) = Range(ids) \ (Trxs \ later)
    BY WithoutIs
  <2>2. InOrder(ids, t) = q BY <1>2 DEF InOrder
  <2> HIDE DEF p, s, later
  <2>3. Range(ids) \subseteq Trxs BY DEF Range
  <2>4. Range(p) \cap Range(s) = {} /\ Range(p) \cup Range(s) = Range(ids) BY <2>1, <2>3
  <2>5. /\ m \in Nat /\ n \in Nat /\ DOMAIN p = 1..m /\ DOMAIN s = 1..n /\ p \o <<t>> = a
        /\ a \in Seq(Trxs) /\ Len(a) = m + 1 /\ a[m + 1] = t /\ \A k \in 1..m : a[k] = p[k]
    BY <2>1
  <2> HIDE DEF a, m, n
  <2>6. /\ q \in Seq(Trxs) /\ Len(q) = m + 1 + n
        /\ \A k \in 1..m + 1 : q[k] = a[k]
        /\ \A k \in m + 2..m + 1 + n : q[k] = s[k - (m + 1)]
    <3>1. q = a \o s BY <2>5
    <3>2. Len(s) = n BY DEF n
    <3>3. a \o s \in Seq(Trxs) /\ Len(a \o s) = m + 1 + n
      <4>0. a \in Seq(Trxs) /\ s \in Seq(Trxs) BY <2>1, <2>5
      <4>1. a \o s \in Seq(Trxs) BY <4>0, ConcatProperties
      <4>2. Len(a \o s) = Len(a) + Len(s) BY <4>0, ConcatProperties
      <4> QED BY <2>5, <3>2, <4>1, <4>2
    <3>4. \A k \in 1..m + 1 : (a \o s)[k] = a[k] BY <2>1, <2>5, <3>2, <3>3, ConcatProperties
    <3>5. \A k \in m + 2..m + 1 + n : (a \o s)[k] = s[k - (m + 1)] BY <2>1, <2>5, <3>2, <3>3, ConcatProperties
    <3> QED BY <3>1, <3>3, <3>4, <3>5
  <2> HIDE DEF q
  <2>7. DOMAIN q = 1..m + 1 + n BY <2>5, <2>6
  <2> DEFINE first(k) == k \in 1..m
             last3(k) == k - (m + 1) \in 1..n
  <2>8. \A k \in DOMAIN q : k \in Nat /\ (first(k) \/ k = m + 1 \/ last3(k)) BY <2>5, <2>7
  <2>9. \A k \in DOMAIN q : first(k) => q[k] = p[k] /\ q[k] \in Range(p)
    <3> SUFFICES ASSUME NEW k \in DOMAIN q, first(k) PROVE q[k] = p[k] /\ p[k] \in Range(p) OBVIOUS
    <3>1. p[k] \in Range(p) BY <2>5 DEF Range
    <3>2. k \in 1..m + 1 BY <2>5
    <3> QED BY <2>5, <2>6, <3>1, <3>2
  <2>10. q[m + 1] = t BY <2>5, <2>6
  <2>11. \A k \in DOMAIN q : last3(k) => q[k] = s[k - (m + 1)] /\ q[k] \in Range(s)
    <3> SUFFICES ASSUME NEW k \in DOMAIN q, last3(k)
                 PROVE q[k] = s[k - (m + 1)] /\ s[k - (m + 1)] \in Range(s) OBVIOUS
    <3>1. s[k - (m + 1)] \in Range(s) BY <2>5 DEF Range
    <3>2. k \in m + 2..m + 1 + n BY <2>5, <2>8
    <3> QED BY <2>6, <3>1, <3>2
  <2>12. Range(q) = Range(ids) \cup {t}
    <3>1. \A k \in DOMAIN q : q[k] \in Range(ids) \cup {t} BY <2>4, <2>8, <2>9, <2>10, <2>11
    <3>2. \A k \in 1..m : p[k] \in Range(q)
      <4> SUFFICES ASSUME NEW k \in 1..m PROVE p[k] \in Range(q) OBVIOUS
      <4>1. k \in DOMAIN q BY <2>5, <2>7
      <4> QED BY <2>9, <4>1 DEF Range
    <3>3. \A k \in 1..n : s[k] \in Range(q)
      <4> SUFFICES ASSUME NEW k \in 1..n PROVE s[k] \in Range(q) OBVIOUS
      <4>1. k + (m + 1) \in DOMAIN q /\ (k + (m + 1)) - (m + 1) = k BY <2>5, <2>7
      <4>2. q[k + (m + 1)] = s[k] BY <2>11, <4>1
      <4> QED BY <4>1, <4>2 DEF Range
    <3>4. m + 1 \in DOMAIN q BY <2>5, <2>7
    <3>5. t \in Range(q) BY <2>10, <3>4 DEF Range
    <3>6. Range(p) \subseteq Range(q) BY <2>5, <3>2 DEF Range
    <3>7. Range(s) \subseteq Range(q) BY <2>5, <3>3 DEF Range
    <3>8. Range(q) \subseteq Range(ids) \cup {t} BY <3>1 DEF Range
    <3> QED BY <2>4, <3>5, <3>6, <3>7, <3>8
  <2>13. ASSUME NEW j \in DOMAIN q, NEW k \in DOMAIN q, q[j] = q[k] PROVE j = k
    <3>0. \A x, y \in 1..m : p[x] = p[y] => x = y BY <2>1, <2>5 DEF IsInjective
    <3>1. \A x, y \in 1..n : s[x] = s[y] => x = y BY <2>1, <2>5 DEF IsInjective
    <3>2. j \in Nat /\ k \in Nat BY <2>8
    <3>3. CASE first(j)
      <4>1. q[j] = p[j] /\ q[j] \in Range(p) BY <2>9, <3>3
      <4>2. first(k)
        <5>1. k # m + 1 BY <1>2, <2>4, <2>10, <2>13, <4>1
        <5>2. ~last3(k) BY <2>4, <2>11, <2>13, <4>1
        <5> QED BY <2>8, <5>1, <5>2
      <4>3. q[k] = p[k] BY <2>9, <4>2
      <4> QED BY <2>13, <3>0, <3>3, <4>1, <4>2, <4>3
    <3>4. CASE last3(j)
      <4>1. q[j] = s[j - (m + 1)] /\ q[j] \in Range(s) BY <2>11, <3>4
      <4>2. last3(k)
        <5>1. k # m + 1 BY <1>2, <2>4, <2>10, <2>13, <4>1
        <5>2. ~first(k) BY <2>4, <2>9, <2>13, <4>1
        <5> QED BY <2>8, <5>1, <5>2
      <4>3. q[k] = s[k - (m + 1)] BY <2>11, <4>2
      <4>4. j - (m + 1) = k - (m + 1) BY <2>13, <3>1, <3>4, <4>1, <4>2, <4>3
      <4> QED BY <2>5, <3>2, <4>4
    <3>5. CASE j = m + 1
      <4>1. q[k] = t BY <2>10, <2>13, <3>5
      <4>2. ~first(k) BY <1>2, <2>4, <2>9, <4>1
      <4>3. ~last3(k) BY <1>2, <2>4, <2>11, <4>1
      <4> QED BY <2>8, <3>5, <4>2, <4>3
    <3> QED BY <2>8, <3>3, <3>4, <3>5
  <2>14. IsInjective(q) BY <2>13 DEF IsInjective
  <2> QED BY <2>2, <2>6, <2>12, <2>14
<1> QED BY <1>1, <1>2

-----------------------------------------------------------------------------
(* The wallet as a whole.                                                  *)
LEMMA ScenarioIs ==
  ASSUME WalletInv
  PROVE  /\ scenario.headers \subseteq Headers /\ scenario.sent \subseteq Headers
         /\ scenario.trxs \subseteq Trxs /\ settled \in Seq(Trxs)
         /\ \A l \in Layers : account[l] \in Accounts /\ Account(account[l])
<1>1. scenario \in Scenarios BY DEF WalletInv, HeaderInv, HeadersKnown
<1> QED BY <1>1, WalletAssumption DEF WalletInv, AccountsKept, settled

(* ___buildFinalizedManagementAccount.                                     *)
LEMMA FinalizedKeeps ==
  ASSUME WalletInv
  PROVE  BuiltFinalized \in Results /\ Account(BuiltFinalized.acc)
<1> DEFINE a == account["finalized"]
<1>1. a \in Accounts /\ Account(a) BY ScenarioIs DEF Layers
<1>2. CASE works.wallet
  <2>1. BuiltFinalized = Loop(AddFiltered, a, settled) BY <1>2 DEF BuiltFinalized
  <2> HIDE DEF a
  <2> QED BY <1>1, <2>1, ScenarioIs, FilterLoopKeeps DEF Grown
<1>3. CASE ~works.wallet
  <2>1. BuiltFinalized = [acc |-> a, ok |-> TRUE] BY <1>3 DEF BuiltFinalized, Fine
  <2> HIDE DEF a
  <2> QED BY <1>1, <2>1 DEF Results
<1> QED BY <1>2, <1>3

(* __buildManagementAccount4Header.                                        *)
LEMMA HeadOnKeeps ==
  ASSUME WalletInv, head \in Headers, NEW a, Account(a)
  PROVE  Grown(HeadOn(a), a)
<1>1. a \in Accounts BY DEF Account, Agrees
<1>2. CASE ~works.wallet
  <2>1. HeadOn(a) = [acc |-> a, ok |-> TRUE] BY <1>2 DEF HeadOn, Fine
  <2> QED BY <1>1, <2>1 DEF Grown, Results
<1>3. CASE works.wallet /\ groups[head] = NoGroup
  <2>1. HeadOn(a) = [acc |-> a, ok |-> FALSE] BY <1>3 DEF HeadOn, Thrown
  <2> QED BY <1>1, <2>1 DEF Grown, Results
<1>4. CASE works.wallet /\ groups[head] # NoGroup
  <2>1. HeadOn(a) = Loop(AddFiltered, a, groups[head]) BY <1>4 DEF HeadOn
  <2>2. groups[head] \in Seq(Trxs) BY <1>4 DEF WalletInv, Parcels
  <2> QED BY <2>1, <2>2, FilterLoopKeeps
<1> QED BY <1>2, <1>3, <1>4

(* __buildUnfinalizedAccount.                                              *)
LEMMA UnfinalizedKeeps ==
  ASSUME WalletInv, NEW below, Account(below)
  PROVE  LET r == BuiltUnfinalized(below)
         IN /\ r \in Results /\ Account(r.acc)
            /\ r.ok => Range(below.history) \subseteq Range(r.acc.history)
<1> DEFINE b == Imported(below)
           r == BuiltUnfinalized(below)
<1>1. b \in Results /\ Account(b.acc) /\ b.acc.history = below.history BY ImportedKeeps
<1>2. b.acc \in Accounts BY <1>1 DEF Results
<1>3. r = IF b.ok THEN IF head = NoHeader THEN [acc |-> b.acc, ok |-> FALSE]
                       ELSE IF finalizedHeight = 0 THEN HeadOn(b.acc) ELSE [acc |-> b.acc, ok |-> TRUE]
          ELSE b
  BY DEF BuiltUnfinalized, Then, Thrown, Fine
<1> HIDE DEF b, r
<1>4. CASE r = HeadOn(b.acc) /\ head # NoHeader
  <2>1. head \in Headers BY <1>4 DEF WalletInv, HeaderInv, WalkKnown
  <2>2. Grown(r, b.acc) BY <1>1, <1>4, <2>1, HeadOnKeeps
  <2> QED BY <1>1, <2>2 DEF Grown, r
<1>5. CASE r = b BY <1>1, <1>5 DEF r
<1>6. ASSUME NEW ok \in BOOLEAN, r = [acc |-> b.acc, ok |-> ok]
      PROVE  r \in Results /\ r.acc = b.acc
  BY <1>2, <1>6 DEF Results
<1>7. CASE r = [acc |-> b.acc, ok |-> FALSE] \/ r = [acc |-> b.acc, ok |-> TRUE]
  <2>1. r \in Results /\ r.acc = b.acc BY <1>6, <1>7
  <2> QED BY <1>1, <2>1 DEF r
<1> QED BY <1>3, <1>4, <1>5, <1>7

(* putTransaction keeps the two trees as much as its writes arrive.        *)
LEMMA PutKeeps ==
  ASSUME PoolKept, NEW t \in Trxs, t \notin stored, PutTransaction(t)
  PROVE  PoolKept'
<1>1. /\ stored \subseteq Trxs /\ failed \subseteq Trxs /\ order \in Seq(Trxs) /\ IsInjective(order)
      /\ Range(order) \subseteq stored /\ stored \ Range(order) \subseteq failed
  BY DEF PoolKept, PoolOrdered
<1>2. CASE stored' = stored \cup {t} /\ order' = InOrder(order, t) /\ UNCHANGED failed
  <2>1. order' \in Seq(Trxs) /\ IsInjective(order') /\ Range(order') = Range(order) \cup {t}
    BY <1>1, <1>2, InOrderKeeps
  <2> QED BY <1>1, <1>2, <2>1 DEF PoolKept, PoolOrdered
<1>3. CASE stored' = stored \cup {t} /\ order' = order /\ failed' = failed \cup {t}
  BY <1>1, <1>3 DEF PoolKept, PoolOrdered
<1>4. CASE UNCHANGED <<stored, order>> /\ failed' = failed \cup {t}
  BY <1>1, <1>4 DEF PoolKept, PoolOrdered
<1> QED BY <1>2, <1>3, <1>4 DEF PutTransaction

LEMMA AccountsNext ==
  ASSUME scenario' = scenario, account' \in [Layers -> Accounts],
         \A l \in Layers : Account(account'[l])
  PROVE  AccountsKept'
<1> SUFFICES ASSUME NEW l \in Layers PROVE Account(account[l])' BY DEF AccountsKept
<1>1. Account(account'[l]) OBVIOUS
<1> QED BY <1>1 DEF Account, Agrees, LateOnly, Sound, broken

LEMMA WalletInit == Init => WalletInv
<1> SUFFICES ASSUME Init PROVE WalletInv OBVIOUS
<1>1. HeaderInv BY HeaderInit
<1>2. Parcels BY DEF Init, Parcels
<1>3. PoolKept
  <2>1. Range(<<>>) = {} /\ IsInjective(<<>>) /\ <<>> \in Seq(Trxs) BY DEF Range, IsInjective
  <2> QED BY <2>1 DEF Init, PoolKept, PoolOrdered
<1>4. AccountsKept BY BlankAccount DEF Init, AccountsKept
<1>5. Layered BY DEF Init, Layered
<1> QED BY <1>1, <1>2, <1>3, <1>4, <1>5 DEF WalletInv

(* A method that touches neither the pool nor the accounts, and ends as    *)
(* one of the others.                                                      *)
LEMMA OthersKeep ==
  ASSUME WalletInv, HeaderInv', Parcels', UNCHANGED <<scenario, pool, account>>,
         last'.method = "other" \/ UNCHANGED last
  PROVE  WalletInv'
<1>1. PoolKept' BY DEF WalletInv, PoolKept, PoolOrdered, pool
<1>2. AccountsKept' BY DEF WalletInv, AccountsKept, Account, Agrees, LateOnly, Sound, broken
<1>3. Layered'
  <2>1. CASE last'.method = "other" BY <2>1 DEF Layered
  <2>2. CASE UNCHANGED last BY <2>2 DEF WalletInv, Layered, works, pool
  <2> QED BY <2>1, <2>2
<1> QED BY <1>1, <1>2, <1>3 DEF WalletInv

(* A header arrives with transactions, which join those it had.            *)
LEMMA AddHeaderKeeps ==
  ASSUME WalletInv, NEW h \in Headers, NEW list \in {<<>>, Body[h]}, AddHeader(h, list)
  PROVE  Parcels'
<1>1. groups \in [Headers -> {NoGroup} \cup Seq(Trxs)] /\ list \in Seq(Trxs)
  <2>1. <<>> \in Seq(Trxs) /\ Body[h] \in Seq(Trxs) BY WalletAssumption
  <2> QED BY <2>1 DEF WalletInv, Parcels
<1>2. \A ok \in BOOLEAN : [method |-> "other", ok |-> ok] \in [method : {"build", "mempool", "other"}, ok : BOOLEAN]
  OBVIOUS
<1>3. CASE UNCHANGED groups /\ Ended(FALSE) BY <1>1, <1>2, <1>3 DEF Parcels, Ended
<1>4. CASE /\ groups' = IF GroupKept(list) THEN [groups EXCEPT ![h] = Joined(@, list)] ELSE groups
           /\ Ended(GroupKept(list))
  <2>1. GroupKept(list) \in BOOLEAN BY DEF GroupKept
  <2>2. last' \in [method : {"build", "mempool", "other"}, ok : BOOLEAN] BY <1>2, <1>4, <2>1 DEF Ended
  <2>3. Joined(groups[h], list) \in {NoGroup} \cup Seq(Trxs)
    <3>1. CASE groups[h] = NoGroup BY <1>1, <3>1 DEF Joined
    <3>2. CASE groups[h] # NoGroup
      <4> DEFINE s == groups[h]
                 w == Without(list, Range(s))
      <4>1. s \in Seq(Trxs) BY <1>1, <3>2
      <4>2. w \in Seq(Trxs) BY <1>1, WithoutIs
      <4>3. Joined(s, list) = s \o w BY <3>2 DEF Joined
      <4> HIDE DEF s, w
      <4>4. s \o w \in Seq(Trxs) BY <4>1, <4>2, ConcatProperties
      <4> QED BY <4>3, <4>4 DEF s
    <3> QED BY <3>1, <3>2
  <2>4. groups' \in [Headers -> {NoGroup} \cup Seq(Trxs)]
    <3>1. CASE GroupKept(list)
      <4> DEFINE j == Joined(groups[h], list)
      <4>1. groups' = [groups EXCEPT ![h] = j] BY <1>4, <3>1
      <4>2. j \in {NoGroup} \cup Seq(Trxs) BY <2>3
      <4> HIDE DEF j
      <4> QED BY <1>1, <4>1, <4>2
    <3>2. CASE ~GroupKept(list) BY <1>1, <1>4, <3>2
    <3> QED BY <3>1, <3>2
  <2> QED BY <2>2, <2>4 DEF Parcels
<1> QED BY <1>3, <1>4 DEF AddHeader

(* A transaction arrives: the account of the pool is built again, on top   *)
(* of the account below.                                                   *)
LEMMA AddTransactionDataKeeps ==
  ASSUME WalletInv, HeaderInv', NEW t \in Trxs, AddTransactionDataToMempool(t)
  PROVE  WalletInv'
<1>0. UNCHANGED <<scenario, headerStore, groups, head, finalizedHeight, walk>> BY DEF AddTransactionDataToMempool
<1>1. groups' \in [Headers -> {NoGroup} \cup Seq(Trxs)] BY <1>0 DEF WalletInv, Parcels
<1> DEFINE L == [method : {"build", "mempool", "other"}, ok : BOOLEAN]
<1>2. CASE UNCHANGED <<pool, account>> /\ Ended(TRUE)
  <2>1. last' \in L /\ last'.method = "other" BY <1>2 DEF Ended
  <2>2. Parcels' BY <1>1, <2>1 DEF Parcels
  <2> QED BY <1>0, <1>2, <2>1, <2>2, OthersKeep
<1>3. CASE t \notin stored /\ PutTransaction(t) /\ UNCHANGED account /\ Ended(FALSE)
  <2>1. PoolKept' BY <1>3, PutKeeps DEF WalletInv
  <2>2. last' \in L /\ last'.method = "other" BY <1>3 DEF Ended
  <2>3. Parcels' BY <1>1, <2>2 DEF Parcels
  <2>4. AccountsKept' BY <1>0, <1>3 DEF WalletInv, AccountsKept, Account, Agrees, LateOnly, Sound, broken
  <2>5. Layered' BY <2>2 DEF Layered
  <2> QED BY <2>1, <2>3, <2>4, <2>5 DEF WalletInv
<1>4. CASE /\ t \notin stored /\ PutTransaction(t)
           /\ LET built == IF works.wallet THEN PoolOn(account["unfinalized"], order') ELSE Fine(Blank)
              IN account' = [account EXCEPT !["mempool"] = built.acc] /\ last' = [method |-> "mempool", ok |-> built.ok]
  <2> DEFINE u == account["unfinalized"]
             r == IF works.wallet THEN PoolOn(u, order') ELSE Fine(Blank)
  <2>1. PoolKept' BY <1>4, PutKeeps DEF WalletInv
  <2>2. order' \in Seq(Trxs) BY <2>1 DEF PoolKept
  <2>3. u \in Accounts /\ Account(u) BY ScenarioIs DEF Layers
  <2>4. /\ r \in Results /\ Account(r.acc)
        /\ works.wallet /\ r.ok => Range(u.history) \cup (Range(order') \cap Owned) \subseteq Range(r.acc.history)
    <3> HIDE DEF u
    <3>1. CASE works.wallet BY <2>2, <2>3, <3>1, PoolOnKeeps
    <3>2. CASE ~works.wallet
      <4>1. r = [acc |-> Blank, ok |-> TRUE] BY <3>2 DEF Fine
      <4> HIDE DEF r
      <4> QED BY <3>2, <4>1, BlankAccount DEF Results
    <3> QED BY <3>1, <3>2
  <2>5. account' = [account EXCEPT !["mempool"] = r.acc] /\ last' = [method |-> "mempool", ok |-> r.ok] BY <1>4
  <2> HIDE DEF r, u
  <2>6. r.acc \in Accounts /\ r.ok \in BOOLEAN BY <2>4 DEF Results
  <2>7. account \in [Layers -> Accounts] /\ "mempool" \in Layers /\ "unfinalized" \in Layers
    BY DEF WalletInv, AccountsKept, Layers
  <2>8. /\ account' \in [Layers -> Accounts] /\ account'["mempool"] = r.acc
        /\ \A l \in Layers : l # "mempool" => account'[l] = account[l]
    BY <2>5, <2>6, <2>7
  <2>9. \A l \in Layers : Account(account'[l])
    <3> SUFFICES ASSUME NEW l \in Layers PROVE Account(account'[l]) OBVIOUS
    <3>1. CASE l = "mempool" BY <2>4, <2>8, <3>1
    <3>2. CASE l # "mempool"
      <4>1. Account(account[l]) BY ScenarioIs
      <4>2. account'[l] = account[l] BY <2>8, <3>2
      <4> QED BY <4>1, <4>2
    <3> QED BY <3>1, <3>2
  <2>10. AccountsKept' BY <1>0, <2>8, <2>9, AccountsNext
  <2>11. last' \in L BY <2>5, <2>6
  <2>12. Parcels' BY <1>1, <2>11 DEF Parcels
  <2>13. Layered'
    <3>1. last'.method = "mempool" /\ last'.ok = r.ok BY <2>5
    <3>2. account'["unfinalized"] = u BY <2>7, <2>8 DEF u
    <3>3. works' = works BY <1>0 DEF works
    <3> QED BY <2>4, <2>8, <3>1, <3>2, <3>3 DEF Layered
  <2> QED BY <2>1, <2>10, <2>12, <2>13 DEF WalletInv
<1> QED BY <1>2, <1>3, <1>4 DEF AddTransactionDataToMempool

(* The three accounts are built, each on top of the one below it.          *)
LEMMA BuildKeeps ==
  ASSUME WalletInv, HeaderInv', NEW final \in BOOLEAN, BuildManagementAccount(final)
  PROVE  WalletInv'
<1> DEFINE f == IF final THEN BuiltFinalized ELSE Fine(account["finalized"])
           u == IF f.ok THEN BuiltUnfinalized(f.acc) ELSE Thrown(account["unfinalized"])
           m == IF u.ok /\ works.wallet THEN PoolOn(u.acc, order) ELSE [acc |-> account["mempool"], ok |-> u.ok]
           known(a) == Range(a.history)
<1>1. /\ account' = [finalized |-> f.acc, unfinalized |-> u.acc, mempool |-> m.acc]
      /\ last' = [method |-> "build", ok |-> m.ok]
      /\ UNCHANGED <<scenario, headerStore, groups, pool, head, finalizedHeight, walk>>
  BY DEF BuildManagementAccount
<1>2. \A l \in {"finalized", "unfinalized", "mempool"} : account[l] \in Accounts /\ Account(account[l])
  BY ScenarioIs DEF Layers
<1>3. f \in Results /\ Account(f.acc)
  <2>1. CASE final BY <2>1, FinalizedKeeps
  <2>2. CASE ~final
    <3>1. f = [acc |-> account["finalized"], ok |-> TRUE] BY <2>2 DEF Fine
    <3> HIDE DEF f
    <3> QED BY <1>2, <3>1 DEF Results
  <2> QED BY <2>1, <2>2
<1>4. u \in Results /\ Account(u.acc) /\ (u.ok => known(f.acc) \subseteq known(u.acc))
  <2> HIDE DEF f
  <2>1. CASE f.ok BY <1>3, <2>1, UnfinalizedKeeps
  <2>2. CASE ~f.ok
    <3>1. u = [acc |-> account["unfinalized"], ok |-> FALSE] BY <2>2 DEF Thrown
    <3> HIDE DEF u
    <3> QED BY <1>2, <3>1 DEF Results
  <2> QED BY <2>1, <2>2
<1>5. order \in Seq(Trxs) BY DEF WalletInv, PoolKept
<1>6. /\ m \in Results /\ Account(m.acc)
      /\ works.wallet /\ m.ok => u.ok /\ known(u.acc) \cup (Range(order) \cap Owned) \subseteq known(m.acc)
  <2> HIDE DEF u
  <2>1. CASE u.ok /\ works.wallet BY <1>4, <1>5, <2>1, PoolOnKeeps
  <2>2. CASE ~(u.ok /\ works.wallet)
    <3>1. m = [acc |-> account["mempool"], ok |-> u.ok] BY <2>2
    <3>2. u.ok \in BOOLEAN BY <1>4 DEF Results
    <3> HIDE DEF m
    <3> QED BY <1>2, <2>2, <3>1, <3>2 DEF Results
  <2> QED BY <2>1, <2>2
<1> HIDE DEF f, u, m
<1>7. /\ f.acc \in Accounts /\ u.acc \in Accounts /\ m.acc \in Accounts /\ m.ok \in BOOLEAN
  BY <1>3, <1>4, <1>6 DEF Results
<1>8. account' \in [Layers -> Accounts] BY <1>1, <1>7 DEF Layers
<1>9. account'["finalized"] = f.acc /\ account'["unfinalized"] = u.acc /\ account'["mempool"] = m.acc
  BY <1>1
<1>10. \A l \in Layers : Account(account'[l]) BY <1>3, <1>4, <1>6, <1>9 DEF Layers
<1>11. AccountsKept' BY <1>1, <1>8, <1>10, AccountsNext
<1>12. last'.method = "build" /\ last'.ok = m.ok /\ last' \in [method : {"build", "mempool", "other"}, ok : BOOLEAN]
  BY <1>1, <1>7
<1>13. Parcels' BY <1>1, <1>12 DEF WalletInv, Parcels
<1>14. PoolKept' BY <1>1 DEF WalletInv, PoolKept, PoolOrdered, pool
<1>15. Layered'
  <2>1. works' = works /\ order' = order BY <1>1 DEF works, pool
  <2>2. works.wallet /\ m.ok =>
          /\ known(f.acc) \subseteq known(u.acc)
          /\ known(u.acc) \cup (Range(order) \cap Owned) \subseteq known(m.acc)
    BY <1>4, <1>6
  <2> HIDE DEF known
  <2>3. /\ Range(account'["finalized"].history) = known(f.acc)
        /\ Range(account'["unfinalized"].history) = known(u.acc)
        /\ Range(account'["mempool"].history) = known(m.acc)
    BY <1>9 DEF known
  <2> QED BY <1>12, <2>1, <2>2, <2>3 DEF Layered
<1> QED BY <1>11, <1>13, <1>14, <1>15 DEF WalletInv

LEMMA WalletStep ==
  ASSUME WalletInv, [Next]_vars
  PROVE  WalletInv'
<1> USE DEF Ended
<1> DEFINE L == [method : {"build", "mempool", "other"}, ok : BOOLEAN]
<1>1. HeaderInv' BY HeaderStep DEF WalletInv
<1>2. /\ scenario.headers \subseteq Headers /\ scenario.sent \subseteq Headers /\ scenario.trxs \subseteq Trxs
  BY ScenarioIs
<1>3. ASSUME UNCHANGED <<scenario, groups, pool, account>>,
             UNCHANGED last \/ \E ok \in BOOLEAN : last' = [method |-> "other", ok |-> ok]
      PROVE  WalletInv'
  <2>1. UNCHANGED last \/ (last'.method = "other" /\ last' \in L) BY <1>3
  <2>2. Parcels' BY <1>3, <2>1 DEF WalletInv, Parcels
  <2> QED BY <1>1, <1>3, <2>1, <2>2, OthersKeep
<1>4. \A h \in Headers : StartFinalize(h) => \E ok \in BOOLEAN : last' = [method |-> "other", ok |-> ok]
  <2> SUFFICES ASSUME NEW h \in Headers, StartFinalize(h)
               PROVE  \E ok \in BOOLEAN : last' = [method |-> "other", ok |-> ok]
    OBVIOUS
  <2> DEFINE low == Height[h] - BeforeHeight <= finalizedHeight
             found == Before(h, BeforeHeight)
  <2>1. last' = [method |-> "other", ok |-> TRUE] \/ last' = [method |-> "other", ok |-> (found.ok \/ low)]
    BY DEF StartFinalize
  <2>2. (found.ok \/ low) \in BOOLEAN OBVIOUS
  <2> HIDE DEF low, found
  <2> QED BY <2>1, <2>2
<1>5. ASSUME NEW h \in scenario.headers, StoreHeader(h) PROVE WalletInv' BY <1>3, <1>5 DEF StoreHeader
<1>6. ASSUME NEW h \in scenario.headers, DoFinalize(h) PROVE WalletInv' BY <1>2, <1>3, <1>4, <1>6 DEF DoFinalize
<1>7. ASSUME NEW h \in scenario.sent, NEW list \in {<<>>, Body[h]}, AddHeader(h, list) PROVE WalletInv'
  <2>1. h \in Headers BY <1>2
  <2>2. Parcels' BY <1>7, <2>1, AddHeaderKeeps
  <2>3. last'.method = "other" /\ UNCHANGED <<scenario, pool, account>> BY <1>7 DEF AddHeader
  <2> QED BY <1>1, <2>2, <2>3, OthersKeep
<1>8. ASSUME NEW t \in scenario.trxs, AddTransactionDataToMempool(t) PROVE WalletInv'
  BY <1>1, <1>2, <1>8, AddTransactionDataKeeps
<1>9. CASE UpdateHeadDetection BY <1>3, <1>9 DEF UpdateHeadDetection
<1>10. CASE ResetManagementAccounts
  <2>1. account' = [l \in Layers |-> Blank] BY <1>10 DEF ResetManagementAccounts
  <2>2. account' \in [Layers -> Accounts] /\ \A l \in Layers : Account(account'[l]) BY <2>1, BlankAccount
  <2>3. AccountsKept' BY <1>10, <2>2, AccountsNext DEF ResetManagementAccounts
  <2>4. last' = [method |-> "other", ok |-> TRUE] BY <1>10 DEF ResetManagementAccounts
  <2>5. Parcels' BY <1>10, <2>4 DEF WalletInv, Parcels, ResetManagementAccounts
  <2>6. PoolKept' BY <1>10 DEF WalletInv, PoolKept, PoolOrdered, pool, ResetManagementAccounts
  <2>7. Layered' BY <2>4 DEF Layered
  <2> QED BY <1>1, <2>3, <2>5, <2>6, <2>7 DEF WalletInv
<1>11. CASE CheckAndFinalizing
  <2>1. UNCHANGED <<scenario, groups, pool, account>> BY <1>11 DEF CheckAndFinalizing
  <2>2. \E ok \in BOOLEAN : last' = [method |-> "other", ok |-> ok]
    <3>1. CASE head # NoHeader /\ StartFinalize(head)
      <4>1. head \in Headers BY <3>1 DEF WalletInv, HeaderInv, WalkKnown
      <4> QED BY <1>4, <3>1, <4>1
    <3> QED BY <1>11, <3>1 DEF CheckAndFinalizing
  <2> QED BY <1>3, <2>1, <2>2
<1>12. ASSUME NEW f \in BOOLEAN, BuildManagementAccount(f) PROVE WalletInv' BY <1>1, <1>12, BuildKeeps
<1>13. CASE WalkStep BY <1>3, <1>13 DEF WalkStep
<1>14. CASE EndWalk BY <1>3, <1>14 DEF EndWalk
<1>15. CASE Spin \/ UNCHANGED vars BY <1>3, <1>15 DEF Spin, vars, pool
<1>16. CASE WalkThrows BY <1>3, <1>16 DEF WalkThrows
<1> QED
  BY <1>5, <1>6, <1>7, <1>8, <1>9, <1>10, <1>11, <1>12, <1>13, <1>14, <1>15, <1>16 DEF Next

(* The inductive invariant of all the stores: headers, groups, the pool    *)
(* with its order, and in each account the list, the map and the history   *)
(* of its coins (ManagementAccount, WalletMemoryPool).                     *)
THEOREM WalletAlwaysKept == Spec => []WalletInv
<1>1. Init => WalletInv BY WalletInit
<1>2. WalletInv /\ [Next]_vars => WalletInv' BY WalletStep
<1> QED BY <1>1, <1>2, PTL DEF Spec

(* After buildManagementAccount each account knows what the one below it   *)
(* knows, and after a transaction was put into the pool the account of the *)
(* pool knows every payment that waits there (__buildUnfinalizedAccount,   *)
(* __buildMempoolAccount).                                                 *)
THEOREM AlwaysLayered == Spec => []Layered
<1>1. WalletInv => Layered BY DEF WalletInv
<1> QED BY <1>1, WalletAlwaysKept, PTL

(* How often a coin is listed.                                             *)
LEMMA OccurrencesIs ==
  ASSUME NEW list \in Seq(Owned), NEW t
  PROVE  /\ t \in Range(list) => Occurrences(list, t) >= 1
         /\ t \notin Range(list) => Occurrences(list, t) = 0
         /\ t \in Range(list) /\ (\A j, k \in DOMAIN list : list[j] = t /\ list[k] = t => j = k)
              => Occurrences(list, t) = 1
<1> DEFINE K == {k \in DOMAIN list : list[k] = t}
<1>1. IsFiniteSet(K) /\ Cardinality(K) \in Nat
  <2>1. DOMAIN list = 1..Len(list) /\ Len(list) \in Nat OBVIOUS
  <2>2. IsFiniteSet(1..Len(list)) BY <2>1, FS_Interval
  <2>3. K \subseteq 1..Len(list) BY <2>1
  <2> HIDE DEF K
  <2> QED BY <2>2, <2>3, FS_Subset, FS_CardinalityType
<1>2. t \in Range(list) <=> K # {} BY DEF Range
<1>3. Cardinality(K) = 0 <=> K = {}
  <2> HIDE DEF K
  <2> QED BY <1>1, FS_EmptySet
<1>4. ASSUME NEW k \in K, \A j \in K : j = k PROVE Cardinality(K) = 1
  <2>1. K = {k} BY <1>4
  <2> QED BY <2>1, FS_Singleton
<1>5. ASSUME K # {}, \A j, k \in DOMAIN list : list[j] = t /\ list[k] = t => j = k
      PROVE  Cardinality(K) = 1
  <2>1. PICK k \in K : TRUE BY <1>5
  <2>2. \A j \in K : j = k BY <1>5, <2>1
  <2> HIDE DEF K
  <2> QED BY <1>4, <2>1, <2>2
<1>6. Occurrences(list, t) = Cardinality(K) BY DEF Occurrences
<1> HIDE DEF K
<1> QED BY <1>1, <1>2, <1>3, <1>5, <1>6

(* The list of an account and its map hold the same coins, each once,      *)
(* unless a coin's own calls threw between the two; the pool's transactions*)
(* and their order agree unless a putTransaction threw (ManagedUtxoCache,  *)
(* WalletMemoryPool).                                                      *)
THEOREM StoresAlwaysConsistent == Spec => []StoresConsistent
<1>1. ASSUME WalletInv PROVE TypeOK
  <2>1. /\ scenario \in Scenarios /\ sections \subseteq Heights
        /\ dropped \subseteq Headers /\ missed \subseteq Headers
    BY <1>1 DEF WalletInv, HeaderInv, HeadersKnown
  <2>2. DOMAIN index = Heights /\ \A n \in Heights : Range(index[n]) \subseteq {h \in Headers : Height[h] = n}
    <3>1. index \in [Heights -> Seq(Headers)] BY <1>1 DEF WalletInv, HeaderInv, HeadersKnown
    <3>2. ASSUME NEW n \in Heights, NEW k \in DOMAIN index[n]
          PROVE  index[n][k] \in Headers /\ Height[index[n][k]] = n
      <4>1. index[n] \in Seq(Headers) BY <3>1
      <4>2. index[n][k] \in Headers BY <4>1
      <4> QED BY <1>1, <4>2 DEF WalletInv, HeaderInv, HeadersKnown
    <3> QED BY <3>1, <3>2 DEF Range
  <2>3. DOMAIN groups = Headers /\ \A h \in Headers : groups[h] = NoGroup \/ Range(groups[h]) \subseteq Trxs
    <3>1. groups \in [Headers -> {NoGroup} \cup Seq(Trxs)] BY <1>1 DEF WalletInv, Parcels
    <3>2. \A s \in Seq(Trxs) : Range(s) \subseteq Trxs BY DEF Range
    <3> QED BY <3>1, <3>2
  <2>4. stored \subseteq Trxs /\ failed \subseteq Trxs /\ IsInjective(order) /\ Range(order) \subseteq Trxs
    BY <1>1 DEF WalletInv, PoolKept, Range
  <2>5. DOMAIN account = Layers BY <1>1 DEF WalletInv, AccountsKept
  <2>6. ASSUME NEW l \in Layers
        PROVE  /\ DOMAIN account[l] = {"history", "list", "map"} /\ account[l].map \subseteq Owned
               /\ IsInjective(account[l].history) /\ Range(account[l].history) \subseteq Trxs
               /\ Range(account[l].list) \subseteq Owned
    <3> DEFINE a == account[l]
    <3>1. a \in Accounts /\ Agrees(a) BY <1>1, ScenarioIs DEF Account
    <3>2. a.history \in Seq(Trxs) /\ a.list \in Seq(Owned) /\ a.map \subseteq Owned
          /\ DOMAIN a = {"history", "list", "map"}
      <4> HIDE DEF a
      <4> QED BY <3>1 DEF Accounts
    <3>3. IsInjective(a.history) BY <3>1 DEF Agrees
    <3> HIDE DEF a
    <3>4. Range(a.history) \subseteq Trxs /\ Range(a.list) \subseteq Owned BY <3>2 DEF Range
    <3> QED BY <3>2, <3>3, <3>4 DEF a
  <2>7. head \in Headers \cup {NoHeader} /\ finalizedHeight \in Nat
    BY <1>1 DEF WalletInv, HeaderInv, WalkKnown
  <2>8. Walking => walk \in [id : Headers, height : Heights, target : Headers] /\ Height[walk.id] = walk.height
    BY <1>1 DEF WalletInv, HeaderInv, WalkKnown
  <2>9. last \in [method : {"build", "mempool", "other"}, ok : BOOLEAN] BY <1>1 DEF WalletInv, Parcels
  <2> QED BY <2>1, <2>2, <2>3, <2>4, <2>5, <2>6, <2>7, <2>8, <2>9 DEF TypeOK
<1>2. ASSUME WalletInv PROVE CacheListIsMap
  <2> SUFFICES ASSUME NEW l \in Layers, NEW t \in Owned
               PROVE  /\ t \in account[l].map => Occurrences(account[l].list, t) >= 1
                      /\ broken[t] \in {"none", "address"} =>
                           Occurrences(account[l].list, t) = IF t \in account[l].map THEN 1 ELSE 0
    BY DEF CacheListIsMap
  <2> DEFINE a == account[l]
  <2>1. a \in Accounts /\ Agrees(a) BY <1>2, ScenarioIs DEF Account
  <2> HIDE DEF a
  <2>2. a.list \in Seq(Owned) BY <2>1 DEF Accounts
  <2>3. t \in a.map => t \in Range(a.list) BY <2>1 DEF Agrees
  <2>4. Sound(t) => (t \in Range(a.list) => t \in a.map)
                    /\ \A j, k \in DOMAIN a.list : a.list[j] = t /\ a.list[k] = t => j = k
    BY <2>1 DEF Agrees
  <2>5. t \in a.map => Occurrences(a.list, t) >= 1 BY <2>2, <2>3, OccurrencesIs
  <2>6. Sound(t) => Occurrences(a.list, t) = IF t \in a.map THEN 1 ELSE 0
    BY <2>2, <2>3, <2>4, OccurrencesIs
  <2> QED BY <2>5, <2>6 DEF Sound, a
<1>3. WalletInv => StoresConsistent BY <1>1, <1>2 DEF StoresConsistent, WalletInv, PoolKept
<1> QED BY <1>3, WalletAlwaysKept, PTL

(* A coin is offered after one of the account's transactions spent it only *)
(* where the spender was read first, or the coin's own calls threw         *)
(* (ManagementAccount.addTransaction and importOtherAccount).              *)
THEOREM SpentNeverOffered == Spec => []SpentNotOffered
<1>1. ASSUME WalletInv PROVE SpentNotOffered
  <2> SUFFICES ASSUME NEW l \in Layers, NEW t \in Range(account[l].list), NEW s \in Range(account[l].history),
                      t \in Range(Spends[s]), broken[t] = "none"
               PROVE  t \in Range(account[l].history) /\ Place(account[l].history, t) > Place(account[l].history, s)
    BY DEF SpentNotOffered
  <2> DEFINE h == account[l].history
  <2>1. h \in Seq(Trxs) /\ IsInjective(h) /\ After(h, t, s)
    <3>1. account[l] \in Accounts /\ Account(account[l]) BY <1>1, ScenarioIs
    <3> QED BY <3>1 DEF Account, Agrees, LateOnly, Accounts
  <2> HIDE DEF h
  <2>2. PICK j \in DOMAIN h, k \in DOMAIN h : h[j] = s /\ h[k] = t /\ j < k BY <2>1 DEF After
  <2>3. ASSUME NEW i \in DOMAIN h, NEW x, h[i] = x PROVE Place(h, x) = i
    BY <2>1, <2>3 DEF Place, IsInjective
  <2>4. Place(h, s) = j /\ Place(h, t) = k BY <2>2, <2>3
  <2>5. t \in Range(h) BY <2>2 DEF Range
  <2>6. j \in Nat /\ k \in Nat BY <2>1, <2>2
  <2> QED BY <2>2, <2>4, <2>5, <2>6 DEF h
<1> QED BY <1>1, WalletAlwaysKept, PTL
=============================================================================
