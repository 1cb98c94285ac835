---------------------------- MODULE Btree_proofs -----------------------------
(***************************************************************************)
(* Proofs about Btree, for every set of keys and values, every number of   *)
(* children and of blocks.                                                 *)
(***************************************************************************)
EXTENDS BtreeTrees, DataLemmas, FiniteSetTheorems

-----------------------------------------------------------------------------
(* What is in a block.                                                     *)
LEMMA NoNodeIs ==
  /\ NoNode \in TreeNodes /\ NoNode.key = 0 /\ NoNode.leaf /\ NoNode.inner = <<>>
  /\ ~NoNode.root /\ Infinity \in Nat /\ Infinity \notin Keys /\ 0 \notin Keys /\ Keys \subseteq Nat
  /\ NodeNumber \in Nat /\ NodeNumber >= 2 /\ Blocks \subseteq Nat /\ MaxKey \in Nat
<1>1. MaxKey \in Nat /\ NodeNumber \in Nat /\ NodeNumber >= 2 /\ MaxBlocks \in Nat BY BtreeAssumption
<1>2. Infinity = MaxKey + 1 /\ Keys = 1..MaxKey BY DEF Infinity, Keys
<1>3. NoNode = [root |-> FALSE, saved |-> FALSE, leaf |-> TRUE, key |-> 0, inner |-> <<>>]
  BY DEF NoNode, TreeNode
<1>4. <<>> \in Seq(Children) /\ 0 \in 0..Infinity BY <1>1, <1>2
<1>5. NoNode \in TreeNodes BY <1>3, <1>4 DEF TreeNodes
<1> QED BY <1>1, <1>2, <1>3, <1>5 DEF Blocks

(* The fields of what is in a block.                                       *)
LEMMA FieldsAre ==
  ASSUME NEW ns, Typed(ns), NEW p \in Blocks
  PROVE  /\ ns[p] \in TreeNodes /\ ns[p].root \in BOOLEAN /\ ns[p].leaf \in BOOLEAN
         /\ ns[p].key \in 0..Infinity /\ ns[p].inner \in Seq(Children) /\ Len(ns[p].inner) \in Nat
         /\ DOMAIN ns[p].inner = Places(ns, p) /\ ns[p].key \in Nat
         /\ \A i \in Places(ns, p) : ns[p].inner[i] \in Children /\ i \in Nat
<1>1. ns[p] \in TreeNodes BY DEF Typed
<1>2. ns[p].inner \in Seq(Children) BY <1>1 DEF TreeNodes
<1> QED BY <1>1, <1>2, NoNodeIs DEF TreeNodes, Places

(* The children of a node and their keys.                                  *)
LEMMA ChildrenAre ==
  ASSUME NEW ns, NEW root, NEW lvl, Typed(ns), Levels(ns, root, lvl),
         NEW p \in UsedIn(ns), NEW i \in Places(ns, p)
  PROVE  /\ KeyAt(ns, p, i) \in 1..Infinity /\ KeyAt(ns, p, i) \in Nat /\ KeyAt(ns, p, i) # 0
         /\ ns[p].leaf => ns[p].inner[i] \in Entries /\ KeyAt(ns, p, i) = ns[p].inner[i].key
         /\ ~ns[p].leaf => /\ ns[p].inner[i] \in UsedIn(ns) /\ ns[p].inner[i] \in Blocks /\ ns[p].inner[i] # root
                           /\ KeyAt(ns, p, i) = ns[ns[p].inner[i]].key
                           /\ lvl[ns[p].inner[i]] = lvl[p] - 1
<1>1. p \in Blocks BY DEF UsedIn
<1>2. CASE ns[p].leaf
  <2>1. ns[p].inner[i] \in Entries BY <1>2 DEF Levels
  <2>2. KeyAt(ns, p, i) = ns[p].inner[i].key BY <1>2 DEF KeyAt, KeyOf
  <2>3. ns[p].inner[i].key \in Keys BY <2>1 DEF Entries
  <2> QED BY <1>2, <2>1, <2>2, <2>3, NoNodeIs DEF Keys, Infinity
<1>3. CASE ~ns[p].leaf
  <2>1. ns[p].inner[i] \in UsedIn(ns) \ {root} /\ lvl[ns[p].inner[i]] = lvl[p] - 1 BY <1>3 DEF Levels
  <2>2. KeyAt(ns, p, i) = ns[ns[p].inner[i]].key BY <1>3 DEF KeyAt, KeyOf
  <2>3. ns[p].inner[i] \in Blocks BY <2>1 DEF UsedIn
  <2>4. ns[ns[p].inner[i]].key \in 0..Infinity /\ ns[ns[p].inner[i]].key # 0 BY <2>1, <2>3, FieldsAre DEF Levels
  <2> QED BY <1>3, <2>1, <2>2, <2>3, <2>4, NoNodeIs
<1>4. ns[p].leaf \in BOOLEAN BY <1>1, FieldsAre
<1> QED BY <1>2, <1>3, <1>4

(* The keys that loadInnerNodes reads are those of the children.           *)
LEMMA ChildKeysAre ==
  ASSUME NEW ns, NEW root, NEW lvl, Typed(ns), Levels(ns, root, lvl), NEW p \in UsedIn(ns)
  PROVE  /\ ChildKeys(ns, p) \in Seq(Nat) /\ Len(ChildKeys(ns, p)) = Len(ns[p].inner)
         /\ \A i \in Places(ns, p) : ChildKeys(ns, p)[i] = KeyAt(ns, p, i)
<1>1. p \in Blocks BY DEF UsedIn
<1>2. DOMAIN ns[p].inner = Places(ns, p) /\ Len(ns[p].inner) \in Nat BY <1>1, FieldsAre
<1>3. ChildKeys(ns, p) = [i \in 1..Len(ns[p].inner) |-> KeyAt(ns, p, i)] BY <1>2 DEF ChildKeys, KeyAt, Places
<1>4. \A i \in 1..Len(ns[p].inner) : KeyAt(ns, p, i) \in Nat BY ChildrenAre DEF Places
<1> DEFINE n == Len(ns[p].inner)
           k(i) == KeyAt(ns, p, i)
<1> HIDE DEF n, k
<1>5. n \in Nat /\ \A i \in 1..n : k(i) \in Nat BY <1>2, <1>4 DEF n, k
<1>6. [i \in 1..n |-> k(i)] \in Seq(Nat) /\ Len([i \in 1..n |-> k(i)]) = n BY <1>5
<1>7. ChildKeys(ns, p) = [i \in 1..n |-> k(i)] BY <1>3 DEF n, k
<1> QED BY <1>6, <1>7 DEF n, k, Places

-----------------------------------------------------------------------------
(* Searching the children of a node.                                       *)

(* getNextChild finds the child that key goes to, if there is one.         *)
LEMMA NextChildIs ==
  ASSUME NEW ns, NEW root, NEW lvl, NEW lo, Typed(ns), Levels(ns, root, lvl), Ordered(ns, lo),
         NEW p \in UsedIn(ns), NEW key \in Nat
  PROVE  LET c == NextChild(ChildKeys(ns, p), key)
         IN  /\ (c = 0 /\ \A i \in Places(ns, p) : KeyAt(ns, p, i) < key) \/ Goes(ns, p, key, c)
             /\ \A i \in Places(ns, p) : Goes(ns, p, key, i) => c = i
<1> DEFINE I == {i \in 1..Len(ChildKeys(ns, p)) : key <= ChildKeys(ns, p)[i]}
           J == {i \in Places(ns, p) : key <= KeyAt(ns, p, i)}
           c == NextChild(ChildKeys(ns, p), key)
<1>1. I = J BY ChildKeysAre DEF Places
<1>2. c = IF J # {} THEN Min(J) ELSE 0 BY <1>1 DEF NextChild, SelectInSeq
<1>3. \A i \in Places(ns, p) : KeyAt(ns, p, i) \in Nat /\ i \in Nat BY ChildrenAre DEF Places
<1>4. J # {} => Min(J) \in J /\ \A k \in J : Min(J) <= k
  <2>1. J \subseteq 1..Len(ns[p].inner) BY DEF Places
  <2>2. Len(ns[p].inner) \in Nat BY FieldsAre DEF UsedIn
  <2> HIDE DEF J
  <2> QED BY <2>1, <2>2, FirstPlace
<1>5. CASE J = {} BY <1>2, <1>3, <1>5 DEF Goes
<1>6. CASE J # {}
  <2>1. c \in J /\ \A k \in J : c <= k BY <1>2, <1>4, <1>6
  <2>2. Goes(ns, p, key, c)
    <3> SUFFICES ASSUME c > 1 PROVE KeyAt(ns, p, c - 1) < key BY <2>1 DEF Goes
    <3>1. c - 1 \in Places(ns, p) BY <2>1 DEF Places
    <3>2. c - 1 \notin J BY <2>1, <3>1, <1>3
    <3> QED BY <1>3, <3>1, <3>2
  <2>3. ASSUME NEW i \in Places(ns, p), Goes(ns, p, key, i) PROVE c = i
    <3>1. c <= i BY <2>1, <2>3 DEF Goes
    <3>2. CASE c < i
      <4>1. i - 1 \in Places(ns, p) /\ i > 1 /\ c <= i - 1 /\ c \in Places(ns, p) BY <2>1, <3>2 DEF Places
      <4>2. KeyAt(ns, p, c) <= KeyAt(ns, p, i - 1) BY <4>1, <1>3 DEF Ordered
      <4>3. KeyAt(ns, p, i - 1) < key /\ key <= KeyAt(ns, p, c) BY <2>1, <2>3, <4>1 DEF Goes
      <4> QED BY <1>3, <4>1, <4>2, <4>3
    <3> QED BY <2>1, <3>1, <3>2, <1>3
  <2> QED BY <2>2, <2>3
<1> QED BY <1>5, <1>6

(* indexof finds the child with the key, if there is one.                  *)
LEMMA IndexOfIs ==
  ASSUME NEW ns, NEW root, NEW lvl, NEW lo, Typed(ns), Levels(ns, root, lvl), Ordered(ns, lo),
         NEW p \in UsedIn(ns), NEW key \in Nat
  PROVE  LET c == IndexOf(ChildKeys(ns, p), key)
         IN  /\ (c = 0 /\ \A i \in Places(ns, p) : KeyAt(ns, p, i) # key)
                \/ (c \in Places(ns, p) /\ KeyAt(ns, p, c) = key)
             /\ \A i \in Places(ns, p) : KeyAt(ns, p, i) = key => c = i
<1> DEFINE I == {i \in 1..Len(ChildKeys(ns, p)) : ChildKeys(ns, p)[i] = key}
           J == {i \in Places(ns, p) : KeyAt(ns, p, i) = key}
<1>0. PICK c : c = IndexOf(ChildKeys(ns, p), key) OBVIOUS
<1>1. I = J BY ChildKeysAre DEF Places
<1>2. c = IF J # {} THEN Min(J) ELSE 0 BY <1>0, <1>1 DEF IndexOf, SelectInSeq
<1>3. \A i \in Places(ns, p) : KeyAt(ns, p, i) \in Nat /\ i \in Nat /\ i # 0 BY ChildrenAre DEF Places
<1>4. J # {} => Min(J) \in J
  <2>1. J \subseteq 1..Len(ns[p].inner) BY DEF Places
  <2>2. Len(ns[p].inner) \in Nat BY FieldsAre DEF UsedIn
  <2> HIDE DEF J
  <2> QED BY <2>1, <2>2, FirstPlace
<1>5. \A i, j \in J : i = j BY <1>3 DEF Ordered
<1>6. CASE J = {}
  <2>1. c = 0 BY <1>2, <1>6
  <2>2. \A i \in Places(ns, p) : KeyAt(ns, p, i) # key BY <1>6
  <2> QED BY <1>0, <2>1, <2>2
<1>7. CASE J # {}
  <2>1. c \in J BY <1>2, <1>4, <1>7
  <2> QED BY <1>0, <2>1, <1>3, <1>5
<1> QED BY <1>6, <1>7

-----------------------------------------------------------------------------
(* The heights count down from the root to the leaves, and are bounded.    *)
LEMMA HeightsAre ==
  ASSUME NEW ns, NEW root, NEW lvl, Typed(ns), Levels(ns, root, lvl)
  PROVE  /\ lvl[root] \in Nat /\ root \in Blocks /\ Heights(ns, lvl) \in [Blocks -> 0..lvl[root]]
         /\ \A p \in UsedIn(ns) : lvl[p] \in 0..lvl[root] /\ Heights(ns, lvl)[p] = lvl[p] /\ p \in Blocks
         /\ \A p \in InnerIn(ns) : /\ p \in UsedIn(ns) /\ ~ns[p].leaf /\ lvl[p] > 0
                                   /\ \A i \in Places(ns, p) :
                                        /\ ns[p].inner[i] \in UsedIn(ns) /\ ns[p].inner[i] \in Blocks
                                        /\ Heights(ns, lvl)[ns[p].inner[i]] < Heights(ns, lvl)[p]
<1>1. lvl \in [Blocks -> Nat] /\ root \in UsedIn(ns) BY DEF Levels
<1>2. \A p \in UsedIn(ns) : p \in Blocks BY DEF UsedIn
<1>3. \A p \in UsedIn(ns) : lvl[p] \in 0..lvl[root] BY <1>1, <1>2 DEF Levels
<1>4. Heights(ns, lvl) \in [Blocks -> 0..lvl[root]] BY <1>1, <1>2, <1>3 DEF Heights
<1>5. \A p \in UsedIn(ns) : Heights(ns, lvl)[p] = lvl[p] BY <1>2 DEF Heights
<1>6. ASSUME NEW p \in InnerIn(ns)
      PROVE  /\ p \in UsedIn(ns) /\ ~ns[p].leaf /\ lvl[p] > 0
             /\ \A i \in Places(ns, p) : /\ ns[p].inner[i] \in UsedIn(ns) /\ ns[p].inner[i] \in Blocks
                                         /\ Heights(ns, lvl)[ns[p].inner[i]] < Heights(ns, lvl)[p]
  <2>1. p \in UsedIn(ns) /\ ~ns[p].leaf BY DEF InnerIn
  <2>2. lvl[p] # 0 /\ lvl[p] \in Nat BY <1>3, <2>1, <1>1, <1>2 DEF Levels
  <2>3. ASSUME NEW i \in Places(ns, p)
        PROVE  /\ ns[p].inner[i] \in UsedIn(ns) /\ ns[p].inner[i] \in Blocks
               /\ lvl[ns[p].inner[i]] = lvl[p] - 1
    BY <2>1, ChildrenAre
  <2> QED BY <1>5, <2>1, <2>2, <2>3
<1> QED BY <1>1, <1>2, <1>3, <1>4, <1>5, <1>6

-----------------------------------------------------------------------------
(* The path to the leaf where a key belongs.                               *)

(* A node that may hold key, and is not a leaf, has a child that may.      *)
LEMMA NextChildGoes ==
  ASSUME NEW ns, NEW root, NEW lvl, NEW lo, IsTree(ns, root, lvl, lo), Branching(ns),
         NEW p \in InnerIn(ns), NEW key \in Nat, key <= ns[p].key
  PROVE  Goes(ns, p, key, NextChild(ChildKeys(ns, p), key))
<1>1. Typed(ns) /\ Levels(ns, root, lvl) /\ Ordered(ns, lo) /\ Ends(ns, {}) BY DEF IsTree
<1>2. p \in UsedIn(ns) /\ p \in Blocks BY DEF InnerIn, UsedIn
<1>3. ns[p].inner # <<>> /\ KeyAt(ns, p, Len(ns[p].inner)) = ns[p].key BY <1>1 DEF Branching, Ends
<1>4. Len(ns[p].inner) \in Places(ns, p)
  <2>1. ns[p].inner \in Seq(Children) BY <1>1, <1>2, FieldsAre
  <2> QED BY <1>3, <2>1 DEF Places
<1>5. KeyAt(ns, p, Len(ns[p].inner)) \in Nat BY <1>1, <1>2, <1>4, ChildrenAre
<1>6. ~(KeyAt(ns, p, Len(ns[p].inner)) < key) BY <1>3, <1>5
<1> QED BY <1>1, <1>2, <1>4, <1>6, NextChildIs

(* gotoLeaf goes from the root to the leaf where key belongs.              *)
LEMMA PathIs ==
  ASSUME NEW lvl, NEW lo, IsTree(nodes, rootFpos, lvl, lo), Branching(nodes), NEW key \in 0 .. Infinity
  PROVE  Leads(nodes, lvl, rootFpos, key, Path(key))
<1> DEFINE keys(p) == ChildKeys(nodes, p)
           c(p) == NextChild(keys(p), key)
           stops(p) == nodes[p].leaf \/ c(p) = 0
           G == [r \in [Blocks -> Seq(Blocks)] \X Blocks |->
                   IF nodes[r[2]] = NoNode THEN <<>>
                   ELSE <<r[2]>> \o IF stops(r[2]) THEN <<>> ELSE r[1][nodes[r[2]].inner[c(r[2])]]]
           IsDown(f) == f = [p \in Blocks |->
                   IF nodes[p] = NoNode THEN <<>>
                   ELSE <<p>> \o IF stops(p) THEN <<>> ELSE f[nodes[p].inner[c(p)]]]
           Down == CHOOSE f : IsDown(f)
<1>1. Typed(nodes) /\ Levels(nodes, rootFpos, lvl) /\ Ordered(nodes, lo) BY DEF IsTree
<1>2. key \in Nat BY NoNodeIs
<1>3. Path(key) = Down[rootFpos] BY DEF Path
<1>4. ASSUME NEW p \in UsedIn(nodes), ~stops(p)
      PROVE  /\ Goes(nodes, p, key, c(p)) /\ nodes[p].inner[c(p)] \in UsedIn(nodes)
             /\ nodes[p].inner[c(p)] \in Blocks
             /\ Heights(nodes, lvl)[nodes[p].inner[c(p)]] < Heights(nodes, lvl)[p]
  <2>1. Goes(nodes, p, key, c(p)) BY <1>1, <1>2, <1>4, NextChildIs
  <2>2. c(p) \in Places(nodes, p) BY <2>1 DEF Goes
  <2>3. p \in InnerIn(nodes) BY <1>4 DEF InnerIn
  <2> HIDE DEF c, keys
  <2> QED BY <1>1, <2>1, <2>2, <2>3, HeightsAre
<1>5. \E f \in [Blocks -> Seq(Blocks)] : IsDown(f)
  <2> DEFINE n == lvl[rootFpos]
             h == Heights(nodes, lvl)
             V == Seq(Blocks)
  <2>1. n \in Nat /\ h \in [Blocks -> 0..n] /\ <<>> \in V BY <1>1, HeightsAre
  <2>2. ASSUME NEW f \in [Blocks -> V], NEW p \in Blocks PROVE G[<<f, p>>] \in V
    <3>1. G[<<f, p>>] = IF nodes[p] = NoNode THEN <<>>
                        ELSE <<p>> \o IF stops(p) THEN <<>> ELSE f[nodes[p].inner[c(p)]] OBVIOUS
    <3>2. CASE nodes[p] = NoNode BY <3>1, <3>2
    <3>3. CASE nodes[p] # NoNode
      <4>1. p \in UsedIn(nodes) BY <3>3 DEF UsedIn
      <4>2. ~stops(p) => f[nodes[p].inner[c(p)]] \in V BY <1>4, <4>1
      <4>3. (IF stops(p) THEN <<>> ELSE f[nodes[p].inner[c(p)]]) \in V BY <4>2
      <4> HIDE DEF stops, c, G
      <4> QED BY <3>1, <3>3, <4>3
    <3> QED BY <3>2, <3>3
  <2>3. ASSUME NEW f \in [Blocks -> V], NEW g \in [Blocks -> V], NEW p \in Blocks,
               \A q \in Blocks : h[q] < h[p] => f[q] = g[q]
        PROVE  G[<<f, p>>] = G[<<g, p>>]
    <3>1. \A e \in {f, g} : G[<<e, p>>] = IF nodes[p] = NoNode THEN <<>>
                        ELSE <<p>> \o IF stops(p) THEN <<>> ELSE e[nodes[p].inner[c(p)]] OBVIOUS
    <3>2. nodes[p] # NoNode => p \in UsedIn(nodes) BY DEF UsedIn
    <3>3. nodes[p] # NoNode /\ ~stops(p) => f[nodes[p].inner[c(p)]] = g[nodes[p].inner[c(p)]]
      BY <1>4, <2>3, <3>2
    <3> HIDE DEF stops, c, G, h
    <3> QED BY <3>1, <3>3
  <2>4. \E f \in [Blocks -> V] : Solves(f, Blocks, G)
    <3>1. Gives(Blocks, V, G)
      <4> HIDE DEF V, G
      <4> QED BY <2>2 DEF Gives
    <3>2. LooksDown(Blocks, V, h, G)
      <4> HIDE DEF V, G, h
      <4> QED BY <2>3 DEF LooksDown
    <3> HIDE DEF n, h, V, G
    <3> QED BY <2>1, <3>1, <3>2, LevelsDefine
  <2>5. PICK f \in [Blocks -> V] : \A p \in Blocks : f[p] = G[<<f, p>>] BY <2>4 DEF Solves
  <2>6. f = [p \in Blocks |-> f[p]] OBVIOUS
  <2>7. IsDown(f)
    <3>1. \A p \in Blocks : G[<<f, p>>] =
                   IF nodes[p] = NoNode THEN <<>>
                   ELSE <<p>> \o IF stops(p) THEN <<>> ELSE f[nodes[p].inner[c(p)]] OBVIOUS
    <3> HIDE DEF G, stops, c
    <3> QED BY <2>5, <2>6, <3>1
  <2> QED BY <2>7
<1>6. IsDown(Down)
  <2> HIDE DEF IsDown
  <2> QED BY <1>5
<1> HIDE DEF Down
<1>7. \A p \in UsedIn(nodes) : Down[p] = <<p>> \o IF stops(p) THEN <<>> ELSE Down[nodes[p].inner[c(p)]]
  <2>1. \A p \in UsedIn(nodes) : p \in Blocks /\ nodes[p] # NoNode BY DEF UsedIn
  <2> HIDE DEF stops, c
  <2> QED BY <1>6, <2>1
<1> HIDE DEF stops, c, IsDown, G
<1> DEFINE T == {k \in Nat : \A p \in UsedIn(nodes) :
                   lvl[p] = k /\ key <= nodes[p].key => Leads(nodes, lvl, p, key, Down[p])}
<1>8. 0 \in T
  <2> SUFFICES ASSUME NEW p \in UsedIn(nodes), lvl[p] = 0, key <= nodes[p].key
               PROVE  Leads(nodes, lvl, p, key, Down[p]) OBVIOUS
  <2>1. nodes[p].leaf /\ p \in Blocks /\ lvl[p] \in Nat BY <1>1 DEF Levels, UsedIn
  <2>2. stops(p) BY <2>1 DEF stops
  <2>3. <<p>> \in Seq(Blocks) /\ <<p>> \o <<>> = <<p>> BY <2>1
  <2>4. Down[p] = <<p>> BY <1>7, <2>2, <2>3
  <2> QED BY <2>1, <2>4 DEF Leads
<1>9. ASSUME NEW k \in Nat, k \in T PROVE k + 1 \in T
  <2> SUFFICES ASSUME NEW p \in UsedIn(nodes), lvl[p] = k + 1, key <= nodes[p].key
               PROVE  Leads(nodes, lvl, p, key, Down[p]) OBVIOUS
  <2>1. ~nodes[p].leaf /\ p \in Blocks /\ p \in InnerIn(nodes)
    <3>1. ~nodes[p].leaf BY <1>1 DEF Levels
    <3> QED BY <3>1 DEF UsedIn, InnerIn
  <2>2. Goes(nodes, p, key, c(p)) BY <1>2, <2>1, NextChildGoes DEF c
  <2>3. ~stops(p) BY <2>1, <2>2, <1>4 DEF stops, Goes, Places
  <2> DEFINE q == nodes[p].inner[c(p)]
  <2>4. q \in UsedIn(nodes) /\ lvl[q] = k /\ q \in Blocks /\ nodes[q].key = KeyAt(nodes, p, c(p))
    <3>1. PICK i \in Places(nodes, p) : i = c(p) BY <2>2 DEF Goes
    <3>2. lvl[p] - 1 = k OBVIOUS
    <3>3. /\ nodes[p].inner[i] \in UsedIn(nodes) /\ lvl[nodes[p].inner[i]] = k
          /\ nodes[p].inner[i] \in Blocks /\ nodes[nodes[p].inner[i]].key = KeyAt(nodes, p, i)
      BY <1>1, <2>1, <3>2, ChildrenAre
    <3> QED BY <3>1, <3>3
  <2>5. key <= nodes[q].key BY <2>2, <2>4 DEF Goes
  <2> HIDE DEF q
  <2>6. Leads(nodes, lvl, q, key, Down[q]) BY <1>9, <2>4, <2>5
  <2>7. Down[p] = <<p>> \o Down[q] BY <1>7, <2>3 DEF q
  <2>8. PICK t \in Seq(Blocks) : t = Down[q] BY <2>6 DEF Leads
  <2>9. /\ Len(t) = k + 1 /\ t[1] = q
        /\ \A i \in 1 .. Len(t) : t[i] \in UsedIn(nodes) /\ lvl[t[i]] = k + 1 - i /\ key <= nodes[t[i]].key
        /\ \A i \in 1 .. Len(t) - 1 : /\ Goes(nodes, t[i], key, c(t[i]))
                                      /\ t[i + 1] = nodes[t[i]].inner[c(t[i])]
    BY <2>4, <2>6, <2>8 DEF Leads, c
  <2> DEFINE s == <<p>> \o t
  <2>10. /\ s \in Seq(Blocks) /\ Len(s) = k + 2 /\ s[1] = p
         /\ \A i \in 2 .. k + 2 : s[i] = t[i - 1]
    <3>1. <<p>> \in Seq(Blocks) /\ Len(<<p>>) = 1 /\ <<p>>[1] = p BY <2>1
    <3> QED BY <2>8, <2>9, <3>1, ConcatProperties
  <2> HIDE DEF s
  <2>11. ASSUME NEW i \in 1 .. k + 2
         PROVE  s[i] \in UsedIn(nodes) /\ lvl[s[i]] = k + 2 - i /\ key <= nodes[s[i]].key
    <3>1. CASE i = 1 BY <2>10, <3>1
    <3>2. CASE i # 1
      <4>1. i - 1 \in 1 .. Len(t) /\ s[i] = t[i - 1] BY <2>9, <2>10, <3>2
      <4> QED BY <2>9, <4>1
    <3> QED BY <3>1, <3>2
  <2>12. ASSUME NEW i \in 1 .. k + 1
         PROVE  Goes(nodes, s[i], key, c(s[i])) /\ s[i + 1] = nodes[s[i]].inner[c(s[i])]
    <3>1. CASE i = 1
      <4>1. s[2] = t[1] BY <2>10
      <4> QED BY <2>2, <2>9, <2>10, <3>1, <4>1 DEF q
    <3>2. CASE i # 1
      <4>0. i \in 2 .. k + 2 /\ i + 1 \in 2 .. k + 2 /\ (i + 1) - 1 = (i - 1) + 1 BY <3>2
      <4>1. s[i] = t[i - 1] /\ s[i + 1] = t[(i - 1) + 1] BY <2>10, <4>0
      <4>2. i - 1 \in 1 .. Len(t) - 1 BY <2>9, <4>0
      <4> QED BY <2>9, <4>1, <4>2
    <3> QED BY <3>1, <3>2
  <2>13. Down[p] = s BY <2>7, <2>8 DEF s
  <2> QED BY <2>10, <2>11, <2>12, <2>13 DEF Leads, c
<1>10. Nat \subseteq T
  <2> HIDE DEF T
  <2> QED BY <1>8, <1>9, NatUpwards
<1>11. lvl[rootFpos] \in T BY <1>1, <1>10, HeightsAre
<1>12. rootFpos \in UsedIn(nodes) /\ key <= nodes[rootFpos].key BY <1>1 DEF IsTree, Levels
<1> QED BY <1>3, <1>6, <1>11, <1>12

-----------------------------------------------------------------------------
(* Every node but the root has a parent, one level up.                     *)
LEMMA ParentIs ==
  ASSUME NEW ns, NEW root, NEW lvl, Typed(ns), Levels(ns, root, lvl), Linked(ns, root),
         NEW q \in UsedIn(ns), q # root
  PROVE  \E p \in InnerIn(ns) : \E i \in Places(ns, p) :
           /\ ns[p].inner[i] = q /\ KeyAt(ns, p, i) = ns[q].key
           /\ p \in UsedIn(ns) /\ p \in Blocks /\ ~ns[p].leaf /\ lvl[p] = lvl[q] + 1
<1>1. PICK p \in InnerIn(ns) : \E i \in Places(ns, p) : ns[p].inner[i] = q BY DEF Linked
<1>2. PICK i \in Places(ns, p) : ns[p].inner[i] = q BY <1>1
<1>3. p \in UsedIn(ns) /\ ~ns[p].leaf /\ p \in Blocks BY DEF InnerIn, UsedIn
<1>4. lvl[q] = lvl[p] - 1 /\ KeyAt(ns, p, i) = ns[q].key BY <1>2, <1>3, ChildrenAre
<1>5. lvl[p] \in Nat BY <1>3 DEF Levels
<1> QED BY <1>2, <1>3, <1>4, <1>5

(* The path of a key visits every node that the key lies in.               *)
LEMMA PathThrough ==
  ASSUME NEW ns, NEW root, NEW lvl, NEW lo, IsTree(ns, root, lvl, lo), NEW key \in Nat,
         NEW s, Leads(ns, lvl, root, key, s),
         NEW x \in UsedIn(ns), lo[x] < key, key <= ns[x].key
  PROVE  lvl[x] \in 0 .. lvl[root] /\ s[lvl[root] + 1 - lvl[x]] = x
<1> DEFINE n == lvl[root]
           T == {k \in Nat : k <= n => \A q \in UsedIn(ns) :
                   lvl[q] = n - k /\ lo[q] < key /\ key <= ns[q].key => s[k + 1] = q}
<1>1. Typed(ns) /\ Levels(ns, root, lvl) /\ Linked(ns, root) /\ Ordered(ns, lo) BY DEF IsTree
<1>2. n \in Nat /\ \A q \in UsedIn(ns) : lvl[q] \in 0 .. n BY <1>1, HeightsAre
<1>3. 0 \in T
  <2> SUFFICES ASSUME NEW q \in UsedIn(ns), lvl[q] = n PROVE s[1] = q BY <1>2
  <2>1. s[1] = root BY DEF Leads
  <2>2. CASE q # root
    <3>1. PICK p \in InnerIn(ns) : p \in UsedIn(ns) /\ lvl[p] = lvl[q] + 1 BY <1>1, <2>2, ParentIs
    <3>2. lvl[p] \in 0 .. n BY <1>2, <3>1
    <3> QED BY <1>2, <3>1, <3>2
  <2> QED BY <2>1, <2>2
<1>4. ASSUME NEW k \in Nat, k \in T PROVE k + 1 \in T
  <2> SUFFICES ASSUME k + 1 <= n, NEW q \in UsedIn(ns), lvl[q] = n - (k + 1), lo[q] < key, key <= ns[q].key
               PROVE  s[(k + 1) + 1] = q OBVIOUS
  <2>1. q # root BY <1>2
  <2>2. PICK p \in InnerIn(ns) : \E i \in Places(ns, p) :
           /\ ns[p].inner[i] = q /\ KeyAt(ns, p, i) = ns[q].key
           /\ p \in UsedIn(ns) /\ p \in Blocks /\ ~ns[p].leaf /\ lvl[p] = lvl[q] + 1 BY <1>1, <2>1, ParentIs
  <2>3. PICK i \in Places(ns, p) : ns[p].inner[i] = q /\ KeyAt(ns, p, i) = ns[q].key BY <2>2
  <2>4. lo[p] <= lo[q] /\ (i > 1 => KeyAt(ns, p, i - 1) <= lo[q]) /\ KeyAt(ns, p, i) <= ns[p].key
    BY <1>1, <2>2, <2>3 DEF Ordered
  <2>5. lo[p] \in Nat /\ lo[q] \in Nat /\ ns[p].key \in Nat /\ ns[q].key \in Nat
    BY <1>1, <2>2, FieldsAre DEF Ordered, UsedIn
  <2>6. lo[p] < key /\ key <= ns[p].key BY <2>3, <2>4, <2>5
  <2>7. s[k + 1] = p BY <1>2, <1>4, <2>2, <2>6
  <2>8. Goes(ns, p, key, i)
    <3>1. i > 1 => i - 1 \in Places(ns, p) BY <2>3 DEF Places
    <3>2. i > 1 => KeyAt(ns, p, i - 1) \in Nat BY <1>1, <2>2, <3>1, ChildrenAre
    <3> QED BY <2>3, <2>4, <2>5, <3>2 DEF Goes
  <2>9. NextChild(ChildKeys(ns, p), key) = i BY <1>1, <2>2, <2>8, NextChildIs DEF Goes
  <2>10. k + 1 \in 1 .. Len(s) - 1
    <3>1. Len(s) = n + 1 BY DEF Leads
    <3> QED BY <1>2, <3>1
  <2> QED BY <2>3, <2>7, <2>9, <2>10 DEF Leads
<1>5. Nat \subseteq T
  <2> HIDE DEF T
  <2> QED BY <1>3, <1>4, NatUpwards
<1>6. n - lvl[x] \in T /\ n - lvl[x] <= n /\ n - (n - lvl[x]) = lvl[x] /\ (n - lvl[x]) + 1 = n + 1 - lvl[x]
  BY <1>2, <1>5
<1> QED BY <1>2, <1>6

-----------------------------------------------------------------------------
(* An entry is in the leaf that the path of its key ends in.               *)
LEMMA EntryIs ==
  ASSUME NEW ns, NEW root, NEW lvl, NEW lo, IsTree(ns, root, lvl, lo), NEW e \in Entries,
         NEW p \in UsedIn(ns), NEW i \in Places(ns, p), HoldsAt(ns, e, p, i),
         NEW s, Leads(ns, lvl, root, e.key, s)
  PROVE  p = Last(s) /\ IndexOf(ChildKeys(ns, p), e.key) = i
<1>1. Typed(ns) /\ Levels(ns, root, lvl) /\ Linked(ns, root) /\ Ordered(ns, lo) BY DEF IsTree
<1>2. e.key \in Nat /\ KeyAt(ns, p, i) = e.key BY <1>1, ChildrenAre DEF HoldsAt
<1>3. lo[p] < e.key /\ e.key <= ns[p].key BY <1>1, <1>2 DEF Ordered
<1>4. lvl[p] = 0 /\ lvl[root] \in Nat BY <1>1, HeightsAre DEF HoldsAt, Levels
<1>5. s[lvl[root] + 1 - lvl[p]] = p BY <1>2, <1>3, PathThrough
<1>6. Len(s) = lvl[root] + 1 BY DEF Leads
<1>7. Last(s) = p BY <1>4, <1>5, <1>6 DEF Last
<1>8. IndexOf(ChildKeys(ns, p), e.key) = i BY <1>1, <1>2, IndexOfIs
<1> QED BY <1>7, <1>8

(* A path ends on a leaf whose key is not less than the one sought.        *)
LEMMA LeafOfPath ==
  ASSUME NEW ns, NEW root, NEW lvl, NEW key \in Nat, NEW s, Leads(ns, lvl, root, key, s),
         Typed(ns), Levels(ns, root, lvl)
  PROVE  /\ Last(s) \in UsedIn(ns) /\ ns[Last(s)].leaf /\ s # <<>> /\ Len(s) \in Nat /\ Len(s) > 0
         /\ key <= ns[Last(s)].key /\ lvl[Last(s)] = 0 /\ Last(s) = s[Len(s)]
<1>1. lvl[root] \in Nat BY HeightsAre
<1>2. Len(s) = lvl[root] + 1 /\ Len(s) \in 1 .. Len(s) BY <1>1 DEF Leads
<1>3. s[Len(s)] \in UsedIn(ns) /\ lvl[s[Len(s)]] = 0 /\ key <= ns[s[Len(s)]].key
  <2>1. \A i \in 1 .. Len(s) : s[i] \in UsedIn(ns) /\ lvl[s[i]] = lvl[root] + 1 - i /\ key <= ns[s[i]].key
    BY DEF Leads
  <2>2. lvl[root] + 1 - Len(s) = 0 BY <1>1, <1>2
  <2> QED BY <1>2, <2>1, <2>2
<1>4. ns[s[Len(s)]].leaf BY <1>3 DEF Levels
<1> QED BY <1>1, <1>2, <1>3, <1>4 DEF Last

(* find gives the entry with the key if the tree has one.                  *)
LEMMA FindIs ==
  ASSUME NEW lvl, NEW lo, IsTree(nodes, rootFpos, lvl, lo), Branching(nodes), NEW key \in Keys
  PROVE  /\ AtLeaf(Path(key))
         /\ \A e \in Kept(nodes) : e.key = key => Find(Path(key), key) = e
         /\ Find(Path(key), key) # NoEntry =>
              /\ Find(Path(key), key) \in Kept(nodes) /\ Find(Path(key), key).key = key
              /\ Last(Path(key)) \in UsedIn(nodes)
              /\ IndexOf(ChildKeys(nodes, Last(Path(key))), key) \in Places(nodes, Last(Path(key)))
              /\ HoldsAt(nodes, Find(Path(key), key), Last(Path(key)),
                         IndexOf(ChildKeys(nodes, Last(Path(key))), key))
         /\ (\A e \in Kept(nodes) : e.key # key) => Find(Path(key), key) = NoEntry
<1>1. Typed(nodes) /\ Levels(nodes, rootFpos, lvl) /\ Linked(nodes, rootFpos) /\ Ordered(nodes, lo) BY DEF IsTree
<1>2. key \in Nat /\ key \in 0 .. Infinity /\ key # 0 BY NoNodeIs DEF Keys, Infinity
<1>3. PICK s : s = Path(key) OBVIOUS
<1>4. Leads(nodes, lvl, rootFpos, key, s) BY <1>2, <1>3, PathIs
<1>5. PICK p \in UsedIn(nodes) : p = Last(s) /\ nodes[p].leaf /\ s # <<>> BY <1>1, <1>2, <1>4, LeafOfPath
<1>6. PICK i : i = IndexOf(ChildKeys(nodes, p), key) OBVIOUS
<1>7. PICK f : f = Find(s, key) OBVIOUS
<1>8. AtLeaf(s) BY <1>5 DEF AtLeaf
<1>9. f = IF i # 0 THEN nodes[p].inner[i] ELSE NoEntry BY <1>5, <1>6, <1>7, <1>8 DEF Find
<1>10. /\ (i = 0 /\ \A j \in Places(nodes, p) : KeyAt(nodes, p, j) # key)
          \/ (i \in Places(nodes, p) /\ KeyAt(nodes, p, i) = key)
       /\ \A j \in Places(nodes, p) : KeyAt(nodes, p, j) = key => i = j
  BY <1>1, <1>2, <1>6, IndexOfIs
<1>11. ASSUME NEW e \in Kept(nodes), e.key = key PROVE i \in Places(nodes, p) /\ f = e
  <2>1. PICK q \in UsedIn(nodes) : \E j \in Places(nodes, q) : HoldsAt(nodes, e, q, j) BY DEF Kept
  <2>2. PICK j \in Places(nodes, q) : HoldsAt(nodes, e, q, j) BY <2>1
  <2>3. e \in Entries BY DEF Kept
  <2>4. q = Last(s) /\ IndexOf(ChildKeys(nodes, q), key) = j BY <1>4, <1>11, <2>2, <2>3, EntryIs
  <2>5. j # 0 BY DEF Places
  <2> QED BY <1>5, <1>6, <1>9, <2>2, <2>4, <2>5 DEF HoldsAt
<1>12. ASSUME i \in Places(nodes, p)
       PROVE  f \in Kept(nodes) /\ f.key = key /\ HoldsAt(nodes, f, p, i)
  <2>1. i # 0 BY <1>12 DEF Places
  <2>2. f = nodes[p].inner[i] BY <1>9, <2>1
  <2>3. KeyAt(nodes, p, i) = key BY <1>10, <2>1
  <2>4. f \in Entries /\ f.key = key BY <1>1, <1>5, <1>12, <2>2, <2>3, ChildrenAre
  <2>5. HoldsAt(nodes, f, p, i) BY <1>5, <2>2 DEF HoldsAt
  <2> QED BY <1>12, <2>4, <2>5 DEF Kept
<1>13. CASE i \in Places(nodes, p)
  <2>1. \A e \in Kept(nodes) : e.key = key => f = e BY <1>11
  <2> QED BY <1>3, <1>5, <1>6, <1>7, <1>8, <1>12, <1>13, <2>1
<1>14. CASE i = 0
  <2>1. f = NoEntry BY <1>9, <1>14
  <2>2. 0 \notin Places(nodes, p) BY DEF Places
  <2> QED BY <1>3, <1>5, <1>6, <1>7, <1>8, <1>11, <1>14, <2>1, <2>2
<1> QED BY <1>10, <1>13, <1>14

(* No two entries have one key.                                            *)
LEMMA KeptIsMap ==
  ASSUME NEW lvl, NEW lo, IsTree(nodes, rootFpos, lvl, lo), Branching(nodes)
  PROVE  \A e, f \in Kept(nodes) : e.key = f.key => e = f
<1> SUFFICES ASSUME NEW e \in Kept(nodes), NEW f \in Kept(nodes), e.key = f.key PROVE e = f OBVIOUS
<1>1. e.key \in Keys BY DEF Kept, Entries
<1> QED BY <1>1, FindIs

-----------------------------------------------------------------------------
(* The children of a node as a set.                                        *)
LEMMA ChildSet ==
  ASSUME NEW ns, NEW root, NEW lvl, Typed(ns), Levels(ns, root, lvl), NEW p \in UsedIn(ns)
  PROVE  /\ ToSet(ns[p].inner) = {ns[p].inner[i] : i \in Places(ns, p)}
         /\ ~ns[p].leaf => \A c \in ToSet(ns[p].inner) :
              /\ c \in UsedIn(ns) /\ c \in Blocks /\ lvl[c] = lvl[p] - 1
              /\ Heights(ns, lvl)[c] < Heights(ns, lvl)[p]
              /\ \E i \in Places(ns, p) : c = ns[p].inner[i]
<1>1. p \in Blocks BY DEF UsedIn
<1>2. DOMAIN ns[p].inner = Places(ns, p) BY <1>1, FieldsAre
<1>3. ToSet(ns[p].inner) = {ns[p].inner[i] : i \in Places(ns, p)} BY <1>2 DEF ToSet
<1>4. ASSUME ~ns[p].leaf, NEW i \in Places(ns, p)
      PROVE  /\ ns[p].inner[i] \in UsedIn(ns) /\ ns[p].inner[i] \in Blocks
             /\ lvl[ns[p].inner[i]] = lvl[p] - 1
             /\ Heights(ns, lvl)[ns[p].inner[i]] < Heights(ns, lvl)[p]
  <2>1. p \in InnerIn(ns) BY <1>4 DEF InnerIn
  <2> QED BY <1>4, <2>1, ChildrenAre, HeightsAre
<1> QED BY <1>3, <1>4

(* What is below a node is the node and what is below its children.        *)
LEMMA BelowIs ==
  ASSUME NEW lvl, Typed(nodes), Levels(nodes, rootFpos, lvl)
  PROVE  \E D \in [Blocks -> SUBSET Blocks] : \A p \in Blocks : Below(p) = D[p] /\ D[p] = BelowOf(D, p)
<1> DEFINE V == SUBSET Blocks
           G == [r \in [Blocks -> V] \X Blocks |-> BelowOf(r[1], r[2])]
           IsDown(f) == f = [q \in Blocks |->
             IF nodes[q] = NoNode THEN {}
             ELSE {q} \cup IF nodes[q].leaf THEN {} ELSE UNION {f[c] : c \in ToSet(nodes[q].inner)}]
           Down == CHOOSE f : IsDown(f)
           n == lvl[rootFpos]
           h == Heights(nodes, lvl)
<1>1. n \in Nat /\ h \in [Blocks -> 0 .. n] /\ V # {} BY HeightsAre
<1>2. \A p \in Blocks : nodes[p] # NoNode => p \in UsedIn(nodes) BY DEF UsedIn
<1>3. Gives(Blocks, V, G)
  <2> SUFFICES ASSUME NEW f \in [Blocks -> V], NEW p \in Blocks PROVE G[<<f, p>>] \in V BY DEF Gives
  <2>1. G[<<f, p>>] = BelowOf(f, p) OBVIOUS
  <2>2. nodes[p] # NoNode /\ ~nodes[p].leaf => \A c \in ToSet(nodes[p].inner) : f[c] \in V BY <1>2, ChildSet
  <2> QED BY <2>1, <2>2 DEF BelowOf
<1>4. LooksDown(Blocks, V, h, G)
  <2> SUFFICES ASSUME NEW f \in [Blocks -> V], NEW g \in [Blocks -> V], NEW p \in Blocks,
                      \A q \in Blocks : h[q] < h[p] => f[q] = g[q]
               PROVE  G[<<f, p>>] = G[<<g, p>>] BY DEF LooksDown
  <2>1. G[<<f, p>>] = BelowOf(f, p) /\ G[<<g, p>>] = BelowOf(g, p) OBVIOUS
  <2>2. nodes[p] # NoNode /\ ~nodes[p].leaf => \A c \in ToSet(nodes[p].inner) : f[c] = g[c] BY <1>2, ChildSet
  <2> HIDE DEF G, h, V
  <2>3. nodes[p] # NoNode /\ ~nodes[p].leaf =>
          {f[c] : c \in ToSet(nodes[p].inner)} = {g[c] : c \in ToSet(nodes[p].inner)} BY <2>2
  <2> QED BY <2>1, <2>3 DEF BelowOf
<1>5. PICK f \in [Blocks -> V] : \A p \in Blocks : f[p] = G[<<f, p>>]
  <2> HIDE DEF V, G, n, h
  <2>1. PICK f \in [Blocks -> V] : Solves(f, Blocks, G) BY <1>1, <1>3, <1>4, LevelsDefine
  <2> QED BY <2>1 DEF Solves
<1>6. \A p \in Blocks : f[p] = BelowOf(f, p) BY <1>5
<1>7. IsDown(f)
  <2>1. f = [p \in Blocks |-> f[p]] OBVIOUS
  <2>2. [p \in Blocks |-> f[p]] = [p \in Blocks |-> BelowOf(f, p)] BY <1>6
  <2>3. f = [p \in Blocks |-> BelowOf(f, p)] BY <2>1, <2>2
  <2> QED BY <2>3 DEF BelowOf
<1>8. IsDown(Down)
  <2> HIDE DEF IsDown
  <2> QED BY <1>7
<1>9. \A p \in Blocks : Below(p) = Down[p] BY DEF Below
<1> HIDE DEF Down
<1>10. Down = [p \in Blocks |-> BelowOf(Down, p)] BY <1>8 DEF BelowOf
<1>11. \A p \in Blocks : Down[p] = BelowOf(Down, p) BY <1>10
(* What is below a node are blocks.                                        *)
<1>12. ASSUME NEW p \in Blocks, \A q \in Blocks : h[q] < h[p] => Down[q] \in V PROVE Down[p] \in V
  <2>1. nodes[p] # NoNode /\ ~nodes[p].leaf => \A c \in ToSet(nodes[p].inner) : Down[c] \in V
    BY <1>2, <1>12, ChildSet
  <2>2. Down[p] = BelowOf(Down, p) BY <1>11
  <2>3. \A x \in BelowOf(Down, p) : x \in Blocks BY <2>1 DEF BelowOf
  <2> QED BY <2>2, <2>3
<1> DEFINE U == {k \in Nat : \A p \in Blocks : h[p] < k => Down[p] \in V}
<1>13. 0 \in U BY <1>1
<1>14. ASSUME NEW k \in Nat, k \in U PROVE k + 1 \in U
  <2> HIDE DEF V, h
  <2> SUFFICES ASSUME NEW p \in Blocks, h[p] < k + 1 PROVE Down[p] \in V OBVIOUS
  <2>1. \A q \in Blocks : h[q] < h[p] => Down[q] \in V BY <1>1, <1>14
  <2> QED BY <1>12, <2>1
<1>15. n + 1 \in U
  <2> HIDE DEF U, n
  <2>1. n + 1 \in Nat BY <1>1
  <2> QED BY <1>13, <1>14, <2>1, NatUpwards
<1>16. \A p \in Blocks : Down[p] \in V BY <1>1, <1>15
<1>17. Down \in [Blocks -> V]
  <2>1. Down = [p \in Blocks |-> Down[p]] BY <1>10, <1>11
  <2> HIDE DEF V
  <2> QED BY <1>16, <2>1
<1> QED BY <1>9, <1>11, <1>17

-----------------------------------------------------------------------------
(* What is below a child lies between its bounds.                          *)
LEMMA BelowHolds ==
  ASSUME NEW lvl, NEW lo, IsTree(nodes, rootFpos, lvl, lo)
  PROVE  /\ \A p \in UsedIn(nodes) : Within(lo, p)
         /\ \A p \in UsedIn(nodes) : Below(p) = {p} \cup IF nodes[p].leaf THEN {}
                                                    ELSE UNION {Below(c) : c \in ToSet(nodes[p].inner)}
<1>1. Typed(nodes) /\ Levels(nodes, rootFpos, lvl) /\ Linked(nodes, rootFpos) /\ Ordered(nodes, lo) BY DEF IsTree
<1>2. PICK D \in [Blocks -> SUBSET Blocks] : \A p \in Blocks : Below(p) = D[p] /\ D[p] = BelowOf(D, p)
  BY <1>1, BelowIs
<1>3. \A p \in UsedIn(nodes) : p \in Blocks /\ nodes[p] # NoNode /\ lvl[p] \in Nat
  BY <1>1 DEF UsedIn, Levels
<1>4. ASSUME NEW p \in UsedIn(nodes)
      PROVE  Below(p) = {p} \cup IF nodes[p].leaf THEN {} ELSE UNION {Below(c) : c \in ToSet(nodes[p].inner)}
  <2>1. D[p] = {p} \cup IF nodes[p].leaf THEN {} ELSE UNION {D[c] : c \in ToSet(nodes[p].inner)}
    BY <1>2, <1>3 DEF BelowOf
  <2>2. ~nodes[p].leaf => \A c \in ToSet(nodes[p].inner) : D[c] = Below(c) BY <1>1, <1>2, ChildSet
  <2>3. ~nodes[p].leaf => {D[c] : c \in ToSet(nodes[p].inner)} = {Below(c) : c \in ToSet(nodes[p].inner)}
    BY <2>2
  <2>4. Below(p) = D[p] BY <1>2, <1>3
  <2> QED BY <2>1, <2>3, <2>4
<1> DEFINE T == {k \in Nat : \A p \in UsedIn(nodes) : lvl[p] = k => Within(lo, p)}
<1>5. ASSUME NEW p \in UsedIn(nodes), nodes[p].leaf PROVE Within(lo, p)
  <2>1. Below(p) = {p} BY <1>4, <1>5
  <2> QED BY <1>1, <2>1 DEF Within, Ordered
<1>6. ASSUME NEW p \in UsedIn(nodes), ~nodes[p].leaf,
             \A c \in ToSet(nodes[p].inner) : Within(lo, c)
      PROVE  Within(lo, p)
  <2>1. Below(p) = {p} \cup UNION {Below(c) : c \in ToSet(nodes[p].inner)} BY <1>4, <1>6
  <2>2. p \in Below(p) /\ Below(p) \subseteq UsedIn(nodes) BY <1>6, <2>1 DEF Within
  <2>3. \A x \in Below(p) : Below(x) \subseteq Below(p) BY <1>6, <2>1 DEF Within
  <2>4. ASSUME NEW x \in Below(p), nodes[x].leaf, NEW i \in Places(nodes, x)
        PROVE  lo[p] < KeyAt(nodes, x, i) /\ KeyAt(nodes, x, i) <= nodes[p].key
    <3>1. PICK c \in ToSet(nodes[p].inner) : x \in Below(c) BY <1>6, <2>1, <2>4
    <3>2. PICK j \in Places(nodes, p) : c = nodes[p].inner[j] BY <1>1, <1>6, ChildSet
    <3>3. lo[c] < KeyAt(nodes, x, i) /\ KeyAt(nodes, x, i) <= nodes[c].key BY <1>6, <2>4, <3>1 DEF Within
    <3>4. KeyAt(nodes, p, j) = nodes[c].key /\ c \in Blocks /\ p \in Blocks
      BY <1>1, <1>3, <1>6, <3>2, ChildrenAre
    <3>5. lo[p] <= lo[c] /\ KeyAt(nodes, p, j) <= nodes[p].key BY <1>1, <1>6, <3>2 DEF Ordered
    <3>6. lo[p] \in Nat /\ lo[c] \in Nat /\ nodes[p].key \in Nat /\ nodes[c].key \in Nat
      BY <1>1, <3>4, FieldsAre DEF Ordered
    <3>7. KeyAt(nodes, x, i) \in Nat BY <1>1, <2>2, ChildrenAre
    <3> QED BY <3>3, <3>4, <3>5, <3>6, <3>7
  <2> QED BY <2>2, <2>3, <2>4 DEF Within
<1>7. 0 \in T BY <1>1, <1>5 DEF Levels
<1>8. ASSUME NEW k \in Nat, k \in T PROVE k + 1 \in T
  <2> SUFFICES ASSUME NEW p \in UsedIn(nodes), lvl[p] = k + 1 PROVE Within(lo, p) OBVIOUS
  <2>1. ~nodes[p].leaf => \A c \in ToSet(nodes[p].inner) : c \in UsedIn(nodes) /\ lvl[c] = lvl[p] - 1
    BY <1>1, ChildSet
  <2>2. lvl[p] - 1 = k OBVIOUS
  <2> QED BY <1>5, <1>6, <1>8, <2>1, <2>2
<1>9. Nat \subseteq T
  <2> HIDE DEF T
  <2> QED BY <1>7, <1>8, NatUpwards
<1> QED BY <1>3, <1>4, <1>9

(* What is in use is below the root.                                       *)
LEMMA BelowRoot ==
  ASSUME NEW lvl, NEW lo, IsTree(nodes, rootFpos, lvl, lo)
  PROVE  UsedIn(nodes) = Below(rootFpos) /\ Used = UsedIn(nodes)
<1>1. Typed(nodes) /\ Levels(nodes, rootFpos, lvl) /\ Linked(nodes, rootFpos) BY DEF IsTree
<1> DEFINE n == lvl[rootFpos]
           T == {k \in Nat : k <= n => \A q \in UsedIn(nodes) : lvl[q] = n - k => q \in Below(rootFpos)}
<1>2. n \in Nat /\ \A q \in UsedIn(nodes) : lvl[q] \in 0 .. n BY <1>1, HeightsAre
<1>3. Within(lo, rootFpos) /\ rootFpos \in UsedIn(nodes) BY <1>1, BelowHolds DEF Levels
<1>4. 0 \in T
  <2> SUFFICES ASSUME NEW q \in UsedIn(nodes), lvl[q] = n, q # rootFpos PROVE FALSE BY <1>2, <1>3 DEF Within
  <2>1. PICK p \in InnerIn(nodes) : p \in UsedIn(nodes) /\ lvl[p] = lvl[q] + 1 BY <1>1, ParentIs
  <2>2. lvl[p] \in 0 .. n BY <1>2, <2>1
  <2> QED BY <1>2, <2>1, <2>2
<1>5. ASSUME NEW k \in Nat, k \in T PROVE k + 1 \in T
  <2> SUFFICES ASSUME k + 1 <= n, NEW q \in UsedIn(nodes), lvl[q] = n - (k + 1) PROVE q \in Below(rootFpos) OBVIOUS
  <2>1. q # rootFpos BY <1>2
  <2>2. PICK p \in InnerIn(nodes) : \E i \in Places(nodes, p) :
           nodes[p].inner[i] = q /\ p \in UsedIn(nodes) /\ ~nodes[p].leaf /\ lvl[p] = lvl[q] + 1
    BY <1>1, <2>1, ParentIs
  <2>3. p \in Below(rootFpos) BY <1>2, <1>5, <2>2
  <2>4. q \in ToSet(nodes[p].inner) BY <1>1, <2>2, ChildSet
  <2>5. q \in UsedIn(nodes) /\ Within(lo, q) BY BelowHolds
  <2>6. q \in Below(p) BY <2>2, <2>4, <2>5, BelowHolds DEF Within
  <2>7. Below(p) \subseteq Below(rootFpos) BY <1>3, <2>3 DEF Within
  <2> QED BY <2>6, <2>7
<1>6. Nat \subseteq T
  <2> HIDE DEF T
  <2> QED BY <1>4, <1>5, NatUpwards
<1>7. ASSUME NEW q \in UsedIn(nodes) PROVE q \in Below(rootFpos)
  <2>1. n - lvl[q] \in T /\ n - lvl[q] <= n /\ n - (n - lvl[q]) = lvl[q] BY <1>2, <1>6
  <2> QED BY <2>1
<1> QED BY <1>3, <1>7 DEF Within, Used, UsedIn

(* The entries of the whole tree.                                          *)
LEMMA EntriesAre ==
  ASSUME NEW lvl, NEW lo, IsTree(nodes, rootFpos, lvl, lo)
  PROVE  EntriesIn(Below(rootFpos)) = Kept(nodes)
<1>1. Typed(nodes) /\ Levels(nodes, rootFpos, lvl) BY DEF IsTree
<1>2. EntriesIn(Below(rootFpos)) = UNION {ToSet(nodes[p].inner) : p \in {q \in UsedIn(nodes) : nodes[q].leaf}}
  BY BelowRoot DEF EntriesIn
<1>3. \A p \in UsedIn(nodes) : ToSet(nodes[p].inner) = {nodes[p].inner[i] : i \in Places(nodes, p)}
  BY <1>1, ChildSet
<1>4. \A p \in UsedIn(nodes) : nodes[p].leaf => \A i \in Places(nodes, p) : nodes[p].inner[i] \in Entries
  BY <1>1 DEF Levels
<1>5. ASSUME NEW e \in Kept(nodes) PROVE e \in EntriesIn(Below(rootFpos))
  <2>1. PICK p \in UsedIn(nodes) : \E i \in Places(nodes, p) : HoldsAt(nodes, e, p, i) BY DEF Kept
  <2> QED BY <1>2, <1>3, <2>1 DEF HoldsAt
<1>6. ASSUME NEW e \in EntriesIn(Below(rootFpos)) PROVE e \in Kept(nodes)
  <2>1. PICK p \in UsedIn(nodes) : nodes[p].leaf /\ e \in ToSet(nodes[p].inner) BY <1>2
  <2>2. PICK i \in Places(nodes, p) : e = nodes[p].inner[i] BY <1>3, <2>1
  <2> QED BY <1>4, <2>1, <2>2 DEF Kept, HoldsAt
<1> QED BY <1>5, <1>6

-----------------------------------------------------------------------------
(* All leaves are as far below a node as its level says.                   *)
LEMMA LeafDepthsAre ==
  ASSUME NEW lvl, NEW lo, IsTree(nodes, rootFpos, lvl, lo), Branching(nodes)
  PROVE  LeafDepths(rootFpos) = {lvl[rootFpos]}
<1> DEFINE V == SUBSET Nat
           DepthOf(D, q) == IF nodes[q].leaf THEN {0}
                            ELSE {d + 1 : d \in UNION {D[c] : c \in ToSet(nodes[q].inner)}}
           G == [r \in [Blocks -> V] \X Blocks |-> DepthOf(r[1], r[2])]
           IsDown(f) == f = [q \in Blocks |->
             IF nodes[q].leaf THEN {0} ELSE {d + 1 : d \in UNION {f[c] : c \in ToSet(nodes[q].inner)}}]
           Down == CHOOSE f : IsDown(f)
           n == lvl[rootFpos]
           h == Heights(nodes, lvl)
<1>0. Typed(nodes) /\ Levels(nodes, rootFpos, lvl) BY DEF IsTree
<1>1. n \in Nat /\ h \in [Blocks -> 0 .. n] /\ V # {} BY <1>0, HeightsAre
<1>2. \A p \in Blocks : ~nodes[p].leaf => p \in UsedIn(nodes) BY NoNodeIs DEF UsedIn
<1>3. Gives(Blocks, V, G)
  <2> SUFFICES ASSUME NEW f \in [Blocks -> V], NEW p \in Blocks PROVE G[<<f, p>>] \in V BY DEF Gives
  <2>1. G[<<f, p>>] = DepthOf(f, p) OBVIOUS
  <2>2. ~nodes[p].leaf => \A c \in ToSet(nodes[p].inner) : f[c] \in V BY <1>0, <1>2, ChildSet
  <2>3. \A x \in DepthOf(f, p) : x \in Nat
    <3>1. ~nodes[p].leaf => \A d \in UNION {f[c] : c \in ToSet(nodes[p].inner)} : d \in Nat BY <2>2
    <3> QED BY <3>1
  <2> QED BY <2>1, <2>3
<1>4. LooksDown(Blocks, V, h, G)
  <2> SUFFICES ASSUME NEW f \in [Blocks -> V], NEW g \in [Blocks -> V], NEW p \in Blocks,
                      \A q \in Blocks : h[q] < h[p] => f[q] = g[q]
               PROVE  G[<<f, p>>] = G[<<g, p>>] BY DEF LooksDown
  <2>1. G[<<f, p>>] = DepthOf(f, p) /\ G[<<g, p>>] = DepthOf(g, p) OBVIOUS
  <2>2. ~nodes[p].leaf => \A c \in ToSet(nodes[p].inner) : f[c] = g[c] BY <1>0, <1>2, ChildSet
  <2> HIDE DEF G, h, V
  <2>3. ~nodes[p].leaf =>
          {f[c] : c \in ToSet(nodes[p].inner)} = {g[c] : c \in ToSet(nodes[p].inner)} BY <2>2
  <2> QED BY <2>1, <2>3
<1>5. PICK f \in [Blocks -> V] : \A p \in Blocks : f[p] = G[<<f, p>>]
  <2> HIDE DEF V, G, n, h
  <2>1. PICK f \in [Blocks -> V] : Solves(f, Blocks, G) BY <1>1, <1>3, <1>4, LevelsDefine
  <2> QED BY <2>1 DEF Solves
<1>6. IsDown(f)
  <2>1. \A p \in Blocks : f[p] = DepthOf(f, p)
    <3>1. \A p \in Blocks : G[<<f, p>>] = DepthOf(f, p) OBVIOUS
    <3> HIDE DEF G, DepthOf
    <3> QED BY <1>5, <3>1
  <2>2. f = [p \in Blocks |-> f[p]] OBVIOUS
  <2> HIDE DEF DepthOf
  <2>3. f = [p \in Blocks |-> DepthOf(f, p)] BY <2>1, <2>2
  <2> QED BY <2>3 DEF DepthOf
<1>7. IsDown(Down)
  <2> HIDE DEF IsDown
  <2> QED BY <1>6
<1>8. LeafDepths(rootFpos) = Down[rootFpos] BY DEF LeafDepths
<1> HIDE DEF Down
<1>9. \A p \in Blocks : Down[p] = DepthOf(Down, p)
  <2> HIDE DEF DepthOf
  <2>1. Down = [p \in Blocks |-> DepthOf(Down, p)] BY <1>7 DEF DepthOf
  <2> QED BY <2>1
<1> DEFINE T == {k \in Nat : \A p \in UsedIn(nodes) : lvl[p] = k => Down[p] = {k}}
<1>10. 0 \in T
  <2> SUFFICES ASSUME NEW p \in UsedIn(nodes), lvl[p] = 0 PROVE Down[p] = {0} OBVIOUS
  <2>1. nodes[p].leaf /\ p \in Blocks BY <1>0 DEF Levels, UsedIn
  <2> QED BY <1>9, <2>1
<1>11. ASSUME NEW k \in Nat, k \in T PROVE k + 1 \in T
  <2> SUFFICES ASSUME NEW p \in UsedIn(nodes), lvl[p] = k + 1 PROVE Down[p] = {k + 1} OBVIOUS
  <2>1. ~nodes[p].leaf BY <1>0 DEF Levels
  <2>2. p \in Blocks /\ p \in InnerIn(nodes) BY <2>1 DEF UsedIn, InnerIn
  <2>3. \A c \in ToSet(nodes[p].inner) : c \in UsedIn(nodes) /\ lvl[c] = lvl[p] - 1 BY <1>0, <2>1, ChildSet
  <2>4. lvl[p] - 1 = k OBVIOUS
  <2>5. \A c \in ToSet(nodes[p].inner) : Down[c] = {k} BY <1>11, <2>3, <2>4
  <2>6. ToSet(nodes[p].inner) # {}
    <3>1. nodes[p].inner # <<>> /\ nodes[p].inner \in Seq(Children) BY <1>0, <2>2, FieldsAre DEF Branching
    <3>2. 1 \in Places(nodes, p) BY <3>1 DEF Places
    <3>3. ToSet(nodes[p].inner) = {nodes[p].inner[i] : i \in Places(nodes, p)} BY <1>0, ChildSet
    <3> QED BY <3>2, <3>3
  <2>7. UNION {Down[c] : c \in ToSet(nodes[p].inner)} = {k} BY <2>5, <2>6
  <2>8. Down[p] = {d + 1 : d \in UNION {Down[c] : c \in ToSet(nodes[p].inner)}} BY <1>9, <2>1, <2>2
  <2> QED BY <2>7, <2>8
<1>12. Nat \subseteq T
  <2> HIDE DEF T
  <2> QED BY <1>10, <1>11, NatUpwards
<1> QED BY <1>0, <1>1, <1>8, <1>12 DEF Levels

-----------------------------------------------------------------------------
(* What the invariant says of the tree.                                    *)
LEMMA InvBranching ==
  ASSUME TreeInv
  PROVE  /\ Branching(nodes)
         /\ \E lvl, lo \in [Blocks -> Nat] : IsTree(nodes, rootFpos, lvl, lo)
<1>1. \E lvl, lo \in [Blocks -> Nat] : IsTree(nodes, rootFpos, lvl, lo) BY DEF TreeInv
<1>2. ASSUME NEW p \in InnerIn(nodes) PROVE nodes[p].inner # <<>>
  <2>1. CASE p = rootFpos
    <3>1. Len(nodes[p].inner) > 1 BY <1>2, <2>1 DEF TreeInv, InnerIn
    <3> QED BY <3>1
  <2>2. CASE p # rootFpos BY <1>2, <2>2 DEF TreeInv, Filled, InnerIn
  <2> QED BY <2>1, <2>2
<1> QED BY <1>1, <1>2 DEF Branching

(* A tree with the invariant is well formed.                               *)
LEMMA TreeWellFormed ==
  ASSUME TreeInv, scan = NoScan \/ ToSet(scan.stack) \subseteq Frames
  PROVE  WellFormed
<1>1. PICK lvl, lo \in [Blocks -> Nat] : IsTree(nodes, rootFpos, lvl, lo) BY InvBranching
<1>2. Branching(nodes) BY InvBranching
<1>3. Typed(nodes) /\ Levels(nodes, rootFpos, lvl) /\ Linked(nodes, rootFpos) /\ Ordered(nodes, lo)
      /\ Ends(nodes, {}) BY <1>1 DEF IsTree
<1>4. UsedIn(nodes) = Below(rootFpos) /\ Used = UsedIn(nodes) BY <1>1, BelowRoot
<1>5. rootFpos \in UsedIn(nodes) /\ rootFpos \in Blocks BY <1>3 DEF Levels, UsedIn
<1>6. TypeOK
  <2>1. ASSUME NEW b \in Blocks, nodes[b] # NoNode
        PROVE  /\ nodes[b].key \in Keys \cup {Infinity} /\ Len(nodes[b].inner) <= NodeNumber
               /\ ToSet(nodes[b].inner) \subseteq (IF nodes[b].leaf THEN Entries ELSE Blocks)
    <3>1. b \in UsedIn(nodes) BY <2>1 DEF UsedIn
    <3>2. nodes[b].key \in 0 .. Infinity /\ nodes[b].key # 0 BY <1>3, <3>1, FieldsAre DEF Levels
    <3>3. nodes[b].key \in Keys \cup {Infinity} BY <3>2, NoNodeIs DEF Keys, Infinity
    <3>4. \A i \in Places(nodes, b) : nodes[b].inner[i] \in IF nodes[b].leaf THEN Entries ELSE Blocks
      BY <1>3, <3>1, ChildrenAre
    <3>5. ToSet(nodes[b].inner) = {nodes[b].inner[i] : i \in Places(nodes, b)} BY <1>3, <3>1, ChildSet
    <3>6. Len(nodes[b].inner) <= NodeNumber BY <3>1 DEF TreeInv, Limited
    <3> QED BY <3>3, <3>4, <3>5, <3>6
  <2> QED BY <1>5, <2>1 DEF TypeOK, TreeInv
<1>7. NoLeak BY <1>4 DEF NoLeak
<1>8. Shape
  <2>1. \A p \in Below(rootFpos) : nodes[p].root <=> p = rootFpos BY <1>4 DEF TreeInv, Flagged
  <2>2. \A p \in Below(rootFpos) \ {rootFpos} : nodes[p].inner # <<>> BY <1>4 DEF TreeInv, Filled
  <2>3. nodes[rootFpos].leaf \/ Len(nodes[rootFpos].inner) > 1 BY DEF TreeInv
  <2>4. Cardinality(LeafDepths(rootFpos)) = 1 BY <1>1, <1>2, LeafDepthsAre, FS_Singleton
  <2> QED BY <2>1, <2>2, <2>3, <2>4 DEF Shape
<1>9. Separated
  <2> SUFFICES ASSUME NEW p \in Below(rootFpos)
               PROVE  LET keys == ChildKeys(nodes, p)
                      IN  /\ \A i, j \in DOMAIN keys : i < j => keys[i] < keys[j]
                          /\ \A i \in DOMAIN keys : keys[i] <= nodes[p].key
                          /\ ~nodes[p].leaf =>
                               /\ keys[Len(keys)] = nodes[p].key
                               /\ \A i \in DOMAIN keys : \A e \in EntriesIn(Below(nodes[p].inner[i])) :
                                    e.key <= keys[i] /\ (i > 1 => keys[i - 1] < e.key)
    BY DEF Separated
  <2>0. PICK keys : keys = ChildKeys(nodes, p) OBVIOUS
  <2>1. p \in UsedIn(nodes) /\ p \in Blocks BY <1>4 DEF UsedIn
  <2>2. keys \in Seq(Nat) /\ Len(keys) = Len(nodes[p].inner)
        /\ \A i \in Places(nodes, p) : keys[i] = KeyAt(nodes, p, i) BY <1>3, <2>0, <2>1, ChildKeysAre
  <2>3. DOMAIN keys = Places(nodes, p) BY <2>2 DEF Places
  <2>4. \A i, j \in DOMAIN keys : i < j => keys[i] < keys[j] BY <1>3, <2>1, <2>2, <2>3 DEF Ordered
  <2>5. \A i \in DOMAIN keys : keys[i] <= nodes[p].key BY <1>3, <2>1, <2>2, <2>3 DEF Ordered
  <2>6. ASSUME ~nodes[p].leaf PROVE keys[Len(keys)] = nodes[p].key
    <3>1. p \in InnerIn(nodes) /\ nodes[p].inner # <<>> BY <1>2, <2>1, <2>6 DEF InnerIn, Branching
    <3>2. KeyAt(nodes, p, Len(nodes[p].inner)) = nodes[p].key BY <1>3, <3>1 DEF Ends
    <3>3. nodes[p].inner \in Seq(Children) BY <1>3, <2>1, FieldsAre
    <3>4. Len(nodes[p].inner) \in Places(nodes, p) BY <3>1, <3>3 DEF Places
    <3> QED BY <2>2, <3>2, <3>4
  <2>7. ASSUME ~nodes[p].leaf, NEW i \in DOMAIN keys, NEW e \in EntriesIn(Below(nodes[p].inner[i]))
        PROVE  e.key <= keys[i] /\ (i > 1 => keys[i - 1] < e.key)
    <3>0. i \in Places(nodes, p) /\ i \in Nat /\ (i > 1 => i - 1 \in Places(nodes, p)) BY <2>3 DEF Places
    <3>1. PICK c \in UsedIn(nodes) : c = nodes[p].inner[i] /\ c \in Blocks /\ KeyAt(nodes, p, i) = nodes[c].key
      BY <1>3, <2>1, <2>7, <3>0, ChildrenAre
    <3>2. Within(lo, c) BY <1>1, BelowHolds
    <3>3. PICK x \in Below(c) : nodes[x].leaf /\ e \in ToSet(nodes[x].inner) BY <3>1 DEF EntriesIn
    <3>4. x \in UsedIn(nodes) BY <3>2 DEF Within
    <3>5. PICK j \in Places(nodes, x) : e = nodes[x].inner[j] BY <1>3, <3>3, <3>4, ChildSet
    <3>6. KeyAt(nodes, x, j) = e.key /\ KeyAt(nodes, x, j) \in Nat BY <1>3, <3>3, <3>4, <3>5, ChildrenAre
    <3>7. lo[c] < e.key /\ e.key <= nodes[c].key BY <3>2, <3>3, <3>5, <3>6 DEF Within
    <3>8. i > 1 => KeyAt(nodes, p, i - 1) <= lo[c] BY <1>3, <2>1, <2>7, <3>0, <3>1 DEF Ordered
    <3>9. lo[c] \in Nat /\ (i > 1 => KeyAt(nodes, p, i - 1) \in Nat) BY <1>3, <2>1, <3>0, <3>1, ChildrenAre DEF Ordered
    <3> QED BY <2>2, <3>0, <3>1, <3>6, <3>7, <3>8, <3>9
  <2> QED BY <2>0, <2>4, <2>5, <2>6, <2>7
<1> QED BY <1>6, <1>7, <1>8, <1>9 DEF WellFormed

(* In a tree with the invariant findByKey finds what is there, no more.    *)
LEMMA TreeSearchFindsAll == TreeInv => SearchFindsAll
<1> SUFFICES ASSUME TreeInv PROVE SearchFindsAll OBVIOUS
<1>1. PICK lvl, lo \in [Blocks -> Nat] : IsTree(nodes, rootFpos, lvl, lo) BY InvBranching
<1>2. Branching(nodes) BY InvBranching
<1>3. EntriesIn(Below(rootFpos)) = Kept(nodes) BY <1>1, EntriesAre
<1>4. ASSUME NEW key \in Keys
      PROVE  IF \E e \in Kept(nodes) : e.key = key
             THEN Find(Path(key), key) \in Kept(nodes) /\ Find(Path(key), key).key = key
             ELSE Find(Path(key), key) = NoEntry
  BY <1>1, <1>2, FindIs
<1> QED BY <1>3, <1>4 DEF SearchFindsAll

-----------------------------------------------------------------------------
(* Insertion.  The lower bounds on the path of a new key can be lowered    *)
(* below it.                                                               *)
LEMMA LowerBounds ==
  ASSUME NEW ns, NEW root, NEW lvl, NEW lo, IsTree(ns, root, lvl, lo),
         NEW key \in Nat \ {0}, NEW s, Leads(ns, lvl, root, key, s)
  PROVE  \E low \in [Blocks -> Nat] : IsTree(ns, root, lvl, low) /\ low[Last(s)] < key
<1> DEFINE on(b) == \E i \in 1 .. Len(s) : s[i] = b
           low == [b \in Blocks |-> IF on(b) /\ key <= lo[b] THEN key - 1 ELSE lo[b]]
<1>1. Typed(ns) /\ Levels(ns, root, lvl) /\ Linked(ns, root) /\ Ordered(ns, lo) /\ Ends(ns, {}) BY DEF IsTree
<1>2. \A b \in Blocks : lo[b] \in Nat BY <1>1 DEF Ordered
<1>3. low \in [Blocks -> Nat] BY <1>2
<1>4. \A b \in Blocks : low[b] <= lo[b] /\ low[b] \in Nat /\ (on(b) => low[b] < key) BY <1>2
<1>5. \A b \in Blocks : low[b] = lo[b] \/ (on(b) /\ low[b] = key - 1) OBVIOUS
<1> HIDE DEF low
<1>6. ASSUME NEW p \in UsedIn(ns), ~ns[p].leaf, NEW i \in Places(ns, p)
      PROVE  low[p] <= low[ns[p].inner[i]] /\ (i > 1 => KeyAt(ns, p, i - 1) <= low[ns[p].inner[i]])
  <2>1. PICK c \in UsedIn(ns) : c = ns[p].inner[i] /\ c # root /\ c \in Blocks BY <1>1, <1>6, ChildrenAre
  <2>2. lo[p] <= lo[c] /\ (i > 1 => KeyAt(ns, p, i - 1) <= lo[c]) BY <1>1, <1>6, <2>1 DEF Ordered
  <2>3. p \in Blocks /\ low[p] <= lo[p] /\ lo[p] \in Nat /\ lo[c] \in Nat /\ low[p] \in Nat
    BY <1>2, <1>4, <2>1 DEF UsedIn
  <2>4. CASE low[c] = lo[c] BY <2>1, <2>2, <2>3, <2>4
  <2>5. CASE on(c) /\ low[c] = key - 1
    <3>1. PICK j \in 1 .. Len(s) : s[j] = c BY <2>5
    <3>2. j # 1 BY <2>1, <3>1 DEF Leads
    <3>3. lvl[root] \in Nat /\ Len(s) = lvl[root] + 1 BY <1>1, HeightsAre DEF Leads
    <3>4. j - 1 \in 1 .. Len(s) - 1 /\ j - 1 \in 1 .. Len(s) /\ (j - 1) + 1 = j BY <3>2, <3>3
    <3>5. PICK q : q = s[j - 1] OBVIOUS
    <3>6. PICK k : k = NextChild(ChildKeys(ns, q), key) OBVIOUS
    <3>7. Goes(ns, q, key, k) /\ c = ns[q].inner[k] BY <3>1, <3>4, <3>5, <3>6 DEF Leads
    <3>8. q \in UsedIn(ns) /\ lvl[q] = lvl[root] + 1 - (j - 1) BY <3>4, <3>5 DEF Leads
    <3>9. lvl[q] # 0 BY <3>3, <3>4, <3>8
    <3>10. q \in InnerIn(ns) /\ p \in InnerIn(ns) BY <1>1, <1>6, <3>8, <3>9 DEF InnerIn, Levels
    <3>11. q = p /\ k = i
      <4>1. k \in Places(ns, q) /\ ns[q].inner[k] = ns[p].inner[i] BY <2>1, <3>7 DEF Goes
      <4> QED BY <1>1, <3>10, <4>1 DEF Linked
    <3>12. low[p] < key BY <1>4, <2>3, <3>4, <3>5, <3>11
    <3>13. i > 1 => KeyAt(ns, p, i - 1) < key /\ KeyAt(ns, p, i - 1) \in Nat
      <4>1. i > 1 => i - 1 \in Places(ns, p) BY DEF Places
      <4> QED BY <1>1, <3>7, <3>11, <4>1, ChildrenAre DEF Goes
    <3> QED BY <2>1, <2>3, <2>5, <3>12, <3>13
  <2> QED BY <1>5, <2>1, <2>4, <2>5
<1>7. Ordered(ns, low)
  <2>1. ASSUME NEW p \in UsedIn(ns), NEW i \in Places(ns, p)
        PROVE  low[p] < KeyAt(ns, p, i) /\ KeyAt(ns, p, i) <= ns[p].key
    <3>1. lo[p] < KeyAt(ns, p, i) /\ KeyAt(ns, p, i) <= ns[p].key BY <1>1 DEF Ordered
    <3>2. KeyAt(ns, p, i) \in Nat /\ p \in Blocks BY <1>1, ChildrenAre DEF UsedIn
    <3> QED BY <1>2, <1>4, <3>1, <3>2
  <2>2. \A p \in UsedIn(ns) : \A i, j \in Places(ns, p) : i < j => KeyAt(ns, p, i) < KeyAt(ns, p, j)
    BY <1>1 DEF Ordered
  <2> QED BY <1>3, <1>6, <2>1, <2>2 DEF Ordered
<1>8. low[Last(s)] < key
  <2>1. Last(s) \in UsedIn(ns) /\ Len(s) \in 1 .. Len(s) /\ Last(s) = s[Len(s)] BY <1>1, LeafOfPath
  <2> QED BY <1>4, <2>1 DEF UsedIn
<1>9. IsTree(ns, root, lvl, low) BY <1>1, <1>7 DEF IsTree
<1> QED BY <1>3, <1>8, <1>9

(* The children of p with one more, in the order of their keys.            *)
LEMMA InsertedIs ==
  ASSUME NEW ns, NEW root, NEW lvl, NEW lo, IsTree(ns, root, lvl, lo),
         NEW p \in UsedIn(ns), NEW key \in Nat, \A i \in Places(ns, p) : KeyAt(ns, p, i) # key,
         NEW c \in Children
  PROVE  \E j \in 1 .. Len(ns[p].inner) + 1 :
           /\ IsInsertion(ns[p].inner, j, c, Inserted(ns[p].inner, ChildKeys(ns, p), key, c))
           /\ \A i \in Places(ns, p) : IF i < j THEN KeyAt(ns, p, i) < key ELSE key < KeyAt(ns, p, i)
<1> DEFINE s == ns[p].inner
           n == Len(s)
           I == {i \in 1 .. Len(ChildKeys(ns, p)) : ChildKeys(ns, p)[i] > key}
           J == {i \in Places(ns, p) : KeyAt(ns, p, i) > key}
           all == Inserted(s, ChildKeys(ns, p), key, c)
<1>1. Typed(ns) /\ Levels(ns, root, lvl) /\ Ordered(ns, lo) BY DEF IsTree
<1>2. p \in Blocks /\ s \in Seq(Children) /\ n \in Nat /\ Places(ns, p) = 1 .. n
  BY <1>1, FieldsAre DEF UsedIn, Places
<1>3. I = J BY <1>1, ChildKeysAre DEF Places
<1>4. all = IF J = {} THEN Append(s, c) ELSE IF Min(J) = 0 THEN Append(s, c) ELSE InsertAt(s, Min(J), c)
  <2>1. SelectInSeq(ChildKeys(ns, p), LAMBDA k : k > key) = IF I # {} THEN Min(I) ELSE 0 BY DEF SelectInSeq
  <2>2. SelectInSeq(ChildKeys(ns, p), LAMBDA k : k > key) = IF J # {} THEN Min(J) ELSE 0 BY <1>3, <2>1
  <2> HIDE DEF J, s
  <2> QED BY <2>2 DEF Inserted
<1>5. \A i \in Places(ns, p) : KeyAt(ns, p, i) \in Nat BY <1>1, ChildrenAre
<1>6. CASE J = {}
  <2>1. all = Append(s, c) BY <1>4, <1>6
  <2>2. IsInsertion(s, n + 1, c, Append(s, c)) /\ n + 1 \in 1 .. n + 1
    <3> HIDE DEF s
    <3>1. Append(s, c) \in Seq(Children) /\ Len(Append(s, c)) = n + 1 BY <1>2
    <3>2. \A k \in 1 .. n + 1 : Append(s, c)[k] = IF k < n + 1 THEN s[k] ELSE c BY <1>2
    <3> QED BY <1>2, <3>1, <3>2 DEF IsInsertion
  <2>3. \A i \in Places(ns, p) : i < n + 1 /\ KeyAt(ns, p, i) < key BY <1>2, <1>5, <1>6
  <2> HIDE DEF s, all
  <2> QED BY <2>1, <2>2, <2>3 DEF s, all
<1>7. CASE J # {}
  <2>1. PICK j : j = Min(J) OBVIOUS
  <2>2. j \in J /\ \A k \in J : j <= k
    <3>1. J \subseteq 1 .. n BY <1>2
    <3> HIDE DEF J, n
    <3> QED BY <1>2, <1>7, <2>1, <3>1, FirstPlace
  <2>3. j \in 1 .. n /\ j # 0 /\ j \in 1 .. n + 1 BY <1>2, <2>2
  <2>4. all = InsertAt(s, j, c)
    <3> HIDE DEF J, s, all
    <3> QED BY <1>4, <1>7, <2>1, <2>3
  <2>5. IsInsertion(s, j, c, InsertAt(s, j, c))
    <3> HIDE DEF s
    <3>1. /\ InsertAt(s, j, c) \in Seq(Children) /\ Len(InsertAt(s, j, c)) = Len(s) + 1
          /\ \A k \in 1 .. Len(s) + 1 :
              InsertAt(s, j, c)[k] = IF k < j THEN s[k] ELSE IF k = j THEN c ELSE s[k - 1]
      BY <1>2, <2>3, InsertAtIs
    <3> QED BY <2>3, <3>1 DEF IsInsertion
  <2>6. ASSUME NEW i \in Places(ns, p)
        PROVE  IF i < j THEN KeyAt(ns, p, i) < key ELSE key < KeyAt(ns, p, i)
    <3>1. CASE i < j
      <4>1. i \notin J BY <1>2, <2>2, <2>3, <3>1
      <4> QED BY <1>5, <3>1, <4>1
    <3>2. CASE i = j
      <4>1. KeyAt(ns, p, j) > key BY <2>2
      <4> QED BY <1>5, <2>3, <3>2, <4>1
    <3>3. CASE i > j
      <4>1. j \in Places(ns, p) /\ key < KeyAt(ns, p, j) BY <2>2
      <4>2. KeyAt(ns, p, j) < KeyAt(ns, p, i) BY <1>1, <3>3, <4>1 DEF Ordered
      <4> QED BY <1>2, <1>5, <2>3, <3>3, <4>1, <4>2
    <3> QED BY <1>2, <2>3, <3>1, <3>2, <3>3
  <2> HIDE DEF s, all
  <2> QED BY <2>3, <2>4, <2>5, <2>6 DEF s, all
<1> QED BY <1>6, <1>7

-----------------------------------------------------------------------------
(* The same nodes are in use, with the same keys.                          *)
LEMMA ChangesKeep ==
  ASSUME NEW ns, NEW ws, NEW p \in UsedIn(ns), NEW all, Changes(ns, ws, p, all), ns[p].key # 0
  PROVE  /\ UsedIn(ws) = UsedIn(ns) /\ InnerIn(ws) = InnerIn(ns)
         /\ \A x \in UsedIn(ns) : ws[x].key = ns[x].key /\ ws[x].leaf = ns[x].leaf
         /\ \A x \in UsedIn(ns) : x # p => ws[x] = ns[x]
         /\ \A x \in UsedIn(ns) : x # p => Places(ws, x) = Places(ns, x)
<1>1. p \in Blocks /\ \A b \in Blocks \ {p} : ws[b] = ns[b] BY DEF Changes, UsedIn
<1>2. ws[p].key = ns[p].key /\ ws[p].leaf = ns[p].leaf BY DEF Changes
<1>3. ws[p] # NoNode /\ ns[p] # NoNode BY <1>2, NoNodeIs
<1>4. \A b \in Blocks : ws[b] # NoNode <=> ns[b] # NoNode BY <1>1, <1>3
<1>5. UsedIn(ws) = UsedIn(ns) BY <1>4 DEF UsedIn
<1>6. \A x \in UsedIn(ns) : x # p => ws[x] = ns[x] BY <1>1 DEF UsedIn
<1>7. \A x \in UsedIn(ns) : ws[x].key = ns[x].key /\ ws[x].leaf = ns[x].leaf BY <1>2, <1>6
<1>8. InnerIn(ws) = InnerIn(ns) BY <1>5, <1>7 DEF InnerIn
<1> QED BY <1>5, <1>6, <1>7, <1>8 DEF Places

(* An entry put in at its place in the leaf for it.                        *)
LEMMA EntryInserted ==
  ASSUME NEW ns, NEW root, NEW lvl, NEW lo, IsTree(ns, root, lvl, lo), NEW e \in Entries,
         NEW p \in UsedIn(ns), ns[p].leaf, lo[p] < e.key, e.key <= ns[p].key,
         \A i \in Places(ns, p) : KeyAt(ns, p, i) # e.key,
         NEW ws, Changes(ns, ws, p, Inserted(ns[p].inner, ChildKeys(ns, p), e.key, e))
  PROVE  IsTree(ws, root, lvl, lo) /\ Kept(ws) = Kept(ns) \cup {e}
<1>1. Typed(ns) /\ Levels(ns, root, lvl) /\ Linked(ns, root) /\ Ordered(ns, lo) /\ Ends(ns, {})
      /\ ns[root].key = Infinity BY DEF IsTree
<1>2. p \in Blocks /\ ns[p].key # 0 /\ e.key \in Nat /\ e \in Children /\ e.key \in Keys
  BY <1>1, NoNodeIs DEF UsedIn, Levels, Entries, Children
<1>3. PICK j \in 1 .. Len(ns[p].inner) + 1 :
        /\ IsInsertion(ns[p].inner, j, e, Inserted(ns[p].inner, ChildKeys(ns, p), e.key, e))
        /\ \A i \in Places(ns, p) : IF i < j THEN KeyAt(ns, p, i) < e.key ELSE e.key < KeyAt(ns, p, i)
  BY <1>2, InsertedIs
<1>4. PICK n \in Nat : n = Len(ns[p].inner) BY <1>1, <1>2, FieldsAre
<1>5. Places(ns, p) = 1 .. n /\ j \in 1 .. n + 1 BY <1>4 DEF Places
<1>6. /\ Len(ws[p].inner) = n + 1 /\ Places(ws, p) = 1 .. n + 1
      /\ \A k \in 1 .. n + 1 : ws[p].inner[k] = IF k < j THEN ns[p].inner[k] ELSE IF k = j THEN e
                                                ELSE ns[p].inner[k - 1]
  BY <1>3, <1>4 DEF IsInsertion, Changes, Places
<1>7. /\ UsedIn(ws) = UsedIn(ns) /\ InnerIn(ws) = InnerIn(ns)
      /\ \A x \in UsedIn(ns) : ws[x].key = ns[x].key /\ ws[x].leaf = ns[x].leaf
      /\ \A x \in UsedIn(ns) : x # p => ws[x] = ns[x]
      /\ \A x \in UsedIn(ns) : x # p => Places(ws, x) = Places(ns, x)
  BY <1>2, ChangesKeep
<1>8. Typed(ws) BY DEF Changes
<1>9. \A i \in Places(ns, p) : ns[p].inner[i] \in Entries /\ KeyAt(ns, p, i) = ns[p].inner[i].key
                               /\ KeyAt(ns, p, i) \in Nat
  BY <1>1, ChildrenAre
<1>10. \A k \in 1 .. n + 1 : /\ ws[p].inner[k] \in Entries
                             /\ KeyAt(ws, p, k) = IF k < j THEN KeyAt(ns, p, k) ELSE IF k = j THEN e.key
                                                  ELSE KeyAt(ns, p, k - 1)
  <2> SUFFICES ASSUME NEW k \in 1 .. n + 1
               PROVE  /\ ws[p].inner[k] \in Entries
                      /\ KeyAt(ws, p, k) = IF k < j THEN KeyAt(ns, p, k) ELSE IF k = j THEN e.key
                                           ELSE KeyAt(ns, p, k - 1)
    OBVIOUS
  <2>1. KeyAt(ws, p, k) = ws[p].inner[k].key BY <1>7 DEF KeyAt, KeyOf
  <2>2. (k < j => k \in Places(ns, p)) /\ (k > j => k - 1 \in Places(ns, p)) BY <1>5
  <2>3. CASE k < j BY <1>6, <1>9, <2>1, <2>2, <2>3
  <2>4. CASE k = j BY <1>6, <2>1, <2>4
  <2>5. CASE k > j BY <1>5, <1>6, <1>9, <2>1, <2>2, <2>5
  <2> QED BY <1>5, <2>3, <2>4, <2>5
<1>11. \A x \in UsedIn(ns) : x # p => \A i \in Places(ns, x) : KeyAt(ws, x, i) = KeyAt(ns, x, i)
  <2> SUFFICES ASSUME NEW x \in UsedIn(ns), x # p, NEW i \in Places(ns, x)
               PROVE  KeyAt(ws, x, i) = KeyAt(ns, x, i) OBVIOUS
  <2>1. ws[x] = ns[x] BY <1>7
  <2>2. ~ns[x].leaf => ns[x].inner[i] \in UsedIn(ns) BY <1>1, ChildrenAre
  <2> QED BY <1>7, <2>1, <2>2 DEF KeyAt, KeyOf
<1>12. Levels(ws, root, lvl)
  <2>1. ASSUME NEW x \in UsedIn(ns), NEW i \in Places(ws, x)
        PROVE  IF ws[x].leaf THEN ws[x].inner[i] \in Entries
               ELSE ws[x].inner[i] \in UsedIn(ns) \ {root} /\ lvl[ws[x].inner[i]] = lvl[x] - 1
    <3>1. CASE x = p BY <1>6, <1>7, <1>10, <3>1
    <3>2. CASE x # p BY <1>1, <1>7, <3>2 DEF Levels
    <3> QED BY <3>1, <3>2
  <2> QED BY <1>1, <1>7, <2>1 DEF Levels
<1>13. Linked(ws, root)
  <2>1. \A x \in InnerIn(ns) : x # p /\ x \in UsedIn(ns) BY DEF InnerIn
  <2>2. \A x \in InnerIn(ns) : ws[x] = ns[x] /\ Places(ws, x) = Places(ns, x) BY <1>7, <2>1
  <2> QED BY <1>1, <1>7, <2>2 DEF Linked
<1>14. Ordered(ws, lo)
  <2>1. lo \in [Blocks -> Nat] /\ lo[p] \in Nat /\ ns[p].key \in Nat BY <1>1, <1>2, FieldsAre DEF Ordered
  <2>2. \A i \in Places(ns, p) : lo[p] < KeyAt(ns, p, i) /\ KeyAt(ns, p, i) <= ns[p].key BY <1>1 DEF Ordered
  <2>3. \A i, k \in Places(ns, p) : i < k => KeyAt(ns, p, i) < KeyAt(ns, p, k) BY <1>1 DEF Ordered
  <2>4. ASSUME NEW k \in 1 .. n + 1 PROVE lo[p] < KeyAt(ws, p, k) /\ KeyAt(ws, p, k) <= ws[p].key
    <3>1. (k < j => k \in Places(ns, p)) /\ (k > j => k - 1 \in Places(ns, p)) BY <1>5
    <3>2. ws[p].key = ns[p].key BY <1>7
    <3> QED BY <1>2, <1>5, <1>10, <2>2, <3>1, <3>2
  <2>5. ASSUME NEW i \in 1 .. n + 1, NEW k \in 1 .. n + 1, i < k PROVE KeyAt(ws, p, i) < KeyAt(ws, p, k)
    <3>1. /\ i < j => i \in Places(ns, p) /\ KeyAt(ns, p, i) < e.key
          /\ i > j => i - 1 \in Places(ns, p) /\ e.key < KeyAt(ns, p, i - 1)
          /\ k < j => k \in Places(ns, p) /\ KeyAt(ns, p, k) < e.key
          /\ k > j => k - 1 \in Places(ns, p) /\ e.key < KeyAt(ns, p, k - 1)
      BY <1>3, <1>5
    <3>2. /\ KeyAt(ws, p, i) = IF i < j THEN KeyAt(ns, p, i) ELSE IF i = j THEN e.key ELSE KeyAt(ns, p, i - 1)
          /\ KeyAt(ws, p, k) = IF k < j THEN KeyAt(ns, p, k) ELSE IF k = j THEN e.key ELSE KeyAt(ns, p, k - 1)
      BY <1>10
    <3>3. CASE k < j BY <1>5, <2>3, <2>5, <3>1, <3>2, <3>3
    <3>4. CASE k = j BY <1>5, <2>5, <3>1, <3>2, <3>4
    <3>5. CASE k > j
      <4>1. CASE i < j BY <1>2, <1>5, <1>9, <3>1, <3>2, <3>5, <4>1
      <4>2. CASE i = j BY <1>5, <3>1, <3>2, <3>5, <4>2
      <4>3. CASE i > j
        <5>1. i - 1 < k - 1 BY <2>5
        <5> QED BY <1>5, <2>3, <3>1, <3>2, <3>5, <4>3, <5>1
      <4> QED BY <1>5, <4>1, <4>2, <4>3
    <3> QED BY <1>5, <3>3, <3>4, <3>5
  <2>6. ASSUME NEW x \in UsedIn(ns)
        PROVE  /\ \A i \in Places(ws, x) : lo[x] < KeyAt(ws, x, i) /\ KeyAt(ws, x, i) <= ws[x].key
               /\ \A i, k \in Places(ws, x) : i < k => KeyAt(ws, x, i) < KeyAt(ws, x, k)
               /\ ~ws[x].leaf => \A i \in Places(ws, x) :
                    /\ lo[x] <= lo[ws[x].inner[i]]
                    /\ i > 1 => KeyAt(ws, x, i - 1) <= lo[ws[x].inner[i]]
    <3>1. CASE x = p BY <1>6, <1>7, <2>4, <2>5, <3>1
    <3>2. CASE x # p
      <4>1. ws[x] = ns[x] /\ Places(ws, x) = Places(ns, x) BY <1>7, <3>2
      <4>2. \A i \in Places(ns, x) : KeyAt(ws, x, i) = KeyAt(ns, x, i) /\ (i > 1 => i - 1 \in Places(ns, x))
        BY <1>11, <3>2 DEF Places
      <4> QED BY <1>1, <4>1, <4>2 DEF Ordered
    <3> QED BY <3>1, <3>2
  <2> QED BY <1>7, <2>1, <2>6 DEF Ordered
<1>15. Ends(ws, {})
  <2> SUFFICES ASSUME NEW x \in InnerIn(ns), ws[x].inner # <<>>
               PROVE  KeyAt(ws, x, Len(ws[x].inner)) = ws[x].key BY <1>7 DEF Ends
  <2>1. x # p /\ x \in UsedIn(ns) /\ ws[x] = ns[x] BY <1>7 DEF InnerIn
  <2>2. KeyAt(ns, x, Len(ns[x].inner)) = ns[x].key BY <1>1, <2>1 DEF Ends
  <2>3. Len(ns[x].inner) \in Places(ns, x)
    <3>1. ns[x].inner \in Seq(Children) BY <1>1, <2>1, FieldsAre DEF UsedIn
    <3> QED BY <2>1, <3>1 DEF Places
  <2> QED BY <1>11, <2>1, <2>2, <2>3
<1>16. IsTree(ws, root, lvl, lo)
  <2>1. ws[root].key = Infinity BY <1>1, <1>7 DEF Levels
  <2> QED BY <1>8, <1>12, <1>13, <1>14, <1>15, <2>1 DEF IsTree
<1>17. Kept(ws) = Kept(ns) \cup {e}
  <2>1. ASSUME NEW f \in Kept(ws), f # e PROVE f \in Kept(ns)
    <3>1. PICK x \in UsedIn(ns) : \E i \in Places(ws, x) : HoldsAt(ws, f, x, i) BY <1>7 DEF Kept
    <3>2. PICK i \in Places(ws, x) : HoldsAt(ws, f, x, i) BY <3>1
    <3>3. CASE x # p BY <1>7, <3>2, <3>3 DEF Kept, HoldsAt
    <3>4. CASE x = p
      <4>1. i \in 1 .. n + 1 /\ ws[p].inner[i] = f BY <1>6, <3>2, <3>4 DEF HoldsAt
      <4>2. \E k \in Places(ns, p) : ns[p].inner[k] = f
        <5>1. CASE i < j BY <1>5, <1>6, <4>1, <5>1
        <5>2. CASE i = j BY <1>5, <1>6, <2>1, <4>1, <5>2
        <5>3. CASE i > j
          <6>1. i - 1 \in Places(ns, p) BY <1>5, <4>1, <5>3
          <6>2. ws[p].inner[i] = ns[p].inner[i - 1] BY <1>5, <1>6, <4>1, <5>3
          <6> QED BY <4>1, <6>1, <6>2
        <5> QED BY <1>5, <4>1, <5>1, <5>2, <5>3
      <4> QED BY <4>2 DEF Kept, HoldsAt
    <3> QED BY <3>3, <3>4
  <2>2. ASSUME NEW f \in Kept(ns) PROVE f \in Kept(ws)
    <3>1. PICK x \in UsedIn(ns) : \E i \in Places(ns, x) : HoldsAt(ns, f, x, i) BY DEF Kept
    <3>2. PICK i \in Places(ns, x) : HoldsAt(ns, f, x, i) BY <3>1
    <3>3. CASE x # p BY <1>7, <3>2, <3>3 DEF Kept, HoldsAt
    <3>4. CASE x = p
      <4>1. \E k \in Places(ws, p) : ws[p].inner[k] = f
        <5>1. CASE i < j BY <1>5, <1>6, <3>2, <3>4, <5>1 DEF HoldsAt
        <5>2. CASE i >= j
          <6>1. i + 1 \in 1 .. n + 1 /\ (i + 1) - 1 = i /\ ~(i + 1 < j) /\ i + 1 # j BY <1>5, <3>4, <5>2
          <6> QED BY <1>6, <3>2, <3>4, <6>1 DEF HoldsAt
        <5> QED BY <1>5, <3>4, <5>1, <5>2
      <4> QED BY <1>7, <4>1 DEF Kept, HoldsAt
    <3> QED BY <3>3, <3>4
  <2>3. e \in Kept(ws)
    <3>1. j \in Places(ws, p) /\ HoldsAt(ws, e, p, j) BY <1>5, <1>6, <1>7 DEF HoldsAt
    <3> QED BY <1>7, <3>1 DEF Kept
  <2> QED BY <2>1, <2>2, <2>3
<1> QED BY <1>16, <1>17

-----------------------------------------------------------------------------
(* The nodes after a split are the ones before it and the new one.         *)
LEMMA SplitNodes ==
  ASSUME NEW vs, NEW root, NEW lvl, NEW lo, IsTree(vs, root, lvl, lo), NEW ws, NEW p, NEW q, NEW j, NEW b, NEW h,
         IsSplit(vs, ws, p, q, j, b, h)
  PROVE  /\ UsedIn(ws) = UsedIn(vs) \cup {b} /\ b \notin UsedIn(vs) /\ b # p /\ b # q /\ p # q /\ b # root /\ p # root
         /\ \A x \in UsedIn(vs) : ws[x].key = vs[x].key /\ ws[x].leaf = vs[x].leaf /\ x # b /\ x \in Blocks
         /\ KeyAt(vs, p, h) \in 1 .. Infinity /\ h \in Places(vs, p) /\ h \in Nat /\ h > 0
         /\ lvl[p] = lvl[q] - 1 /\ lvl[q] \in Nat /\ lvl[p] \in Nat /\ KeyAt(vs, q, j) = vs[p].key
         /\ \E n, m \in Nat : /\ Places(vs, p) = 1 .. n /\ Places(vs, q) = 1 .. m /\ j \in 1 .. m /\ h < n
                              /\ n = Len(vs[p].inner) /\ m = Len(vs[q].inner)
                              /\ Places(ws, b) = 1 .. h /\ Places(ws, p) = 1 .. n - h /\ Places(ws, q) = 1 .. m + 1
                              /\ Len(ws[b].inner) = h /\ Len(ws[p].inner) = n - h /\ Len(ws[q].inner) = m + 1
         /\ \A x \in UsedIn(vs) : x # p /\ x # q => ws[x] = vs[x] /\ Places(ws, x) = Places(vs, x)
<1>1. Typed(vs) /\ Levels(vs, root, lvl) /\ Linked(vs, root) /\ Ordered(vs, lo) /\ Ends(vs, {}) BY DEF IsTree
<1>2. b \in Blocks /\ b \notin UsedIn(vs) /\ p \in UsedIn(vs) /\ q \in UsedIn(vs) /\ ~vs[q].leaf
      /\ j \in Places(vs, q) /\ vs[q].inner[j] = p /\ h \in 1 .. Len(vs[p].inner) - 1
  BY DEF IsSplit, InnerIn
<1>3. p # root /\ lvl[p] = lvl[q] - 1 /\ KeyAt(vs, q, j) = vs[p].key /\ p \in Blocks /\ q \in Blocks
  BY <1>1, <1>2, ChildrenAre DEF UsedIn
<1>4. lvl[q] \in Nat /\ lvl[p] \in Nat /\ root \in UsedIn(vs) BY <1>1, <1>3 DEF Levels
<1>5. p # q /\ b # p /\ b # q /\ b # root BY <1>2, <1>3, <1>4
<1>6. PICK n, m \in Nat : n = Len(vs[p].inner) /\ m = Len(vs[q].inner) BY <1>1, <1>3, FieldsAre
<1>7. Places(vs, p) = 1 .. n /\ Places(vs, q) = 1 .. m /\ h \in 1 .. n - 1 BY <1>2, <1>6 DEF Places
<1>8. h \in Places(vs, p) /\ h \in Nat /\ h > 0 /\ h < n BY <1>6, <1>7
<1>9. KeyAt(vs, p, h) \in 1 .. Infinity BY <1>1, <1>2, <1>8, ChildrenAre
<1>10. /\ ws[b].key = KeyAt(vs, p, h) /\ Len(ws[b].inner) = h /\ Len(ws[p].inner) = n - h
       /\ ws[p].key = vs[p].key /\ ws[p].leaf = vs[p].leaf /\ ws[q].key = vs[q].key /\ ws[q].leaf = vs[q].leaf
       /\ Len(ws[q].inner) = m + 1 BY <1>6 DEF IsSplit, IsInsertion
<1>11. \A x \in Blocks \ {b, p, q} : ws[x] = vs[x] BY DEF IsSplit
<1>12. vs[p].key # 0 /\ vs[q].key # 0 BY <1>1, <1>2 DEF Levels
<1>13. ws[b].key # 0 BY <1>9, <1>10
<1>14. ws[b] # NoNode /\ ws[p] # NoNode /\ ws[q] # NoNode BY <1>10, <1>12, <1>13, NoNodeIs
<1>15. UsedIn(ws) = UsedIn(vs) \cup {b}
  <2>1. \A x \in Blocks : x \in UsedIn(ws) <=> x \in UsedIn(vs) \cup {b} BY <1>2, <1>11, <1>14 DEF UsedIn
  <2> QED BY <1>2, <2>1 DEF UsedIn
<1>16. \A x \in UsedIn(vs) : x # p /\ x # q => ws[x] = vs[x] /\ x # b /\ x \in Blocks BY <1>2, <1>11 DEF UsedIn
<1>17. \A x \in UsedIn(vs) : ws[x].key = vs[x].key /\ ws[x].leaf = vs[x].leaf /\ x # b /\ x \in Blocks
  BY <1>2, <1>3, <1>10, <1>16
<1>18. Places(ws, b) = 1 .. h /\ Places(ws, p) = 1 .. n - h /\ Places(ws, q) = 1 .. m + 1 BY <1>10 DEF Places
<1>19. \A x \in UsedIn(vs) : x # p /\ x # q => Places(ws, x) = Places(vs, x) BY <1>16 DEF Places
<1> QED BY <1>2, <1>3, <1>4, <1>5, <1>6, <1>7, <1>8, <1>9, <1>10, <1>15, <1>16, <1>17, <1>18, <1>19

(* Every child but the new one was somewhere before, with the same key.    *)
LEMMA SplitFrom ==
  ASSUME NEW vs, NEW root, NEW lvl, NEW lo, IsTree(vs, root, lvl, lo), NEW ws, NEW p, NEW q, NEW j, NEW b, NEW h,
         IsSplit(vs, ws, p, q, j, b, h)
  PROVE  /\ ws[q].inner[j] = b /\ KeyAt(ws, q, j) = KeyAt(vs, p, h)
         /\ \A x \in UsedIn(ws) : \A i \in Places(ws, x) : (x = q /\ i = j) \/
              /\ FromNode(p, b, x) \in UsedIn(vs) /\ FromPlace(p, q, j, h, x, i) \in Places(vs, FromNode(p, b, x))
              /\ ws[x].leaf = vs[FromNode(p, b, x)].leaf
              /\ ws[x].inner[i] = vs[FromNode(p, b, x)].inner[FromPlace(p, q, j, h, x, i)]
              /\ KeyAt(ws, x, i) = KeyAt(vs, FromNode(p, b, x), FromPlace(p, q, j, h, x, i))
<1>1. Typed(vs) /\ Levels(vs, root, lvl) BY DEF IsTree
<1>2. /\ UsedIn(ws) = UsedIn(vs) \cup {b} /\ b \notin UsedIn(vs) /\ b # p /\ b # q /\ p # q
      /\ \A x \in UsedIn(vs) : ws[x].key = vs[x].key /\ ws[x].leaf = vs[x].leaf /\ x # b
      /\ \A x \in UsedIn(vs) : x # p /\ x # q => ws[x] = vs[x] /\ Places(ws, x) = Places(vs, x)
      /\ h \in Nat /\ h > 0
  BY SplitNodes
<1>3. PICK n, m \in Nat : /\ Places(vs, p) = 1 .. n /\ Places(vs, q) = 1 .. m /\ j \in 1 .. m /\ h < n
                          /\ n = Len(vs[p].inner) /\ m = Len(vs[q].inner)
                          /\ Places(ws, b) = 1 .. h /\ Places(ws, p) = 1 .. n - h /\ Places(ws, q) = 1 .. m + 1
  BY SplitNodes
<1>4. p \in UsedIn(vs) /\ q \in UsedIn(vs) /\ ~vs[q].leaf /\ ws[b].leaf = vs[p].leaf BY DEF IsSplit, InnerIn
<1>5. \A k \in 1 .. m + 1 : ws[q].inner[k] = IF k < j THEN vs[q].inner[k] ELSE IF k = j THEN b ELSE vs[q].inner[k - 1]
  BY <1>3 DEF IsSplit, IsInsertion
<1>6. ASSUME NEW x \in UsedIn(ws), NEW i \in Places(ws, x), NEW y \in UsedIn(vs), NEW k \in Places(vs, y),
             ws[x].leaf = vs[y].leaf, ws[x].inner[i] = vs[y].inner[k]
      PROVE  KeyAt(ws, x, i) = KeyAt(vs, y, k)
  <2>1. ~vs[y].leaf => vs[y].inner[k] \in UsedIn(vs) BY <1>1, ChildrenAre
  <2> QED BY <1>2, <1>6, <2>1 DEF KeyAt, KeyOf
<1>7. ws[q].inner[j] = b BY <1>3, <1>5
<1>8. KeyAt(ws, q, j) = KeyAt(vs, p, h)
  <2>1. ws[b].key = KeyAt(vs, p, h) /\ ~ws[q].leaf BY <1>2, <1>4 DEF IsSplit
  <2> QED BY <1>7, <2>1 DEF KeyAt, KeyOf
<1>9. ASSUME NEW x \in UsedIn(ws), NEW i \in Places(ws, x), ~(x = q /\ i = j)
      PROVE  LET y == FromNode(p, b, x)
                 k == FromPlace(p, q, j, h, x, i)
             IN  y \in UsedIn(vs) /\ k \in Places(vs, y) /\ ws[x].leaf = vs[y].leaf /\ ws[x].inner[i] = vs[y].inner[k]
  <2>1. CASE x = b
    <3>1. FromNode(p, b, x) = p /\ FromPlace(p, q, j, h, x, i) = i BY <1>2, <2>1 DEF FromNode, FromPlace
    <3>2. i \in 1 .. h /\ i \in Places(vs, p) BY <1>2, <1>3, <2>1
    <3>3. ws[b].inner[i] = vs[p].inner[i] BY <3>2 DEF IsSplit
    <3> QED BY <1>4, <2>1, <3>1, <3>2, <3>3
  <2>2. CASE x = p
    <3>1. FromNode(p, b, x) = p /\ FromPlace(p, q, j, h, x, i) = h + i BY <1>2, <2>2 DEF FromNode, FromPlace
    <3>2. i \in 1 .. n - h /\ h + i \in Places(vs, p) BY <1>2, <1>3, <2>2
    <3>3. ws[p].inner[i] = vs[p].inner[h + i] BY <1>3, <3>2 DEF IsSplit
    <3> QED BY <1>2, <1>4, <2>2, <3>1, <3>2, <3>3
  <2>3. CASE x = q
    <3>1. FromNode(p, b, x) = q /\ FromPlace(p, q, j, h, x, i) = IF i > j THEN i - 1 ELSE i
      BY <1>2, <2>3 DEF FromNode, FromPlace
    <3>2. i \in 1 .. m + 1 /\ i # j /\ i \in Nat /\ j \in Nat BY <1>3, <1>9, <2>3
    <3>3. CASE i < j
      <4>1. i \in Places(vs, q) /\ ~(i > j) BY <1>3, <3>2, <3>3
      <4>2. ws[q].inner[i] = vs[q].inner[i] BY <1>5, <3>2, <3>3
      <4> QED BY <1>2, <1>4, <2>3, <3>1, <4>1, <4>2
    <3>4. CASE i > j
      <4>1. i - 1 \in Places(vs, q) /\ ~(i < j) BY <1>3, <3>2, <3>4
      <4>2. ws[q].inner[i] = vs[q].inner[i - 1] BY <1>5, <3>2, <3>4, <4>1
      <4> QED BY <1>2, <1>4, <2>3, <3>1, <3>4, <4>1, <4>2
    <3> QED BY <3>2, <3>3, <3>4
  <2>4. CASE x # b /\ x # p /\ x # q
    <3>1. FromNode(p, b, x) = x /\ FromPlace(p, q, j, h, x, i) = i BY <2>4 DEF FromNode, FromPlace
    <3> QED BY <1>2, <2>4, <3>1
  <2> QED BY <2>1, <2>2, <2>3, <2>4
<1> QED BY <1>6, <1>7, <1>8, <1>9

(* Every child is somewhere after.                                         *)
LEMMA SplitTo ==
  ASSUME NEW vs, NEW root, NEW lvl, NEW lo, IsTree(vs, root, lvl, lo), NEW ws, NEW p, NEW q, NEW j, NEW b, NEW h,
         IsSplit(vs, ws, p, q, j, b, h), NEW y \in UsedIn(vs), NEW k \in Places(vs, y)
  PROVE  \E x \in UsedIn(ws) : \E i \in Places(ws, x) :
           ws[x].leaf = vs[y].leaf /\ ws[x].inner[i] = vs[y].inner[k]
<1>1. /\ UsedIn(ws) = UsedIn(vs) \cup {b} /\ b # p /\ b # q /\ p # q
      /\ \A x \in UsedIn(vs) : ws[x].leaf = vs[x].leaf
      /\ \A x \in UsedIn(vs) : x # p /\ x # q => ws[x] = vs[x] /\ Places(ws, x) = Places(vs, x)
      /\ h \in Nat /\ h > 0
  BY SplitNodes
<1>2. PICK n, m \in Nat : /\ Places(vs, p) = 1 .. n /\ Places(vs, q) = 1 .. m /\ j \in 1 .. m /\ h < n
                          /\ n = Len(vs[p].inner) /\ m = Len(vs[q].inner)
                          /\ Places(ws, b) = 1 .. h /\ Places(ws, p) = 1 .. n - h /\ Places(ws, q) = 1 .. m + 1
  BY SplitNodes
<1>3. CASE y = p
  <2>0. k \in 1 .. n BY <1>2, <1>3
  <2>1. CASE k <= h
    <3>1. k \in 1 .. h BY <2>0, <2>1
    <3>2. ws[b].inner[k] = vs[p].inner[k] /\ ws[b].leaf = vs[p].leaf BY <3>1 DEF IsSplit
    <3> QED BY <1>1, <1>2, <1>3, <3>1, <3>2
  <2>2. CASE k > h
    <3>1. k - h \in 1 .. n - h /\ h + (k - h) = k BY <1>1, <2>0, <2>2
    <3>2. \A i \in 1 .. n - h : ws[p].inner[i] = vs[p].inner[h + i] BY <1>2 DEF IsSplit
    <3>3. ws[p].inner[k - h] = vs[p].inner[k] BY <3>1, <3>2
    <3> QED BY <1>1, <1>2, <1>3, <3>1, <3>3
  <2> QED BY <1>1, <2>0, <2>1, <2>2
<1>4. CASE y = q
  <2>0. k \in 1 .. m BY <1>2, <1>4
  <2>1. \A i \in 1 .. m + 1 : ws[q].inner[i] = IF i < j THEN vs[q].inner[i] ELSE IF i = j THEN b ELSE vs[q].inner[i - 1]
    BY <1>2 DEF IsSplit, IsInsertion
  <2>2. CASE k < j
    <3>1. k \in Places(ws, q) /\ ws[q].inner[k] = vs[q].inner[k] BY <1>2, <2>0, <2>1, <2>2
    <3> QED BY <1>1, <1>4, <3>1
  <2>3. CASE k >= j
    <3>1. k + 1 \in 1 .. m + 1 /\ ~(k + 1 < j) /\ k + 1 # j /\ (k + 1) - 1 = k BY <1>2, <2>0, <2>3
    <3>2. ws[q].inner[k + 1] = vs[q].inner[k] BY <2>1, <3>1
    <3> QED BY <1>1, <1>2, <1>4, <3>1, <3>2
  <2> QED BY <1>2, <2>0, <2>2, <2>3
<1>5. CASE y # p /\ y # q BY <1>1, <1>5
<1> QED BY <1>3, <1>4, <1>5

-----------------------------------------------------------------------------
(* A split leaves every leaf as deep as it was.                            *)
LEMMA SplitKeepsLevels ==
  ASSUME NEW vs, NEW root, NEW lvl, NEW lo, IsTree(vs, root, lvl, lo), NEW ws, NEW p, NEW q, NEW j, NEW b, NEW h,
         IsSplit(vs, ws, p, q, j, b, h)
  PROVE  Levels(ws, root, SplitLevels(lvl, p, b))
<1>1. Typed(vs) /\ Levels(vs, root, lvl) BY DEF IsTree
<1>2. /\ UsedIn(ws) = UsedIn(vs) \cup {b} /\ b \notin UsedIn(vs) /\ b # p /\ b # q /\ p # q /\ b # root
      /\ \A x \in UsedIn(vs) : ws[x].key = vs[x].key /\ ws[x].leaf = vs[x].leaf /\ x # b /\ x \in Blocks
      /\ KeyAt(vs, p, h) \in 1 .. Infinity /\ lvl[p] = lvl[q] - 1 /\ lvl[p] \in Nat
  BY SplitNodes
<1>3. /\ p \in UsedIn(vs) /\ q \in UsedIn(vs) /\ ~vs[q].leaf /\ ws[b].leaf = vs[p].leaf /\ b \in Blocks
      /\ ws[b].key = KeyAt(vs, p, h)
  BY DEF IsSplit, InnerIn
<1>4. PICK l : l = SplitLevels(lvl, p, b) OBVIOUS
<1>5. l \in [Blocks -> Nat] /\ l[b] = lvl[p] /\ \A x \in UsedIn(vs) : l[x] = lvl[x]
  BY <1>1, <1>2, <1>3, <1>4 DEF SplitLevels, Levels
<1>6. root \in UsedIn(ws) /\ root \in UsedIn(vs) BY <1>1, <1>2 DEF Levels
<1>7. ASSUME NEW x \in UsedIn(ws) PROVE ws[x].key # 0 /\ l[x] <= l[root] /\ (ws[x].leaf <=> l[x] = 0)
  <2>1. CASE x = b
    <3>1. lvl[p] <= lvl[root] /\ (vs[p].leaf <=> lvl[p] = 0) BY <1>1, <1>3 DEF Levels
    <3>2. ws[b].key # 0 BY <1>2, <1>3
    <3> QED BY <1>3, <1>5, <1>6, <2>1, <3>1, <3>2
  <2>2. CASE x # b
    <3>1. x \in UsedIn(vs) BY <1>2, <2>2
    <3>2. vs[x].key # 0 /\ lvl[x] <= lvl[root] /\ (vs[x].leaf <=> lvl[x] = 0) BY <1>1, <3>1 DEF Levels
    <3> QED BY <1>2, <1>5, <1>6, <3>1, <3>2
  <2> QED BY <2>1, <2>2
<1>8. ASSUME NEW x \in UsedIn(ws), NEW i \in Places(ws, x)
      PROVE  IF ws[x].leaf THEN ws[x].inner[i] \in Entries
             ELSE ws[x].inner[i] \in UsedIn(ws) \ {root} /\ l[ws[x].inner[i]] = l[x] - 1
  <2>1. CASE x = q /\ i = j
    <3>1. ws[q].inner[j] = b BY SplitFrom
    <3> QED BY <1>2, <1>3, <1>5, <2>1, <3>1
  <2>2. CASE ~(x = q /\ i = j)
    <3>1. PICK y, k : y = FromNode(p, b, x) /\ k = FromPlace(p, q, j, h, x, i) OBVIOUS
    <3>2. y \in UsedIn(vs) /\ k \in Places(vs, y) /\ ws[x].leaf = vs[y].leaf /\ ws[x].inner[i] = vs[y].inner[k]
      BY <2>2, <3>1, SplitFrom
    <3>3. l[x] = lvl[y] BY <1>2, <1>5, <3>1, <3>2 DEF FromNode
    <3>4. IF vs[y].leaf THEN vs[y].inner[k] \in Entries
          ELSE vs[y].inner[k] \in UsedIn(vs) \ {root} /\ lvl[vs[y].inner[k]] = lvl[y] - 1
      BY <1>1, <3>2 DEF Levels
    <3>5. vs[y].inner[k] \in UsedIn(vs) => l[vs[y].inner[k]] = lvl[vs[y].inner[k]] BY <1>5
    <3> QED BY <1>2, <3>2, <3>3, <3>4, <3>5
  <2> QED BY <2>1, <2>2
<1> QED BY <1>4, <1>5, <1>6, <1>7, <1>8 DEF Levels

(* After a split every node but the root has one parent, once.             *)
LEMMA SplitKeepsLinks ==
  ASSUME NEW vs, NEW root, NEW lvl, NEW lo, IsTree(vs, root, lvl, lo), NEW ws, NEW p, NEW q, NEW j, NEW b, NEW h,
         IsSplit(vs, ws, p, q, j, b, h)
  PROVE  Linked(ws, root)
<1>1. Typed(vs) /\ Levels(vs, root, lvl) /\ Linked(vs, root) BY DEF IsTree
<1>2. /\ UsedIn(ws) = UsedIn(vs) \cup {b} /\ b \notin UsedIn(vs) /\ b # p /\ b # q /\ p # q
      /\ \A x \in UsedIn(vs) : ws[x].leaf = vs[x].leaf
      /\ h \in Nat /\ h > 0
  BY SplitNodes
<1>3. PICK n, m \in Nat : /\ Places(vs, p) = 1 .. n /\ Places(vs, q) = 1 .. m /\ j \in 1 .. m /\ h < n
                          /\ Places(ws, b) = 1 .. h /\ Places(ws, p) = 1 .. n - h /\ Places(ws, q) = 1 .. m + 1
  BY SplitNodes
<1>4. p \in UsedIn(vs) /\ q \in UsedIn(vs) /\ ~vs[q].leaf BY DEF IsSplit, InnerIn
<1>5. ASSUME NEW c \in UsedIn(ws) \ {root}
      PROVE  \E x \in InnerIn(ws) : \E i \in Places(ws, x) : ws[x].inner[i] = c
  <2>1. CASE c = b
    <3>1. ws[q].inner[j] = b BY SplitFrom
    <3>2. q \in InnerIn(ws) /\ j \in Places(ws, q) BY <1>2, <1>3, <1>4 DEF InnerIn
    <3> QED BY <2>1, <3>1, <3>2
  <2>2. CASE c # b
    <3>1. c \in UsedIn(vs) \ {root} BY <1>2, <2>2
    <3>2. PICK y \in InnerIn(vs) : \E k \in Places(vs, y) : vs[y].inner[k] = c BY <1>1, <3>1 DEF Linked
    <3>3. PICK k \in Places(vs, y) : vs[y].inner[k] = c BY <3>2
    <3>4. y \in UsedIn(vs) /\ ~vs[y].leaf BY DEF InnerIn
    <3>5. PICK x \in UsedIn(ws) : \E i \in Places(ws, x) : ws[x].leaf = vs[y].leaf /\ ws[x].inner[i] = vs[y].inner[k]
      BY <3>4, SplitTo
    <3> QED BY <3>3, <3>4, <3>5 DEF InnerIn
  <2> QED BY <2>1, <2>2
<1>6. ASSUME NEW x \in InnerIn(ws), NEW y \in InnerIn(ws), NEW i \in Places(ws, x), NEW k \in Places(ws, y),
             ws[x].inner[i] = ws[y].inner[k]
      PROVE  x = y /\ i = k
  <2>0. x \in UsedIn(ws) /\ ~ws[x].leaf /\ y \in UsedIn(ws) /\ ~ws[y].leaf BY DEF InnerIn
  <2>1. ws[q].inner[j] = b BY SplitFrom
  <2>2. ASSUME NEW u \in UsedIn(ws), ~ws[u].leaf, NEW a \in Places(ws, u), ~(u = q /\ a = j)
        PROVE  /\ FromNode(p, b, u) \in InnerIn(vs) /\ FromPlace(p, q, j, h, u, a) \in Places(vs, FromNode(p, b, u))
               /\ ws[u].inner[a] = vs[FromNode(p, b, u)].inner[FromPlace(p, q, j, h, u, a)]
               /\ ws[u].inner[a] # b
    <3>1. PICK z, r : z = FromNode(p, b, u) /\ r = FromPlace(p, q, j, h, u, a) OBVIOUS
    <3>2. z \in UsedIn(vs) /\ r \in Places(vs, z) /\ ws[u].leaf = vs[z].leaf /\ ws[u].inner[a] = vs[z].inner[r]
      BY <2>2, <3>1, SplitFrom
    <3>3. vs[z].inner[r] \in UsedIn(vs) BY <1>1, <2>2, <3>2, ChildrenAre
    <3> QED BY <1>2, <2>2, <3>1, <3>2, <3>3 DEF InnerIn
  <2>3. CASE x = q /\ i = j BY <1>6, <2>0, <2>1, <2>2, <2>3
  <2>4. CASE y = q /\ k = j BY <1>6, <2>0, <2>1, <2>2, <2>4
  <2>5. CASE ~(x = q /\ i = j) /\ ~(y = q /\ k = j)
    <3>1. FromNode(p, b, x) = FromNode(p, b, y) /\ FromPlace(p, q, j, h, x, i) = FromPlace(p, q, j, h, y, k)
      <4>1. PICK z, r, w, t : z = FromNode(p, b, x) /\ r = FromPlace(p, q, j, h, x, i)
                              /\ w = FromNode(p, b, y) /\ t = FromPlace(p, q, j, h, y, k) OBVIOUS
      <4>2. z \in InnerIn(vs) /\ r \in Places(vs, z) /\ ws[x].inner[i] = vs[z].inner[r] BY <2>0, <2>2, <2>5, <4>1
      <4>3. w \in InnerIn(vs) /\ t \in Places(vs, w) /\ ws[y].inner[k] = vs[w].inner[t] BY <2>0, <2>2, <2>5, <4>1
      <4>4. vs[z].inner[r] = vs[w].inner[t] BY <1>6, <4>2, <4>3
      <4>5. z = w /\ r = t
        <5>1. \A a, c \in InnerIn(vs) : \A e \in Places(vs, a), f \in Places(vs, c) :
                vs[a].inner[e] = vs[c].inner[f] => a = c /\ e = f BY <1>1 DEF Linked
        <5> QED BY <4>2, <4>3, <4>4, <5>1
      <4> QED BY <4>1, <4>5
    <3>2. i \in Nat /\ k \in Nat BY DEF Places
    <3>3. CASE x = y /\ x = p BY <1>2, <3>1, <3>2, <3>3 DEF FromPlace
    <3>4. CASE x = y /\ x = q
      <4>1. j \in Nat BY <1>3
      <4>2. i # j /\ k # j BY <2>5, <3>4
      <4>3. (IF i > j THEN i - 1 ELSE i) = (IF k > j THEN k - 1 ELSE k) BY <1>2, <3>1, <3>4 DEF FromPlace
      <4> QED BY <3>2, <3>4, <4>1, <4>2, <4>3
    <3>5. CASE x = y /\ x # p /\ x # q BY <3>1, <3>5 DEF FromPlace
    <3>6. CASE x # y
      <4>1. (x = b /\ y = p) \/ (x = p /\ y = b) BY <3>1, <3>6 DEF FromNode
      <4>2. CASE x = b /\ y = p
        <5>1. i = h + k BY <1>2, <3>1, <4>2 DEF FromPlace
        <5>2. i \in 1 .. h /\ k \in 1 .. n - h BY <1>3, <4>2
        <5> QED BY <1>2, <5>1, <5>2
      <4>3. CASE x = p /\ y = b
        <5>1. k = h + i BY <1>2, <3>1, <4>3 DEF FromPlace
        <5>2. k \in 1 .. h /\ i \in 1 .. n - h BY <1>3, <4>3
        <5> QED BY <1>2, <5>1, <5>2
      <4> QED BY <4>1, <4>2, <4>3
    <3> QED BY <3>3, <3>4, <3>5, <3>6
  <2> QED BY <2>3, <2>4, <2>5
<1> QED BY <1>5, <1>6 DEF Linked

(* The keys of the children after a split.                                 *)
LEMMA SplitKeys ==
  ASSUME NEW vs, NEW root, NEW lvl, NEW lo, IsTree(vs, root, lvl, lo), NEW ws, NEW p, NEW q, NEW j, NEW b, NEW h,
         IsSplit(vs, ws, p, q, j, b, h)
  PROVE  /\ \A i \in Places(ws, b) : KeyAt(ws, b, i) = KeyAt(vs, p, i) /\ ws[b].inner[i] = vs[p].inner[i]
         /\ \A i \in Places(ws, p) : KeyAt(ws, p, i) = KeyAt(vs, p, h + i) /\ ws[p].inner[i] = vs[p].inner[h + i]
         /\ \A i \in Places(ws, q) :
              /\ KeyAt(ws, q, i) = IF i < j THEN KeyAt(vs, q, i) ELSE IF i = j THEN KeyAt(vs, p, h) ELSE KeyAt(vs, q, i - 1)
              /\ ws[q].inner[i] = IF i < j THEN vs[q].inner[i] ELSE IF i = j THEN b ELSE vs[q].inner[i - 1]
         /\ \A x \in UsedIn(vs) \ {p, q} : \A i \in Places(vs, x) : KeyAt(ws, x, i) = KeyAt(vs, x, i)
<1>1. /\ UsedIn(ws) = UsedIn(vs) \cup {b} /\ b \notin UsedIn(vs) /\ b # p /\ b # q /\ p # q
      /\ \A x \in UsedIn(vs) : x # p /\ x # q => Places(ws, x) = Places(vs, x)
  BY SplitNodes
<1>2. PICK n, m \in Nat : /\ Places(vs, p) = 1 .. n /\ Places(vs, q) = 1 .. m /\ j \in 1 .. m /\ h < n
                          /\ Places(ws, b) = 1 .. h /\ Places(ws, p) = 1 .. n - h /\ Places(ws, q) = 1 .. m + 1
  BY SplitNodes
<1>3. p \in UsedIn(ws) /\ q \in UsedIn(ws) /\ b \in UsedIn(ws) BY <1>1 DEF IsSplit, InnerIn
<1>4. ws[q].inner[j] = b /\ KeyAt(ws, q, j) = KeyAt(vs, p, h) BY SplitFrom
<1>5. \A x \in UsedIn(ws) : \A i \in Places(ws, x) : (x = q /\ i = j) \/
        /\ ws[x].inner[i] = vs[FromNode(p, b, x)].inner[FromPlace(p, q, j, h, x, i)]
        /\ KeyAt(ws, x, i) = KeyAt(vs, FromNode(p, b, x), FromPlace(p, q, j, h, x, i))
  BY SplitFrom
<1>6. ASSUME NEW i \in Places(ws, b) PROVE KeyAt(ws, b, i) = KeyAt(vs, p, i) /\ ws[b].inner[i] = vs[p].inner[i]
  BY <1>1, <1>3, <1>5 DEF FromNode, FromPlace
<1>7. ASSUME NEW i \in Places(ws, p) PROVE KeyAt(ws, p, i) = KeyAt(vs, p, h + i) /\ ws[p].inner[i] = vs[p].inner[h + i]
  BY <1>1, <1>3, <1>5 DEF FromNode, FromPlace
<1>8. ASSUME NEW i \in Places(ws, q)
      PROVE  /\ KeyAt(ws, q, i) = IF i < j THEN KeyAt(vs, q, i) ELSE IF i = j THEN KeyAt(vs, p, h) ELSE KeyAt(vs, q, i - 1)
             /\ ws[q].inner[i] = IF i < j THEN vs[q].inner[i] ELSE IF i = j THEN b ELSE vs[q].inner[i - 1]
  <2>1. i \in Nat /\ j \in Nat BY <1>2
  <2>2. CASE i = j BY <1>4, <2>1, <2>2
  <2>3. CASE i # j
    <3>1. FromNode(p, b, q) = q /\ FromPlace(p, q, j, h, q, i) = IF i > j THEN i - 1 ELSE i
      BY <1>1 DEF FromNode, FromPlace
    <3>2. KeyAt(ws, q, i) = KeyAt(vs, q, IF i > j THEN i - 1 ELSE i)
          /\ ws[q].inner[i] = vs[q].inner[IF i > j THEN i - 1 ELSE i] BY <1>3, <1>5, <2>3, <3>1
    <3>3. CASE i < j
      <4>1. (IF i > j THEN i - 1 ELSE i) = i BY <2>1, <3>3
      <4> QED BY <3>2, <3>3, <4>1
    <3>4. CASE i > j
      <4>1. (IF i > j THEN i - 1 ELSE i) = i - 1 /\ ~(i < j) BY <2>1, <3>4
      <4> QED BY <2>3, <3>2, <3>4, <4>1
    <3> QED BY <2>1, <2>3, <3>3, <3>4
  <2> QED BY <2>2, <2>3
<1>9. ASSUME NEW x \in UsedIn(vs) \ {p, q}, NEW i \in Places(vs, x) PROVE KeyAt(ws, x, i) = KeyAt(vs, x, i)
  BY <1>1, <1>5 DEF FromNode, FromPlace
<1> QED BY <1>6, <1>7, <1>8, <1>9

(* After a split the keys still separate what is below them.               *)
LEMMA SplitKeepsOrder ==
  ASSUME NEW vs, NEW root, NEW lvl, NEW lo, IsTree(vs, root, lvl, lo), NEW ws, NEW p, NEW q, NEW j, NEW b, NEW h,
         IsSplit(vs, ws, p, q, j, b, h)
  PROVE  Ordered(ws, SplitBounds(lo, p, b, KeyAt(vs, p, h)))
<1> DEFINE Fits(ns, l, x) ==
             /\ \A i \in Places(ns, x) : l[x] < KeyAt(ns, x, i) /\ KeyAt(ns, x, i) <= ns[x].key
             /\ \A i, k \in Places(ns, x) : i < k => KeyAt(ns, x, i) < KeyAt(ns, x, k)
             /\ ~ns[x].leaf => \A i \in Places(ns, x) :
                  /\ l[x] <= l[ns[x].inner[i]]
                  /\ i > 1 => KeyAt(ns, x, i - 1) <= l[ns[x].inner[i]]
<1>1. Typed(vs) /\ Levels(vs, root, lvl) /\ Linked(vs, root) /\ Ordered(vs, lo) BY DEF IsTree
<1>2. /\ UsedIn(ws) = UsedIn(vs) \cup {b} /\ b \notin UsedIn(vs) /\ b # p /\ b # q /\ p # q
      /\ \A x \in UsedIn(vs) : ws[x].key = vs[x].key /\ ws[x].leaf = vs[x].leaf /\ x # b /\ x \in Blocks
      /\ \A x \in UsedIn(vs) : x # p /\ x # q => ws[x] = vs[x] /\ Places(ws, x) = Places(vs, x)
      /\ h \in Places(vs, p) /\ h \in Nat /\ h > 0 /\ KeyAt(vs, q, j) = vs[p].key
      /\ lvl[p] = lvl[q] - 1 /\ lvl[p] \in Nat
  BY SplitNodes
<1>3. PICK n, m \in Nat : /\ Places(vs, p) = 1 .. n /\ Places(vs, q) = 1 .. m /\ j \in 1 .. m /\ h < n
                          /\ Places(ws, b) = 1 .. h /\ Places(ws, p) = 1 .. n - h /\ Places(ws, q) = 1 .. m + 1
  BY SplitNodes
<1>4. /\ p \in UsedIn(vs) /\ q \in UsedIn(vs) /\ q \in InnerIn(vs) /\ ~vs[q].leaf /\ b \in Blocks
      /\ ws[b].leaf = vs[p].leaf /\ ws[b].key = KeyAt(vs, p, h) /\ vs[q].inner[j] = p
  BY DEF IsSplit, InnerIn
<1>5. PICK key : key = KeyAt(vs, p, h) OBVIOUS
<1>6. PICK l : l = SplitBounds(lo, p, b, key) OBVIOUS
<1>7. /\ key \in Nat /\ lo[p] < key /\ key <= vs[p].key /\ lo[p] \in Nat /\ vs[p].key \in Nat
      /\ \A x \in UsedIn(vs) : lo[x] \in Nat
  <2>1. p \in Blocks /\ KeyAt(vs, p, h) \in Nat BY <1>1, <1>2, <1>4, ChildrenAre
  <2> QED BY <1>1, <1>2, <1>4, <1>5, <2>1, FieldsAre DEF Ordered
<1>8. l \in [Blocks -> Nat] /\ l[b] = lo[p] /\ l[p] = key /\ \A x \in UsedIn(vs) : x # p => l[x] = lo[x]
  <2>1. lo \in [Blocks -> Nat] /\ p \in Blocks BY <1>1, <1>2, <1>4 DEF Ordered
  <2> QED BY <1>2, <1>4, <1>6, <1>7, <2>1 DEF SplitBounds
<1>9. \A x \in UsedIn(vs) : Fits(vs, lo, x) BY <1>1 DEF Ordered
<1>10. \A x \in UsedIn(vs) : \A i \in Places(vs, x) : KeyAt(vs, x, i) \in Nat /\ i \in Nat
  BY <1>1, ChildrenAre DEF Places
(* Only q has p as a child.                                                *)
<1>11. ASSUME NEW x \in UsedIn(vs), ~vs[x].leaf, NEW i \in Places(vs, x)
       PROVE  /\ vs[x].inner[i] \in UsedIn(vs)
              /\ (x = q /\ i = j) \/ (vs[x].inner[i] # p /\ l[vs[x].inner[i]] = lo[vs[x].inner[i]])
  <2>1. vs[x].inner[i] \in UsedIn(vs) /\ x \in InnerIn(vs) BY <1>1, <1>11, ChildrenAre DEF InnerIn
  <2>2. vs[x].inner[i] = p => x = q /\ i = j
    <3>1. \A a, c \in InnerIn(vs) : \A e \in Places(vs, a), f \in Places(vs, c) :
            vs[a].inner[e] = vs[c].inner[f] => a = c /\ e = f BY <1>1 DEF Linked
    <3> QED BY <1>3, <1>4, <2>1, <3>1
  <2> QED BY <1>8, <2>1, <2>2
<1>12. Fits(ws, l, b)
  <2>1. \A i \in 1 .. h : /\ KeyAt(ws, b, i) = KeyAt(vs, p, i) /\ ws[b].inner[i] = vs[p].inner[i]
                          /\ i \in Places(vs, p) /\ (i > 1 => i - 1 \in 1 .. h)
    BY <1>2, <1>3, SplitKeys
  <2>2. ASSUME NEW i \in 1 .. h PROVE l[b] < KeyAt(ws, b, i) /\ KeyAt(ws, b, i) <= ws[b].key
    <3>1. lo[p] < KeyAt(vs, p, i) /\ (i < h => KeyAt(vs, p, i) < KeyAt(vs, p, h)) BY <1>2, <1>4, <1>9, <2>1
    <3>2. CASE i < h BY <1>4, <1>5, <1>7, <1>8, <1>10, <2>1, <3>1, <3>2
    <3>3. CASE i = h BY <1>4, <1>5, <1>7, <1>8, <1>10, <2>1, <3>1, <3>3
    <3> QED BY <1>2, <3>2, <3>3
  <2>3. \A i, k \in 1 .. h : i < k => KeyAt(ws, b, i) < KeyAt(ws, b, k) BY <1>4, <1>9, <2>1
  <2>4. ASSUME ~ws[b].leaf, NEW i \in 1 .. h
        PROVE  l[b] <= l[ws[b].inner[i]] /\ (i > 1 => KeyAt(ws, b, i - 1) <= l[ws[b].inner[i]])
    <3>1. l[vs[p].inner[i]] = lo[vs[p].inner[i]] BY <1>2, <1>4, <1>11, <2>1, <2>4
    <3>2. lo[p] <= lo[vs[p].inner[i]] /\ (i > 1 => KeyAt(vs, p, i - 1) <= lo[vs[p].inner[i]])
      BY <1>4, <1>9, <2>1, <2>4
    <3> QED BY <1>8, <2>1, <3>1, <3>2
  <2> QED BY <1>3, <2>2, <2>3, <2>4
<1>13. Fits(ws, l, p)
  <2>1. \A i \in 1 .. n - h : /\ KeyAt(ws, p, i) = KeyAt(vs, p, h + i) /\ ws[p].inner[i] = vs[p].inner[h + i]
                              /\ h + i \in Places(vs, p) /\ h < h + i
                              /\ (i > 1 => i - 1 \in 1 .. n - h /\ h + (i - 1) = (h + i) - 1)
    <3>1. \A i \in Places(ws, p) : KeyAt(ws, p, i) = KeyAt(vs, p, h + i) /\ ws[p].inner[i] = vs[p].inner[h + i]
      BY SplitKeys
    <3>2. \A i \in 1 .. n - h : /\ h + i \in 1 .. n /\ h < h + i
                                /\ (i > 1 => i - 1 \in 1 .. n - h /\ h + (i - 1) = (h + i) - 1)
      BY <1>2
    <3> QED BY <1>3, <3>1, <3>2
  <2>2. ASSUME NEW i \in 1 .. n - h PROVE l[p] < KeyAt(ws, p, i) /\ KeyAt(ws, p, i) <= ws[p].key
    <3>1. KeyAt(vs, p, h + i) <= vs[p].key /\ KeyAt(vs, p, h) < KeyAt(vs, p, h + i) BY <1>2, <1>4, <1>9, <2>1
    <3> QED BY <1>2, <1>4, <1>5, <1>8, <2>1, <3>1
  <2>3. ASSUME NEW i \in 1 .. n - h, NEW k \in 1 .. n - h, i < k PROVE KeyAt(ws, p, i) < KeyAt(ws, p, k)
    <3>1. h + i < h + k BY <1>2, <2>3
    <3> QED BY <1>4, <1>9, <2>1, <3>1
  <2>4. ASSUME ~ws[p].leaf, NEW i \in 1 .. n - h
        PROVE  l[p] <= l[ws[p].inner[i]] /\ (i > 1 => KeyAt(ws, p, i - 1) <= l[ws[p].inner[i]])
    <3>1. PICK k : k = h + i /\ k \in Places(vs, p) /\ k > 1 /\ k - 1 \in Places(vs, p) /\ k - 1 >= h /\ k \in Nat
      BY <1>2, <1>3, <2>1
    <3>2. PICK c : c = vs[p].inner[k] OBVIOUS
    <3>3. l[c] = lo[c] /\ c \in UsedIn(vs) BY <1>2, <1>4, <1>11, <2>4, <3>1, <3>2
    <3>4. KeyAt(vs, p, k - 1) <= lo[c] BY <1>2, <1>4, <1>9, <2>4, <3>1, <3>2
    <3>5. KeyAt(vs, p, h) <= KeyAt(vs, p, k - 1)
      <4>1. CASE h = k - 1 BY <1>4, <1>10, <3>1, <4>1
      <4>2. CASE h < k - 1
        <5>1. KeyAt(vs, p, h) < KeyAt(vs, p, k - 1) BY <1>2, <1>4, <1>9, <3>1, <4>2
        <5> QED BY <1>2, <1>4, <1>10, <3>1, <5>1
      <4> QED BY <1>2, <3>1, <4>1, <4>2
    <3>6. key <= lo[c] BY <1>2, <1>4, <1>5, <1>7, <1>10, <3>1, <3>3, <3>4, <3>5
    <3>7. ws[p].inner[i] = c BY <2>1, <3>1, <3>2
    <3>8. i > 1 => KeyAt(ws, p, i - 1) = KeyAt(vs, p, k - 1) BY <2>1, <3>1
    <3> QED BY <1>8, <3>3, <3>4, <3>6, <3>7, <3>8
  <2> QED BY <1>3, <2>2, <2>3, <2>4
<1>14. Fits(ws, l, q)
  <2>1. \A i \in 1 .. m + 1 :
          /\ KeyAt(ws, q, i) = IF i < j THEN KeyAt(vs, q, i) ELSE IF i = j THEN key ELSE KeyAt(vs, q, i - 1)
          /\ ws[q].inner[i] = IF i < j THEN vs[q].inner[i] ELSE IF i = j THEN b ELSE vs[q].inner[i - 1]
          /\ (i < j => i \in 1 .. m) /\ (i > j => i - 1 \in 1 .. m) /\ (i > 1 => i - 1 \in 1 .. m + 1)
    BY <1>3, <1>5, SplitKeys
  <2>2. /\ \A i \in 1 .. m : lo[q] < KeyAt(vs, q, i) /\ KeyAt(vs, q, i) <= vs[q].key /\ KeyAt(vs, q, i) \in Nat
        /\ \A i, k \in 1 .. m : i < k => KeyAt(vs, q, i) < KeyAt(vs, q, k)
        /\ \A i \in 1 .. m : lo[q] <= lo[vs[q].inner[i]] /\ (i > 1 => KeyAt(vs, q, i - 1) <= lo[vs[q].inner[i]])
    BY <1>3, <1>4, <1>9, <1>10
  <2>3. lo[q] <= lo[p] /\ (j > 1 => KeyAt(vs, q, j - 1) <= lo[p] /\ j - 1 \in 1 .. m) /\ KeyAt(vs, q, j) = vs[p].key
        /\ lo[q] \in Nat /\ j \in Nat /\ vs[q].key \in Nat
    <3>1. q \in Blocks /\ j \in Nat /\ lo[q] \in Nat BY <1>2, <1>3, <1>4, <1>7
    <3>2. vs[q].key \in Nat BY <1>1, <3>1, FieldsAre
    <3>3. lo[q] <= lo[p] /\ (j > 1 => KeyAt(vs, q, j - 1) <= lo[p]) BY <1>3, <1>4, <2>2
    <3>4. j > 1 => j - 1 \in 1 .. m BY <1>3
    <3> QED BY <1>2, <3>1, <3>2, <3>3, <3>4
  <2>4. \A i \in 1 .. m : i < j => KeyAt(vs, q, i) < key
    <3> SUFFICES ASSUME NEW i \in 1 .. m, i < j PROVE KeyAt(vs, q, i) < key OBVIOUS
    <3>1. KeyAt(vs, q, j - 1) <= lo[p] /\ j - 1 \in 1 .. m BY <2>3
    <3>2. CASE i = j - 1 BY <1>7, <2>2, <3>1, <3>2
    <3>3. CASE i < j - 1
      <4>1. KeyAt(vs, q, i) < KeyAt(vs, q, j - 1) BY <2>2, <3>1, <3>3
      <4> QED BY <1>7, <2>2, <3>1, <4>1
    <3> QED BY <2>3, <3>2, <3>3
  <2>5. key < KeyAt(vs, q, j)
    <3>1. PICK k : k = h + 1 /\ k \in Places(vs, p) /\ h < k BY <1>2, <1>3
    <3>2. KeyAt(vs, p, h) < KeyAt(vs, p, k) /\ KeyAt(vs, p, k) <= vs[p].key BY <1>2, <1>4, <1>9, <3>1
    <3> QED BY <1>4, <1>5, <1>7, <1>10, <2>3, <3>1, <3>2
  <2>6. \A i \in 1 .. m : i >= j => key < KeyAt(vs, q, i)
    <3> SUFFICES ASSUME NEW i \in 1 .. m, i >= j PROVE key < KeyAt(vs, q, i) OBVIOUS
    <3>1. CASE i = j BY <2>5, <3>1
    <3>2. CASE i > j
      <4>1. KeyAt(vs, q, j) < KeyAt(vs, q, i) BY <1>3, <2>2, <3>2
      <4> QED BY <1>3, <1>7, <2>2, <2>5, <4>1
    <3> QED BY <2>3, <3>1, <3>2
  <2>7. ASSUME NEW i \in 1 .. m + 1 PROVE l[q] < KeyAt(ws, q, i) /\ KeyAt(ws, q, i) <= ws[q].key
    <3>1. l[q] = lo[q] /\ ws[q].key = vs[q].key BY <1>2, <1>4, <1>8
    <3>2. CASE i < j BY <2>1, <2>2, <3>1, <3>2
    <3>3. CASE i = j
      <4>1. KeyAt(vs, q, j) <= vs[q].key BY <1>3, <2>2
      <4> QED BY <1>3, <1>7, <2>1, <2>2, <2>3, <2>5, <3>1, <3>3, <4>1
    <3>4. CASE i > j BY <2>1, <2>2, <2>3, <3>1, <3>4
    <3> QED BY <2>3, <3>2, <3>3, <3>4
  <2>8. ASSUME NEW i \in 1 .. m + 1, NEW k \in 1 .. m + 1, i < k PROVE KeyAt(ws, q, i) < KeyAt(ws, q, k)
    <3>1. CASE k < j
      <4>1. i \in 1 .. m /\ k \in 1 .. m /\ i < j BY <2>1, <2>3, <2>8, <3>1
      <4> QED BY <2>1, <2>2, <2>8, <3>1, <4>1
    <3>2. CASE k = j
      <4>1. i \in 1 .. m /\ i < j BY <2>1, <2>3, <2>8, <3>2
      <4> QED BY <2>1, <2>3, <2>4, <3>2, <4>1
    <3>3. CASE k > j
      <4>1. k - 1 \in 1 .. m /\ k - 1 >= j /\ KeyAt(ws, q, k) = KeyAt(vs, q, k - 1) BY <2>1, <2>3, <3>3
      <4>2. CASE i < j
        <5>1. KeyAt(ws, q, i) = KeyAt(vs, q, i) /\ i \in 1 .. m /\ i < k - 1 BY <2>1, <2>3, <4>1, <4>2
        <5> QED BY <2>2, <4>1, <5>1
      <4>3. CASE i = j BY <2>1, <2>3, <2>6, <4>1, <4>3
      <4>4. CASE i > j
        <5>1. KeyAt(ws, q, i) = KeyAt(vs, q, i - 1) /\ i - 1 \in 1 .. m /\ i - 1 < k - 1 BY <2>1, <2>3, <2>8, <4>4
        <5> QED BY <2>2, <4>1, <5>1
      <4> QED BY <2>3, <4>2, <4>3, <4>4
    <3> QED BY <2>3, <3>1, <3>2, <3>3
  <2>9. ASSUME NEW i \in 1 .. m + 1
        PROVE  l[q] <= l[ws[q].inner[i]] /\ (i > 1 => KeyAt(ws, q, i - 1) <= l[ws[q].inner[i]])
    <3>0. l[q] = lo[q] BY <1>2, <1>4, <1>8
    <3>1. CASE i < j
      <4>1. ws[q].inner[i] = vs[q].inner[i] /\ i \in Places(vs, q) /\ i # j BY <1>3, <2>1, <2>3, <3>1
      <4>2. l[vs[q].inner[i]] = lo[vs[q].inner[i]] BY <1>4, <1>11, <4>1
      <4>3. i > 1 => i - 1 < j /\ i - 1 \in 1 .. m + 1 /\ KeyAt(ws, q, i - 1) = KeyAt(vs, q, i - 1)
        BY <2>1, <2>3, <3>1
      <4> QED BY <1>3, <2>2, <3>0, <4>1, <4>2, <4>3
    <3>2. CASE i = j
      <4>1. ws[q].inner[i] = b BY <2>1, <2>3, <3>2
      <4>2. i > 1 => i - 1 < j /\ i - 1 \in 1 .. m + 1 /\ KeyAt(ws, q, i - 1) = KeyAt(vs, q, i - 1)
        BY <2>1, <2>3, <3>2
      <4> QED BY <1>8, <2>3, <3>0, <3>2, <4>1, <4>2
    <3>3. CASE i = j + 1
      <4>1. ws[q].inner[i] = p /\ KeyAt(ws, q, i - 1) = key
        <5>1. i > j /\ i - 1 = j /\ j \in 1 .. m + 1 BY <1>3, <3>3
        <5> QED BY <1>4, <2>1, <5>1
      <4> QED BY <1>7, <1>8, <2>3, <3>0, <4>1
    <3>4. CASE i > j + 1
      <4>1. i - 1 \in 1 .. m /\ i - 1 > j /\ i - 1 \in 1 .. m + 1 /\ (i - 1) - 1 = i - 2 /\ i - 1 > 1
        BY <1>3, <2>3, <3>4
      <4>2. ws[q].inner[i] = vs[q].inner[i - 1] /\ i - 1 \in Places(vs, q) /\ i - 1 # j BY <1>3, <2>1, <2>3, <4>1
      <4>3. l[vs[q].inner[i - 1]] = lo[vs[q].inner[i - 1]] BY <1>4, <1>11, <4>2
      <4>4. KeyAt(ws, q, i - 1) = KeyAt(vs, q, (i - 1) - 1) BY <2>1, <2>3, <4>1
      <4>5. lo[q] <= lo[vs[q].inner[i - 1]] /\ KeyAt(vs, q, (i - 1) - 1) <= lo[vs[q].inner[i - 1]] BY <2>2, <4>1
      <4> QED BY <3>0, <4>2, <4>3, <4>4, <4>5
    <3> QED BY <2>3, <3>1, <3>2, <3>3, <3>4
  <2> HIDE DEF Fits
  <2>10. ~ws[q].leaf BY <1>2, <1>4
  <2> QED BY <1>3, <2>7, <2>8, <2>9, <2>10 DEF Fits
<1>15. ASSUME NEW x \in UsedIn(vs), x # p, x # q PROVE Fits(ws, l, x)
  <2>1. ws[x] = vs[x] /\ Places(ws, x) = Places(vs, x) /\ l[x] = lo[x] BY <1>2, <1>8, <1>15
  <2>2. \A i \in Places(vs, x) : KeyAt(ws, x, i) = KeyAt(vs, x, i) /\ (i > 1 => i - 1 \in Places(vs, x))
    <3>1. x \in UsedIn(vs) \ {p, q} BY <1>15
    <3>2. \A i \in Places(vs, x) : i > 1 => i - 1 \in Places(vs, x) BY DEF Places
    <3> QED BY <3>1, <3>2, SplitKeys
  <2>3. ~vs[x].leaf => \A i \in Places(vs, x) : l[vs[x].inner[i]] = lo[vs[x].inner[i]] BY <1>11, <1>15
  <2> QED BY <1>9, <2>1, <2>2, <2>3
<1>16. \A x \in UsedIn(ws) : Fits(ws, l, x)
  <2> HIDE DEF Fits
  <2> QED BY <1>2, <1>12, <1>13, <1>14, <1>15
<1> QED BY <1>5, <1>6, <1>8, <1>16 DEF Ordered

-----------------------------------------------------------------------------
(* The last child of each node has its key after a split.                  *)
LEMMA SplitKeepsEnds ==
  ASSUME NEW vs, NEW root, NEW lvl, NEW lo, IsTree(vs, root, lvl, lo), NEW ws, NEW p, NEW q, NEW j, NEW b, NEW h,
         IsSplit(vs, ws, p, q, j, b, h)
  PROVE  Ends(ws, {})
<1>1. Typed(vs) /\ Levels(vs, root, lvl) /\ Ends(vs, {}) BY DEF IsTree
<1>2. /\ UsedIn(ws) = UsedIn(vs) \cup {b} /\ b \notin UsedIn(vs) /\ b # p /\ b # q /\ p # q
      /\ \A x \in UsedIn(vs) : ws[x].key = vs[x].key /\ ws[x].leaf = vs[x].leaf /\ x # b /\ x \in Blocks
      /\ \A x \in UsedIn(vs) : x # p /\ x # q => ws[x] = vs[x] /\ Places(ws, x) = Places(vs, x)
      /\ h \in Nat /\ h > 0 /\ KeyAt(vs, q, j) = vs[p].key
  BY SplitNodes
<1>3. PICK n, m \in Nat : /\ Places(vs, p) = 1 .. n /\ Places(vs, q) = 1 .. m /\ j \in 1 .. m /\ h < n
                          /\ n = Len(vs[p].inner) /\ m = Len(vs[q].inner)
                          /\ Places(ws, b) = 1 .. h /\ Places(ws, p) = 1 .. n - h /\ Places(ws, q) = 1 .. m + 1
                          /\ Len(ws[b].inner) = h /\ Len(ws[p].inner) = n - h /\ Len(ws[q].inner) = m + 1
  BY SplitNodes
<1>4. /\ p \in UsedIn(vs) /\ q \in UsedIn(vs) /\ ~vs[q].leaf /\ ws[b].key = KeyAt(vs, p, h)
  BY DEF IsSplit, InnerIn
<1>5. /\ \A i \in Places(ws, b) : KeyAt(ws, b, i) = KeyAt(vs, p, i)
      /\ \A i \in Places(ws, p) : KeyAt(ws, p, i) = KeyAt(vs, p, h + i)
      /\ \A i \in Places(ws, q) :
           KeyAt(ws, q, i) = IF i < j THEN KeyAt(vs, q, i) ELSE IF i = j THEN KeyAt(vs, p, h) ELSE KeyAt(vs, q, i - 1)
      /\ \A x \in UsedIn(vs) \ {p, q} : \A i \in Places(vs, x) : KeyAt(ws, x, i) = KeyAt(vs, x, i)
  BY SplitKeys
<1>6. \A x \in UsedIn(vs) : ~vs[x].leaf /\ vs[x].inner # <<>> => KeyAt(vs, x, Len(vs[x].inner)) = vs[x].key
  BY <1>1 DEF Ends, InnerIn
<1>7. SUFFICES ASSUME NEW x \in UsedIn(ws), ~ws[x].leaf, ws[x].inner # <<>>
               PROVE  KeyAt(ws, x, Len(ws[x].inner)) = ws[x].key
  BY DEF Ends, InnerIn
<1>8. CASE x = b
  <2>1. h \in Places(ws, b) BY <1>2, <1>3
  <2> QED BY <1>3, <1>4, <1>5, <1>8, <2>1
<1>9. CASE x = p
  <2>1. n - h \in Places(ws, p) /\ h + (n - h) = n BY <1>2, <1>3
  <2>2. vs[p].inner # <<>> BY <1>2, <1>3
  <2>3. KeyAt(vs, p, n) = vs[p].key BY <1>2, <1>3, <1>4, <1>6, <1>7, <1>9, <2>2
  <2>4. ws[p].key = vs[p].key BY <1>2, <1>4
  <2> QED BY <1>3, <1>5, <1>9, <2>1, <2>3, <2>4
<1>10. CASE x = q
  <2>1. m + 1 \in Places(ws, q) /\ ~(m + 1 < j) /\ m + 1 # j /\ (m + 1) - 1 = m BY <1>3
  <2>2. vs[q].inner # <<>> BY <1>3
  <2>3. KeyAt(vs, q, m) = vs[q].key BY <1>3, <1>4, <1>6, <2>2
  <2>4. ws[q].key = vs[q].key BY <1>2, <1>4
  <2>5. KeyAt(ws, q, m + 1) = KeyAt(vs, q, m) BY <1>5, <2>1
  <2> QED BY <1>3, <1>10, <2>3, <2>4, <2>5
<1>11. CASE x # b /\ x # p /\ x # q
  <2>1. x \in UsedIn(vs) \ {p, q} /\ ws[x] = vs[x] BY <1>2, <1>11
  <2>2. Len(vs[x].inner) \in Places(vs, x)
    <3>1. vs[x].inner \in Seq(Children) /\ vs[x].inner # <<>> BY <1>1, <1>2, <1>7, <2>1, FieldsAre
    <3> QED BY <3>1 DEF Places
  <2> QED BY <1>5, <1>6, <1>7, <2>1, <2>2
<1> QED BY <1>8, <1>9, <1>10, <1>11

(* A split keeps the tree, and its entries.                                *)
LEMMA SplitKeepsTree ==
  ASSUME NEW vs, NEW root, NEW lvl, NEW lo, IsTree(vs, root, lvl, lo), NEW ws, NEW p, NEW q, NEW j, NEW b, NEW h,
         IsSplit(vs, ws, p, q, j, b, h)
  PROVE  /\ IsTree(ws, root, SplitLevels(lvl, p, b), SplitBounds(lo, p, b, KeyAt(vs, p, h)))
         /\ Kept(ws) = Kept(vs)
<1>1. IsTree(ws, root, SplitLevels(lvl, p, b), SplitBounds(lo, p, b, KeyAt(vs, p, h)))
  <2>1. vs[root].key = Infinity /\ root \in UsedIn(vs) BY DEF IsTree, Levels
  <2>2. ws[root].key = Infinity BY <2>1, SplitNodes
  <2>3. Typed(ws) BY DEF IsSplit
  <2> QED BY <2>2, <2>3, SplitKeepsLevels, SplitKeepsLinks, SplitKeepsOrder, SplitKeepsEnds DEF IsTree
<1>2. ASSUME NEW e \in Kept(ws) PROVE e \in Kept(vs)
  <2>1. PICK x \in UsedIn(ws) : \E i \in Places(ws, x) : HoldsAt(ws, e, x, i) BY DEF Kept
  <2>2. PICK i \in Places(ws, x) : HoldsAt(ws, e, x, i) BY <2>1
  <2>3. ~(x = q /\ i = j)
    <3>1. ~vs[q].leaf /\ ws[q].leaf = vs[q].leaf BY DEF IsSplit, InnerIn
    <3> QED BY <2>2, <3>1 DEF HoldsAt
  <2>4. PICK y, k : y = FromNode(p, b, x) /\ k = FromPlace(p, q, j, h, x, i) OBVIOUS
  <2>5. y \in UsedIn(vs) /\ k \in Places(vs, y) /\ ws[x].leaf = vs[y].leaf /\ ws[x].inner[i] = vs[y].inner[k]
    BY <2>3, <2>4, SplitFrom
  <2> QED BY <2>2, <2>5 DEF Kept, HoldsAt
<1>3. ASSUME NEW e \in Kept(vs) PROVE e \in Kept(ws)
  <2>1. PICK y \in UsedIn(vs) : \E k \in Places(vs, y) : HoldsAt(vs, e, y, k) BY DEF Kept
  <2>2. PICK k \in Places(vs, y) : HoldsAt(vs, e, y, k) BY <2>1
  <2>3. PICK x \in UsedIn(ws) : \E i \in Places(ws, x) :
          ws[x].leaf = vs[y].leaf /\ ws[x].inner[i] = vs[y].inner[k] BY SplitTo
  <2> QED BY <2>2, <2>3 DEF Kept, HoldsAt
<1> QED BY <1>1, <1>2, <1>3

(* A new root above the old one makes a tree with the same entries.        *)
LEMMA RootAbove ==
  ASSUME NEW vs, NEW p, NEW lvl, NEW lo, IsTree(vs, p, lvl, lo), vs[p].inner # <<>>,
         NEW r, NEW ws, IsRootAbove(vs, ws, p, r)
  PROVE  /\ \E l, d \in [Blocks -> Nat] : IsTree(ws, r, l, d)
         /\ Kept(ws) = Kept(vs) /\ UsedIn(ws) = UsedIn(vs) \cup {r}
<1>1. Typed(vs) /\ Levels(vs, p, lvl) /\ Linked(vs, p) /\ Ordered(vs, lo) /\ Ends(vs, {}) /\ vs[p].key = Infinity
  BY DEF IsTree
<1>2. p \in UsedIn(vs) /\ p \in Blocks /\ p # r /\ lvl \in [Blocks -> Nat] /\ lo \in [Blocks -> Nat] /\ r \in Blocks
  BY <1>1 DEF Levels, Ordered, UsedIn, IsRootAbove
<1>3. /\ ws[r].leaf = FALSE /\ ws[r].key = Infinity /\ ws[r].inner = <<p>> /\ Typed(ws)
      /\ \A x \in Blocks : x # r => ws[x] = vs[x]
  BY DEF IsRootAbove
<1>4. Infinity # 0 /\ Infinity \in Nat /\ ws[r] # NoNode
  <2>1. Infinity # 0 /\ Infinity \in Nat BY NoNodeIs DEF Infinity
  <2> QED BY <1>3, <2>1, NoNodeIs
<1>5. UsedIn(ws) = UsedIn(vs) \cup {r}
  <2>1. \A x \in Blocks : x \in UsedIn(ws) <=> x \in UsedIn(vs) \cup {r} BY <1>2, <1>3, <1>4 DEF UsedIn
  <2> QED BY <1>2, <2>1 DEF UsedIn
<1>6. \A x \in UsedIn(vs) : x # r /\ ws[x] = vs[x] /\ Places(ws, x) = Places(vs, x) /\ x \in Blocks
  BY <1>3 DEF UsedIn, Places, IsRootAbove
<1>7. Places(ws, r) = {1} /\ ws[r].inner[1] = p /\ Len(ws[r].inner) = 1
  <2>1. <<p>>[1] = p /\ Len(<<p>>) = 1 /\ 1 .. 1 = {1} OBVIOUS
  <2> QED BY <1>3, <2>1 DEF Places
<1>8. \A x \in UsedIn(vs) : \A i \in Places(vs, x) :
        /\ KeyAt(ws, x, i) = KeyAt(vs, x, i) /\ (~vs[x].leaf => vs[x].inner[i] \in UsedIn(vs) \ {p})
  <2> SUFFICES ASSUME NEW x \in UsedIn(vs), NEW i \in Places(vs, x)
               PROVE KeyAt(ws, x, i) = KeyAt(vs, x, i) /\ (~vs[x].leaf => vs[x].inner[i] \in UsedIn(vs) \ {p})
    OBVIOUS
  <2>1. ~vs[x].leaf => vs[x].inner[i] \in UsedIn(vs) /\ vs[x].inner[i] # p BY <1>1, ChildrenAre
  <2> QED BY <1>6, <2>1 DEF KeyAt, KeyOf
<1>9. KeyAt(ws, r, 1) = Infinity BY <1>1, <1>2, <1>3, <1>6, <1>7 DEF KeyAt, KeyOf
<1>10. PICK l, d : l = [lvl EXCEPT ![r] = lvl[p] + 1] /\ d = [lo EXCEPT ![r] = lo[p]] OBVIOUS
<1>11. /\ l \in [Blocks -> Nat] /\ d \in [Blocks -> Nat] /\ l[r] = lvl[p] + 1 /\ d[r] = lo[p]
       /\ \A x \in UsedIn(vs) : l[x] = lvl[x] /\ d[x] = lo[x]
  BY <1>2, <1>6, <1>10
<1>12. Levels(ws, r, l)
  <2>1. \A x \in UsedIn(vs) : lvl[x] \in Nat /\ lvl[x] <= lvl[p] /\ vs[x].key # 0 /\ (vs[x].leaf <=> lvl[x] = 0)
    BY <1>1, <1>2, <1>6 DEF Levels
  <2>2. \A x \in UsedIn(ws) : ws[x].key # 0 /\ l[x] <= l[r] /\ (ws[x].leaf <=> l[x] = 0)
    BY <1>2, <1>3, <1>4, <1>5, <1>6, <1>11, <2>1
  <2>3. ASSUME NEW x \in UsedIn(ws), NEW i \in Places(ws, x)
        PROVE  IF ws[x].leaf THEN ws[x].inner[i] \in Entries
               ELSE ws[x].inner[i] \in UsedIn(ws) \ {r} /\ l[ws[x].inner[i]] = l[x] - 1
    <3>1. CASE x = r
      <4>1. i = 1 /\ ws[r].inner[i] = p /\ ~ws[r].leaf BY <1>3, <1>7, <3>1
      <4>2. p \in UsedIn(ws) \ {r} /\ l[p] = lvl[p] /\ lvl[p] \in Nat BY <1>2, <1>5, <1>11
      <4>3. l[p] = l[r] - 1 BY <1>11, <4>2
      <4> QED BY <3>1, <4>1, <4>2, <4>3
    <3>2. CASE x # r
      <4>1. x \in UsedIn(vs) /\ i \in Places(vs, x) /\ ws[x] = vs[x] BY <1>5, <1>6, <3>2
      <4>2. IF vs[x].leaf THEN vs[x].inner[i] \in Entries
            ELSE vs[x].inner[i] \in UsedIn(vs) \ {p} /\ lvl[vs[x].inner[i]] = lvl[x] - 1
        BY <1>1, <4>1 DEF Levels
      <4> QED BY <1>5, <1>6, <1>11, <4>1, <4>2
    <3> QED BY <3>1, <3>2
  <2>4. r \in UsedIn(ws) BY <1>5
  <2> QED BY <1>11, <2>2, <2>3, <2>4 DEF Levels
<1>13. Linked(ws, r)
  <2>1. InnerIn(ws) = InnerIn(vs) \cup {r} BY <1>3, <1>5, <1>6 DEF InnerIn
  <2>2. \A x \in InnerIn(vs) : x \in UsedIn(vs) /\ ~vs[x].leaf /\ x # r BY <1>6 DEF InnerIn
  <2>3. ASSUME NEW c \in UsedIn(ws) \ {r}
        PROVE  \E x \in InnerIn(ws) : \E i \in Places(ws, x) : ws[x].inner[i] = c
    <3>1. CASE c = p BY <1>7, <2>1, <3>1
    <3>2. CASE c # p
      <4>1. PICK x \in InnerIn(vs) : \E i \in Places(vs, x) : vs[x].inner[i] = c BY <1>1, <1>5, <3>2 DEF Linked
      <4> QED BY <1>6, <2>1, <2>2, <4>1
    <3> QED BY <3>1, <3>2
  <2>4. ASSUME NEW x \in InnerIn(ws), NEW y \in InnerIn(ws), NEW i \in Places(ws, x), NEW k \in Places(ws, y),
               ws[x].inner[i] = ws[y].inner[k]
        PROVE  x = y /\ i = k
    <3>1. \A a, c \in InnerIn(vs) : \A e \in Places(vs, a), f \in Places(vs, c) :
            vs[a].inner[e] = vs[c].inner[f] => a = c /\ e = f BY <1>1 DEF Linked
    <3>2. \A a \in InnerIn(vs) : \A e \in Places(vs, a) : vs[a].inner[e] # p BY <1>8, <2>2
    <3>3. CASE x # r /\ y # r
      <4>1. x \in InnerIn(vs) /\ y \in InnerIn(vs) BY <2>1, <3>3
      <4>2. /\ ws[x] = vs[x] /\ ws[y] = vs[y] /\ i \in Places(vs, x) /\ k \in Places(vs, y)
        BY <1>6, <2>2, <4>1
      <4>3. vs[x].inner[i] = vs[y].inner[k] BY <2>4, <4>2
      <4> QED BY <3>1, <4>1, <4>2, <4>3
    <3>4. CASE x = r /\ y # r
      <4>1. y \in InnerIn(vs) BY <2>1, <3>4
      <4>2. ws[y] = vs[y] /\ k \in Places(vs, y) BY <1>6, <2>2, <4>1
      <4>3. ws[x].inner[i] = p BY <1>7, <3>4
      <4>4. vs[y].inner[k] = p BY <2>4, <4>2, <4>3
      <4> QED BY <3>2, <4>1, <4>2, <4>4
    <3>5. CASE x # r /\ y = r
      <4>1. x \in InnerIn(vs) BY <2>1, <3>5
      <4>2. ws[x] = vs[x] /\ i \in Places(vs, x) BY <1>6, <2>2, <4>1
      <4>3. ws[y].inner[k] = p BY <1>7, <3>5
      <4>4. vs[x].inner[i] = p BY <2>4, <4>2, <4>3
      <4> QED BY <3>2, <4>1, <4>2, <4>4
    <3>6. CASE x = r /\ y = r
      <4>1. i = 1 /\ k = 1 BY <1>7, <3>6
      <4> QED BY <3>6, <4>1
    <3> QED BY <3>3, <3>4, <3>5, <3>6
  <2> QED BY <2>3, <2>4 DEF Linked
<1>14. Ordered(ws, d)
  <2>1. ASSUME NEW x \in UsedIn(ws)
        PROVE  /\ \A i \in Places(ws, x) : d[x] < KeyAt(ws, x, i) /\ KeyAt(ws, x, i) <= ws[x].key
               /\ \A i, k \in Places(ws, x) : i < k => KeyAt(ws, x, i) < KeyAt(ws, x, k)
               /\ ~ws[x].leaf => \A i \in Places(ws, x) :
                    /\ d[x] <= d[ws[x].inner[i]]
                    /\ i > 1 => KeyAt(ws, x, i - 1) <= d[ws[x].inner[i]]
    <3>1. CASE x = r
      <4>1. lo[p] \in Nat /\ lo[p] < Infinity
        <5>1. lo[p] \in Nat BY <1>2
        <5>2. \A i \in Places(vs, p) : lo[p] < KeyAt(vs, p, i) /\ KeyAt(vs, p, i) <= vs[p].key BY <1>1, <1>2 DEF Ordered
        <5>3. 1 \in Places(vs, p)
          <6>1. vs[p].inner \in Seq(Children) BY <1>1, <1>2, FieldsAre
          <6> QED BY <6>1 DEF Places
        <5>4. KeyAt(vs, p, 1) \in Nat BY <1>1, <1>2, <5>3, ChildrenAre
        <5> QED BY <1>1, <1>4, <5>1, <5>2, <5>3, <5>4
      <4>2. d[r] = lo[p] /\ d[p] = lo[p] /\ ws[r].key = Infinity /\ ws[r].inner[1] = p BY <1>2, <1>3, <1>7, <1>11
      <4>3. \A i \in Places(ws, r) : i = 1 BY <1>7
      <4>4. d[r] < KeyAt(ws, r, 1) /\ KeyAt(ws, r, 1) <= ws[r].key BY <1>4, <1>9, <4>1, <4>2
      <4>5. d[r] <= d[ws[r].inner[1]] BY <4>1, <4>2
      <4>6. (\A i \in {1} : ~(i > 1)) /\ (\A i, k \in {1} : ~(i < k)) OBVIOUS
      <4>7. (\A i \in Places(ws, r) : ~(i > 1)) /\ (\A i, k \in Places(ws, r) : ~(i < k)) BY <1>7, <4>6
      <4> QED BY <3>1, <4>3, <4>4, <4>5, <4>6, <4>7
    <3>2. CASE x # r
      <4>1. x \in UsedIn(vs) /\ ws[x] = vs[x] /\ Places(ws, x) = Places(vs, x) /\ d[x] = lo[x]
        BY <1>5, <1>6, <1>11, <3>2
      <4>2. \A i \in Places(vs, x) : /\ KeyAt(ws, x, i) = KeyAt(vs, x, i) /\ (i > 1 => i - 1 \in Places(vs, x))
                                     /\ ~vs[x].leaf => d[vs[x].inner[i]] = lo[vs[x].inner[i]]
        <5>1. \A i \in Places(vs, x) : i > 1 => i - 1 \in Places(vs, x) BY DEF Places
        <5> QED BY <1>8, <1>11, <4>1, <5>1
      <4>3. /\ \A i \in Places(vs, x) : lo[x] < KeyAt(vs, x, i) /\ KeyAt(vs, x, i) <= vs[x].key
            /\ \A i, k \in Places(vs, x) : i < k => KeyAt(vs, x, i) < KeyAt(vs, x, k)
            /\ ~vs[x].leaf => \A i \in Places(vs, x) :
                 /\ lo[x] <= lo[vs[x].inner[i]]
                 /\ i > 1 => KeyAt(vs, x, i - 1) <= lo[vs[x].inner[i]]
        BY <1>1, <4>1 DEF Ordered
      <4> QED BY <4>1, <4>2, <4>3
    <3> QED BY <3>1, <3>2
  <2> QED BY <1>11, <2>1 DEF Ordered
<1>15. Ends(ws, {})
  <2> SUFFICES ASSUME NEW x \in UsedIn(ws), ~ws[x].leaf, ws[x].inner # <<>>
               PROVE  KeyAt(ws, x, Len(ws[x].inner)) = ws[x].key
    BY DEF Ends, InnerIn
  <2>1. CASE x = r BY <1>3, <1>7, <1>9, <2>1
  <2>2. CASE x # r
    <3>1. x \in UsedIn(vs) /\ ws[x] = vs[x] BY <1>5, <1>6, <2>2
    <3>2. Len(vs[x].inner) \in Places(vs, x)
      <4>1. vs[x].inner \in Seq(Children) /\ vs[x].inner # <<>> BY <1>1, <1>6, <3>1, FieldsAre
      <4> QED BY <4>1 DEF Places
    <3>3. KeyAt(vs, x, Len(vs[x].inner)) = vs[x].key BY <1>1, <3>1 DEF Ends, InnerIn
    <3> QED BY <1>8, <3>1, <3>2, <3>3
  <2> QED BY <2>1, <2>2
<1>16. Kept(ws) = Kept(vs)
  <2>1. \A e \in Entries : (\E x \in UsedIn(ws) : \E i \in Places(ws, x) : HoldsAt(ws, e, x, i))
                       <=> (\E x \in UsedIn(vs) : \E i \in Places(vs, x) : HoldsAt(vs, e, x, i))
    <3> SUFFICES ASSUME NEW e \in Entries
                 PROVE (\E x \in UsedIn(ws) : \E i \in Places(ws, x) : HoldsAt(ws, e, x, i))
                       <=> (\E x \in UsedIn(vs) : \E i \in Places(vs, x) : HoldsAt(vs, e, x, i)) OBVIOUS
    <3>1. ASSUME NEW x \in UsedIn(ws), NEW i \in Places(ws, x), HoldsAt(ws, e, x, i)
          PROVE  x \in UsedIn(vs) /\ i \in Places(vs, x) /\ HoldsAt(vs, e, x, i)
      <4>1. x # r BY <1>3, <3>1 DEF HoldsAt
      <4> QED BY <1>5, <1>6, <3>1, <4>1 DEF HoldsAt
    <3>2. ASSUME NEW x \in UsedIn(vs), NEW i \in Places(vs, x), HoldsAt(vs, e, x, i)
          PROVE  x \in UsedIn(ws) /\ i \in Places(ws, x) /\ HoldsAt(ws, e, x, i)
      BY <1>5, <1>6, <3>2 DEF HoldsAt
    <3> QED BY <3>1, <3>2
  <2> QED BY <2>1 DEF Kept
<1>17. IsTree(ws, r, l, d) BY <1>3, <1>12, <1>13, <1>14, <1>15 DEF IsTree
<1> QED BY <1>5, <1>11, <1>16, <1>17

-----------------------------------------------------------------------------
(* The key of the new node belongs before the child that is split.         *)
LEMMA SplitPlace ==
  ASSUME NEW vs, NEW root, NEW lvl, NEW lo, IsTree(vs, root, lvl, lo), NEW p \in UsedIn(vs), NEW q \in InnerIn(vs),
         NEW j \in Places(vs, q), vs[q].inner[j] = p, NEW h \in 1 .. Len(vs[p].inner) - 1, NEW b \in Blocks
  PROVE  /\ KeyAt(vs, p, h) \in Nat /\ KeyAt(vs, p, h) \in 1 .. Infinity /\ KeyAt(vs, p, h) # 0
         /\ IsInsertion(vs[q].inner, j, b, Inserted(vs[q].inner, ChildKeys(vs, q), KeyAt(vs, p, h), b))
<1>1. Typed(vs) /\ Levels(vs, root, lvl) /\ Ordered(vs, lo) BY DEF IsTree
<1>2. p \in Blocks /\ q \in UsedIn(vs) /\ q \in Blocks /\ ~vs[q].leaf BY DEF UsedIn, InnerIn
<1>3. PICK n, m \in Nat : n = Len(vs[p].inner) /\ m = Len(vs[q].inner) BY <1>1, <1>2, FieldsAre
<1>4. Places(vs, p) = 1 .. n /\ Places(vs, q) = 1 .. m /\ h \in 1 .. n - 1 BY <1>3 DEF Places
<1>5. h \in 1 .. n /\ h + 1 \in 1 .. n /\ h < h + 1 /\ j \in 1 .. m /\ (j > 1 => j - 1 \in 1 .. m) BY <1>3, <1>4
<1>6. PICK key : key = KeyAt(vs, p, h) OBVIOUS
<1>7. key \in Nat /\ key \in 1 .. Infinity /\ key # 0 BY <1>1, <1>4, <1>5, <1>6, ChildrenAre
<1>8. /\ \A i \in 1 .. m : KeyAt(vs, q, i) \in Nat
      /\ \A i, k \in 1 .. m : i < k => KeyAt(vs, q, i) < KeyAt(vs, q, k)
      /\ j > 1 => KeyAt(vs, q, j - 1) <= lo[p]
      /\ KeyAt(vs, q, j) = vs[p].key /\ lo[p] < key /\ lo[p] \in Nat /\ vs[p].key \in Nat
  <2>1. \A i \in 1 .. m : KeyAt(vs, q, i) \in Nat BY <1>1, <1>2, <1>4, ChildrenAre
  <2>2. \A i, k \in 1 .. m : i < k => KeyAt(vs, q, i) < KeyAt(vs, q, k) BY <1>1, <1>2, <1>4 DEF Ordered
  <2>3. j > 1 => KeyAt(vs, q, j - 1) <= lo[p] BY <1>1, <1>2 DEF Ordered
  <2>4. KeyAt(vs, q, j) = vs[p].key BY <1>1, <1>2, ChildrenAre
  <2>5. lo[p] < key BY <1>1, <1>4, <1>5, <1>6 DEF Ordered
  <2>6. lo[p] \in Nat /\ vs[p].key \in Nat BY <1>1, <1>2, FieldsAre DEF Ordered
  <2> QED BY <2>1, <2>2, <2>3, <2>4, <2>5, <2>6
<1>9. key < vs[p].key
  <2>1. key < KeyAt(vs, p, h + 1) /\ KeyAt(vs, p, h + 1) <= vs[p].key BY <1>1, <1>4, <1>5, <1>6 DEF Ordered
  <2>2. KeyAt(vs, p, h + 1) \in Nat BY <1>1, <1>4, <1>5, ChildrenAre
  <2> QED BY <1>7, <1>8, <2>1, <2>2
<1>10. ASSUME NEW i \in 1 .. m, i < j PROVE KeyAt(vs, q, i) < key
  <2>1. j > 1 /\ j - 1 \in 1 .. m BY <1>5, <1>10
  <2>2. CASE i = j - 1 BY <1>7, <1>8, <2>1, <2>2
  <2>3. CASE i < j - 1
    <3>1. KeyAt(vs, q, i) < KeyAt(vs, q, j - 1) BY <1>8, <2>1, <2>3
    <3> QED BY <1>7, <1>8, <2>1, <3>1
  <2> QED BY <1>5, <1>10, <2>2, <2>3
<1>11. ASSUME NEW i \in 1 .. m, i >= j PROVE key < KeyAt(vs, q, i)
  <2>1. CASE i = j BY <1>8, <1>9, <2>1
  <2>2. CASE i > j
    <3>1. KeyAt(vs, q, j) < KeyAt(vs, q, i) BY <1>5, <1>8, <2>2
    <3> QED BY <1>5, <1>7, <1>8, <1>9, <3>1
  <2> QED BY <1>5, <1>11, <2>1, <2>2
<1>12. \A i \in Places(vs, q) : KeyAt(vs, q, i) # key
  <2> SUFFICES ASSUME NEW i \in 1 .. m PROVE KeyAt(vs, q, i) # key BY <1>4
  <2>1. i < j \/ i >= j BY <1>5
  <2> QED BY <1>7, <1>8, <1>10, <1>11, <2>1
<1>13. b \in Children BY DEF Children
<1>14. PICK c \in 1 .. Len(vs[q].inner) + 1 :
         /\ IsInsertion(vs[q].inner, c, b, Inserted(vs[q].inner, ChildKeys(vs, q), key, b))
         /\ \A i \in Places(vs, q) : IF i < c THEN KeyAt(vs, q, i) < key ELSE key < KeyAt(vs, q, i)
  BY <1>2, <1>7, <1>12, <1>13, InsertedIs
<1>15. c = j
  <2>1. c \in 1 .. m + 1 /\ c \in Nat BY <1>3, <1>14
  <2>2. ~(j < c)
    <3> SUFFICES ASSUME j < c PROVE FALSE OBVIOUS
    <3>1. KeyAt(vs, q, j) < key BY <1>14
    <3> QED BY <1>7, <1>8, <1>9, <3>1
  <2>3. ~(c < j)
    <3> SUFFICES ASSUME c < j PROVE FALSE OBVIOUS
    <3>1. c \in 1 .. m /\ ~(c < c) BY <1>5, <2>1
    <3>2. key < KeyAt(vs, q, c) /\ KeyAt(vs, q, c) < key BY <1>4, <1>10, <1>14, <3>1
    <3> QED BY <1>7, <1>8, <3>1, <3>2
  <2> QED BY <1>5, <2>1, <2>2, <2>3
<1> QED BY <1>6, <1>7, <1>14, <1>15

-----------------------------------------------------------------------------
(* The parts of a list.                                                    *)
LEMMA PartsAre ==
  ASSUME NEW S, NEW s \in Seq(S), NEW h \in 1 .. Len(s) - 1
  PROVE  /\ SubSeq(s, 1, h) \in Seq(S) /\ Len(SubSeq(s, 1, h)) = h /\ \A i \in 1 .. h : SubSeq(s, 1, h)[i] = s[i]
         /\ SubSeq(s, h + 1, Len(s)) \in Seq(S) /\ Len(SubSeq(s, h + 1, Len(s))) = Len(s) - h
         /\ \A i \in 1 .. Len(s) - h : SubSeq(s, h + 1, Len(s))[i] = s[h + i]
<1>1. Len(s) \in Nat /\ h \in Nat /\ h < Len(s) /\ h >= 1 OBVIOUS
<1>2. SubSeq(s, 1, h) \in Seq(S) /\ Len(SubSeq(s, 1, h)) = h /\ \A i \in 1 .. h : SubSeq(s, 1, h)[i] = s[i]
  BY <1>1
<1>3. SubSeq(s, h + 1, Len(s)) \in Seq(S) /\ Len(SubSeq(s, h + 1, Len(s))) = Len(s) - h
  BY <1>1
<1>4. \A i \in 1 .. Len(s) - h : SubSeq(s, h + 1, Len(s))[i] = s[h + i]
  BY <1>1
<1> QED BY <1>2, <1>3, <1>4

(* A node that gets a list of children changes in nothing else.            *)
LEMMA WidenedChanges ==
  ASSUME NEW ns, Typed(ns), NEW p \in Blocks, NEW all \in Seq(Children)
  PROVE  Changes(ns, [ns EXCEPT ![p] = [ns[p] EXCEPT !.inner = all]], p, all)
<1>1. PICK vs : vs = [ns EXCEPT ![p] = [ns[p] EXCEPT !.inner = all]] OBVIOUS
<1>2. ns[p] \in TreeNodes BY FieldsAre
<1>3. /\ [ns[p] EXCEPT !.inner = all] \in TreeNodes /\ [ns[p] EXCEPT !.inner = all].inner = all
      /\ [ns[p] EXCEPT !.inner = all].key = ns[p].key /\ [ns[p] EXCEPT !.inner = all].leaf = ns[p].leaf
  BY <1>2 DEF TreeNodes
<1>4. vs[p] = [ns[p] EXCEPT !.inner = all] /\ \A x \in Blocks \ {p} : vs[x] = ns[x] BY <1>1 DEF Typed
<1>5. vs \in [Blocks -> TreeNodes] BY <1>1, <1>3 DEF Typed
<1> QED BY <1>1, <1>3, <1>4, <1>5 DEF Changes, Typed

(* After a split below the root the parent awaits the new node.            *)
LEMMA HalvedAwaits ==
  ASSUME NEW ns, NEW root, NEW p, NEW key, NEW child, NEW K, Awaits(ns, root, p, key, child, K),
         NEW q \in InnerIn(ns), q # p, NEW j \in Places(ns, q), ns[q].inner[j] = p,
         NEW b \in Blocks \ UsedIn(ns), NEW us, NEW h \in 1 .. Len(Joined(ns, p, key, child)) - 1,
         Halved(ns, us, p, Joined(ns, p, key, child), h, b)
  PROVE  Awaits(us, root, q, us[b].key, b, K)
<1>1. PICK all : all = Joined(ns, p, key, child) OBVIOUS
<1>2. PICK i0 \in Nat : IsInsertion(ns[p].inner, i0, child, all) BY <1>1 DEF Awaits
<1>3. all \in Seq(Children) /\ h \in 1 .. Len(all) - 1 /\ Len(all) \in Nat BY <1>1, <1>2 DEF IsInsertion
<1>4. PICK lvl, lo \in [Blocks -> Nat] :
        \A vs : Changes(ns, vs, p, all) => IsTree(vs, root, lvl, lo) /\ Kept(vs) = K
  BY <1>1 DEF Awaits
<1>5. Typed(ns) /\ p \in UsedIn(ns) /\ p \in Blocks /\ ns[p].key # 0 BY DEF Awaits, UsedIn
<1>6. PICK vs : vs = [ns EXCEPT ![p] = [ns[p] EXCEPT !.inner = all]] OBVIOUS
<1>7. Changes(ns, vs, p, all) BY <1>3, <1>5, <1>6, WidenedChanges
<1>8. IsTree(vs, root, lvl, lo) /\ Kept(vs) = K BY <1>4, <1>7
<1>9. /\ UsedIn(vs) = UsedIn(ns) /\ InnerIn(vs) = InnerIn(ns)
      /\ \A x \in UsedIn(ns) : vs[x].key = ns[x].key /\ vs[x].leaf = ns[x].leaf
      /\ \A x \in UsedIn(ns) : x # p => vs[x] = ns[x]
      /\ \A x \in UsedIn(ns) : x # p => Places(vs, x) = Places(ns, x)
  <2>1. p \in UsedIn(ns) /\ ns[p].key # 0 BY <1>5
  <2> QED BY ONLY <1>7, <2>1, ChangesKeep
<1>10. vs[p].inner = all /\ \A x \in Blocks \ {p} : vs[x] = ns[x] BY <1>7 DEF Changes
<1>11. Typed(vs) /\ Levels(vs, root, lvl) BY <1>8 DEF IsTree
<1>12. q \in UsedIn(ns) /\ q \in Blocks /\ ~ns[q].leaf /\ vs[q] = ns[q] /\ q # b BY <1>9 DEF InnerIn, UsedIn
<1>13. j \in Places(vs, q) /\ vs[q].inner[j] = p /\ q \in InnerIn(vs) /\ p \in UsedIn(vs) /\ h \in 1 .. Len(vs[p].inner) - 1
  BY <1>3, <1>5, <1>9, <1>10, <1>12
<1>14. us[b].key = KeyAt(vs, p, h)
  <2>1. us[b].key = KeyOf(ns, ns[p].leaf, all[h]) BY <1>1 DEF Halved
  <2>2. KeyAt(vs, p, h) = KeyOf(vs, ns[p].leaf, all[h]) BY <1>5, <1>9, <1>10 DEF KeyAt
  <2>3. ~ns[p].leaf => all[h] \in UsedIn(ns)
    <3>1. h \in Places(vs, p) BY <1>3, <1>10 DEF Places
    <3> QED BY <1>5, <1>9, <1>10, <1>11, <1>13, <3>1, ChildrenAre
  <2> QED BY <1>9, <2>1, <2>2, <2>3 DEF KeyOf
<1>15. PICK k : k = us[b].key OBVIOUS
<1>16. k \in Nat /\ k # 0 /\ IsInsertion(vs[q].inner, j, b, Inserted(vs[q].inner, ChildKeys(vs, q), k, b))
  BY <1>8, <1>13, <1>14, <1>15, SplitPlace
<1>17. us[q] = ns[q] /\ us[q] = vs[q] /\ \A x \in UsedIn(ns) : us[x].key = ns[x].key
  <2>1. \A x \in Blocks \ {b, p} : us[x] = ns[x] BY DEF Halved
  <2>2. us[p].key = ns[p].key BY DEF Halved
  <2>3. \A x \in UsedIn(ns) : x = p \/ x \in Blocks \ {b, p} BY DEF UsedIn
  <2> QED BY <1>12, <2>1, <2>2, <2>3
<1>18. ChildKeys(us, q) = ChildKeys(vs, q)
  <2>1. DOMAIN vs[q].inner = Places(vs, q) BY <1>11, <1>12, FieldsAre
  <2>2. \A i \in Places(vs, q) : vs[q].inner[i] \in UsedIn(ns) BY <1>9, <1>11, <1>12, ChildrenAre
  <2>3. \A i \in Places(vs, q) : KeyOf(us, us[q].leaf, us[q].inner[i]) = KeyOf(vs, vs[q].leaf, vs[q].inner[i])
    BY <1>9, <1>12, <1>17, <2>2 DEF KeyOf
  <2> QED BY <1>17, <2>1, <2>3 DEF ChildKeys
<1>19. PICK add : add = Joined(us, q, k, b) OBVIOUS
<1>20. IsInsertion(vs[q].inner, j, b, add) BY <1>16, <1>17, <1>18, <1>19 DEF Joined
<1>21. ASSUME NEW ws, Changes(us, ws, q, add) PROVE IsSplit(vs, ws, p, q, j, b, h)
  <2>1. Typed(ws) /\ (\A x \in Blocks \ {q} : ws[x] = us[x]) /\ ws[q].inner = add /\ ws[q].key = us[q].key
        /\ ws[q].leaf = us[q].leaf BY <1>21 DEF Changes
  <2>2. /\ \A x \in Blocks \ {b, p} : us[x] = ns[x]
        /\ us[b].leaf = ns[p].leaf /\ us[b].inner = SubSeq(all, 1, h)
        /\ us[p].leaf = ns[p].leaf /\ us[p].key = ns[p].key /\ us[p].inner = SubSeq(all, h + 1, Len(all))
    BY <1>1 DEF Halved
  <2>3. ws[b] = us[b] /\ ws[p] = us[p] BY <1>5, <1>12, <2>1
  <2>4. \A x \in Blocks \ {b, p, q} : ws[x] = vs[x] BY <1>10, <2>1, <2>2
  <2>5. /\ Len(ws[b].inner) = h /\ \A i \in 1 .. h : ws[b].inner[i] = vs[p].inner[i]
        /\ Len(ws[p].inner) = Len(all) - h /\ \A i \in 1 .. Len(all) - h : ws[p].inner[i] = vs[p].inner[h + i]
    BY <1>3, <1>10, <2>2, <2>3, PartsAre
  <2>6. ws[b].leaf = vs[p].leaf /\ ws[b].key = KeyAt(vs, p, h) /\ ws[p].leaf = vs[p].leaf /\ ws[p].key = vs[p].key
    BY <1>5, <1>9, <1>14, <2>2, <2>3
  <2>7. ws[q].leaf = vs[q].leaf /\ ws[q].key = vs[q].key BY <1>17, <2>1
  <2>8. b \in Blocks \ UsedIn(vs) BY <1>9
  <2> QED BY <1>10, <1>13, <1>20, <2>1, <2>4, <2>5, <2>6, <2>7, <2>8 DEF IsSplit
<1>22. PICK l, d : l = SplitLevels(lvl, p, b) /\ d = SplitBounds(lo, p, b, k) OBVIOUS
<1>23. l \in [Blocks -> Nat] /\ d \in [Blocks -> Nat] BY <1>5, <1>16, <1>22 DEF SplitLevels, SplitBounds
<1>24. \A ws : Changes(us, ws, q, add) => IsTree(ws, root, l, d) /\ Kept(ws) = K
  <2> SUFFICES ASSUME NEW ws, Changes(us, ws, q, add) PROVE IsTree(ws, root, l, d) /\ Kept(ws) = K OBVIOUS
  <2>1. IsSplit(vs, ws, p, q, j, b, h) BY <1>21
  <2> QED BY <1>8, <1>14, <1>15, <1>22, <2>1, SplitKeepsTree
<1>25. us[q].key # 0 /\ q \in UsedIn(us)
  <2>1. ns[q] # NoNode BY <1>12 DEF UsedIn
  <2>2. vs[q].key # 0 BY <1>9, <1>11, <1>12 DEF Levels
  <2> QED BY <1>12, <1>17, <2>1, <2>2 DEF UsedIn
<1>26. Typed(us) /\ b \in Children BY DEF Halved, Children
<1>27. j \in Nat /\ IsInsertion(us[q].inner, j, b, add) BY <1>17, <1>20 DEF Places
<1> QED BY <1>15, <1>16, <1>19, <1>23, <1>24, <1>25, <1>26, <1>27 DEF Awaits

-----------------------------------------------------------------------------
(* There are finitely many free blocks.                                    *)
LEMMA FreeFinite ==
  ASSUME NEW ns
  PROVE  IsFiniteSet(FreeIn(ns)) /\ FreeIn(ns) \subseteq 1 .. MaxBlocks /\ MaxBlocks \in Nat
<1>1. MaxBlocks \in Nat BY BtreeAssumption
<1>2. FreeIn(ns) \subseteq 1 .. MaxBlocks BY DEF FreeIn, Blocks
<1>3. IsFiniteSet(1 .. MaxBlocks) BY <1>1, FS_Interval
<1>4. IsFiniteSet(FreeIn(ns)) BY <1>2, <1>3, FS_Subset
<1> QED BY <1>1, <1>2, <1>4

(* storeNode: a block that is not in use, and one less is free.            *)
LEMMA FreshIs ==
  ASSUME NEW ns, NEW k \in Nat, Cardinality(FreeIn(ns)) >= k + 1
  PROVE  /\ Fresh(ns) \in Blocks \ UsedIn(ns)
         /\ \A us : UsedIn(us) = UsedIn(ns) \cup {Fresh(ns)} => Cardinality(FreeIn(us)) >= k
<1>1. MaxBlocks \in Nat /\ FreeIn(ns) \subseteq 1 .. MaxBlocks /\ IsFiniteSet(FreeIn(ns)) BY FreeFinite
<1>4. FreeIn(ns) # {}
  <2> SUFFICES ASSUME FreeIn(ns) = {} PROVE FALSE OBVIOUS
  <2>1. Cardinality({}) = 0 BY FS_EmptySet
  <2> QED BY <2>1
<1>5. PICK b : b = Min(FreeIn(ns)) OBVIOUS
<1>6. b \in FreeIn(ns) BY <1>1, <1>4, <1>5, FirstPlace
<1>7. Fresh(ns) = b BY <1>5 DEF Fresh, FreeIn
<1>8. b \in Blocks /\ b \notin UsedIn(ns) BY <1>6 DEF FreeIn, UsedIn
<1>9. ASSUME NEW us, UsedIn(us) = UsedIn(ns) \cup {b} PROVE Cardinality(FreeIn(us)) >= k
  <2>1. \A x \in Blocks : us[x] = NoNode <=> ns[x] = NoNode /\ x # b BY <1>9 DEF UsedIn
  <2>2. FreeIn(us) = FreeIn(ns) \ {b} BY <2>1 DEF FreeIn
  <2>3. Cardinality(FreeIn(ns) \ {b}) = Cardinality(FreeIn(ns)) - 1 /\ Cardinality(FreeIn(ns)) \in Nat
    BY <1>1, <1>6, FS_RemoveElement, FS_CardinalityType
  <2> QED BY <2>2, <2>3
<1> QED BY <1>7, <1>8, <1>9

(* The halves of a node with one child too many are within the limit.      *)
LEMMA HalfIs ==
  ASSUME NEW n \in Nat, n = NodeNumber + 1
  PROVE  n \div 2 \in 1 .. n - 1 /\ n \div 2 <= NodeNumber /\ n - n \div 2 <= NodeNumber
<1>1. NodeNumber \in Nat /\ NodeNumber >= 2 BY BtreeAssumption
<1> QED BY <1>1

(* A child joins a node that is not full.                                  *)
LEMMA JoinedGrows ==
  ASSUME NEW ns, NEW root \in UsedIn(ns), NEW p, NEW key, NEW child, NEW K, Awaits(ns, root, p, key, child, K),
         Room(ns, root), Len(ns[p].inner) < NodeNumber,
         NEW us, Changes(ns, us, p, Joined(ns, p, key, child)), us[p].root = ns[p].root
  PROVE  Grown(us, root, K)
<1>1. Typed(ns) /\ p \in UsedIn(ns) /\ p \in Blocks /\ ns[p].key # 0 /\ root \in Blocks BY DEF Awaits, UsedIn
<1>2. PICK all : all = Joined(ns, p, key, child) OBVIOUS
<1>3. Changes(ns, us, p, all) BY <1>2
<1>4. /\ UsedIn(us) = UsedIn(ns)
      /\ \A x \in UsedIn(ns) : us[x].key = ns[x].key /\ us[x].leaf = ns[x].leaf
      /\ \A x \in UsedIn(ns) : x # p => us[x] = ns[x]
  <2>1. p \in UsedIn(ns) /\ ns[p].key # 0 BY <1>1
  <2> QED BY ONLY <1>3, <2>1, ChangesKeep
<1>5. Len(us[p].inner) = Len(ns[p].inner) + 1 /\ us[p].inner \in Seq(Children) /\ Len(ns[p].inner) \in Nat
  <2>1. us[p].inner = all BY <1>3 DEF Changes
  <2>2. Len(ns[p].inner) \in Nat BY <1>1, FieldsAre
  <2> QED BY <1>2, <2>1, <2>2 DEF Awaits, IsInsertion
<1>6. us[p].inner # <<>> BY <1>5
<1>7. NodeNumber \in Nat BY BtreeAssumption
<1>8. Filled(us, {root}) BY <1>4, <1>6 DEF Room, Filled
<1>9. us[root].leaf \/ Len(us[root].inner) > 1
  <2>1. CASE p # root BY <1>4, <2>1 DEF Room
  <2>2. CASE p = root BY <1>1, <1>4, <1>5, <2>2 DEF Room
  <2> QED BY <2>1, <2>2
<1>10. Flagged(us, root) BY <1>4 DEF Room, Flagged
<1>11. Limited(us) BY <1>4, <1>5, <1>7 DEF Room, Limited
<1>12. \E lvl, lo \in [Blocks -> Nat] : IsTree(us, root, lvl, lo) /\ Kept(us) = K BY DEF Awaits
<1> QED BY <1>8, <1>9, <1>10, <1>11, <1>12 DEF Grown, Room

(* us has the two halves of the children all of p.                         *)
LEMMA HalvedNodes ==
  ASSUME NEW ns, Typed(ns), NEW p \in UsedIn(ns), NEW all \in Seq(Children), Len(all) = NodeNumber + 1,
         NEW b \in Blocks \ UsedIn(ns), NEW us, ns[p].key # 0, us[b].key # 0,
         Halved(ns, us, p, all, Len(all) \div 2, b)
  PROVE  /\ UsedIn(us) = UsedIn(ns) \cup {b} /\ b # p
         /\ \A x \in UsedIn(us) : x = b \/ x = p \/ (x \in UsedIn(ns) /\ us[x] = ns[x])
         /\ \A x \in UsedIn(ns) : x # p => us[x] = ns[x]
         /\ us[b].inner # <<>> /\ Len(us[b].inner) <= NodeNumber
         /\ us[p].inner # <<>> /\ Len(us[p].inner) <= NodeNumber
<1>1. PICK h : h = Len(all) \div 2 OBVIOUS
<1>2. h \in 1 .. Len(all) - 1 /\ h <= NodeNumber /\ Len(all) - h <= NodeNumber /\ Len(all) \in Nat BY <1>1, HalfIs
<1>3. /\ \A x \in Blocks \ {b, p} : us[x] = ns[x]
      /\ us[b].inner = SubSeq(all, 1, h) /\ us[p].inner = SubSeq(all, h + 1, Len(all)) /\ us[p].key = ns[p].key
  BY <1>1 DEF Halved
<1>4. /\ us[b].inner \in Seq(Children) /\ Len(us[b].inner) = h
      /\ us[p].inner \in Seq(Children) /\ Len(us[p].inner) = Len(all) - h
  BY <1>2, <1>3, PartsAre
<1>5. us[b].inner # <<>> /\ us[p].inner # <<>> BY <1>2, <1>4
<1>6. us[b] # NoNode /\ us[p] # NoNode /\ ns[p] # NoNode BY <1>3, NoNodeIs
<1>7. b # p /\ p \in Blocks /\ b \in Blocks BY DEF UsedIn
<1>8. UsedIn(us) = UsedIn(ns) \cup {b}
  <2>1. \A x \in Blocks : x \in UsedIn(us) <=> x \in UsedIn(ns) \cup {b} BY <1>3, <1>6, <1>7 DEF UsedIn
  <2> QED BY <1>7, <2>1 DEF UsedIn
<1>9. \A x \in UsedIn(ns) : x # p => us[x] = ns[x] BY <1>3 DEF UsedIn
<1> QED BY <1>2, <1>4, <1>5, <1>7, <1>8, <1>9

(* A split below the root.                                                 *)
LEMMA HalvedRoom ==
  ASSUME NEW ns, Typed(ns), NEW p \in UsedIn(ns), NEW all \in Seq(Children), Len(all) = NodeNumber + 1,
         NEW b \in Blocks \ UsedIn(ns), NEW us, ns[p].key # 0, us[b].key # 0,
         Halved(ns, us, p, all, Len(all) \div 2, b),
         NEW root \in UsedIn(ns), root # p, Room(ns, root), us[b].root = FALSE, us[p].root = FALSE
  PROVE  Room(us, root)
<1>1. /\ UsedIn(us) = UsedIn(ns) \cup {b} /\ b # p
      /\ \A x \in UsedIn(us) : x = b \/ x = p \/ (x \in UsedIn(ns) /\ us[x] = ns[x])
      /\ \A x \in UsedIn(ns) : x # p => us[x] = ns[x]
      /\ us[b].inner # <<>> /\ Len(us[b].inner) <= NodeNumber
      /\ us[p].inner # <<>> /\ Len(us[p].inner) <= NodeNumber
  BY HalvedNodes
<1>2. b # root OBVIOUS
<1> QED BY <1>1, <1>2 DEF Room, Filled, Flagged, Limited

(* A split of the root, and a new root above both halves.                  *)
LEMMA RootSplits ==
  ASSUME NEW ns, NEW root, NEW key, NEW child, NEW K, Awaits(ns, root, root, key, child, K), Room(ns, root),
         Len(ns[root].inner) = NodeNumber, NEW b \in Blocks \ UsedIn(ns), NEW all, all = Joined(ns, root, key, child),
         NEW us, Halved(ns, us, root, all, Len(all) \div 2, b), us[b].root = FALSE, us[root].root = FALSE,
         NEW r \in Blocks \ UsedIn(us), UsedIn(us) = UsedIn(ns) \cup {b},
         NEW ws, ws = [us EXCEPT ![r] = TreeNode(TRUE, FALSE, Infinity, <<b, root>>)]
  PROVE  Grown(ws, r, K)
<1>1. Typed(ns) /\ root \in UsedIn(ns) /\ root \in Blocks /\ ns[root].key # 0 BY DEF Awaits, UsedIn
<1>2. PICK i0 \in Nat : IsInsertion(ns[root].inner, i0, child, all) BY DEF Awaits
<1>3. PICK h : h = Len(all) \div 2 OBVIOUS
<1>4. NodeNumber \in Nat /\ NodeNumber >= 2 BY BtreeAssumption
<1>5. all \in Seq(Children) /\ Len(all) = NodeNumber + 1 /\ Len(all) \in Nat BY <1>2, <1>4 DEF IsInsertion
<1>6. h \in 1 .. Len(all) - 1 BY <1>3, <1>5, HalfIs
<1>7. PICK lvl, lo \in [Blocks -> Nat] :
        \A vs : Changes(ns, vs, root, all) => IsTree(vs, root, lvl, lo) /\ Kept(vs) = K
  <2>1. \E lvl, lo \in [Blocks -> Nat] :
          \A vs : Changes(ns, vs, root, Joined(ns, root, key, child)) => IsTree(vs, root, lvl, lo) /\ Kept(vs) = K
    BY DEF Awaits
  <2>2. all = Joined(ns, root, key, child) OBVIOUS
  <2> QED BY ONLY <2>1, <2>2
<1>8. PICK vs : vs = [ns EXCEPT ![root] = [ns[root] EXCEPT !.inner = all]] OBVIOUS
<1>9. Changes(ns, vs, root, all) BY <1>1, <1>5, <1>8, WidenedChanges
<1>10. IsTree(vs, root, lvl, lo) /\ Kept(vs) = K BY <1>7, <1>9
<1>11. /\ UsedIn(vs) = UsedIn(ns)
       /\ \A x \in UsedIn(ns) : vs[x].key = ns[x].key /\ vs[x].leaf = ns[x].leaf
  <2>1. root \in UsedIn(ns) /\ ns[root].key # 0 BY <1>1
  <2> QED BY ONLY <1>9, <2>1, ChangesKeep
<1>12. vs[root].inner = all /\ (\A x \in Blocks \ {root} : vs[x] = ns[x]) /\ Typed(vs) BY <1>9 DEF Changes
<1>13. r \in Blocks /\ r \notin UsedIn(ns) /\ r # b /\ r # root /\ b # root /\ b \in Blocks /\ b \notin UsedIn(ns)
  BY <1>1
(* vs with a new root above it. *)
<1>14. PICK n : n = TreeNode(TRUE, FALSE, Infinity, <<root>>) OBVIOUS
<1>15. n \in TreeNodes /\ ~n.leaf /\ n.key = Infinity /\ n.inner = <<root>>
  <2>1. <<root>> \in Seq(Children) /\ Infinity \in 0 .. Infinity BY <1>1, NoNodeIs DEF Children
  <2> QED BY <1>14, <2>1 DEF TreeNodes, TreeNode
<1>16. PICK xs : xs = [vs EXCEPT ![r] = n] OBVIOUS
<1>17. IsRootAbove(vs, xs, root, r)
  <2>1. r \in Blocks \ UsedIn(vs) /\ Typed(vs) BY <1>11, <1>12, <1>13
  <2>2. Typed(xs) /\ xs[r] = n /\ \A x \in Blocks \ {r} : xs[x] = vs[x] BY <1>15, <1>16, <2>1 DEF Typed
  <2>3. n.leaf = FALSE BY <1>14 DEF TreeNode
  <2> QED BY <1>15, <2>1, <2>2, <2>3 DEF IsRootAbove
<1>18. vs[root].inner # <<>> BY <1>5, <1>12
<1>19. /\ \E l, d \in [Blocks -> Nat] : IsTree(xs, r, l, d)
       /\ Kept(xs) = K /\ UsedIn(xs) = UsedIn(ns) \cup {r}
  <2>1. /\ \E l, d \in [Blocks -> Nat] : IsTree(xs, r, l, d)
        /\ Kept(xs) = Kept(vs) /\ UsedIn(xs) = UsedIn(vs) \cup {r}
    BY ONLY <1>10, <1>17, <1>18, RootAbove
  <2> QED BY <1>10, <1>11, <2>1
<1>190. PICK l, d \in [Blocks -> Nat] : IsTree(xs, r, l, d) BY <1>19
<1>20. /\ xs[r] = n /\ xs[root] = vs[root] /\ \A x \in Blocks \ {r} : xs[x] = vs[x]
  BY <1>1, <1>12, <1>13, <1>16 DEF Typed
<1>21. PICK m : m = TreeNode(TRUE, FALSE, Infinity, <<b, root>>) OBVIOUS
<1>22. m \in TreeNodes /\ m.root /\ ~m.leaf /\ m.key = Infinity /\ m.inner = <<b, root>>
  <2>1. <<b, root>> \in Seq(Children) /\ Infinity \in 0 .. Infinity BY <1>1, <1>13, NoNodeIs DEF Children
  <2> QED BY <1>21, <2>1 DEF TreeNodes, TreeNode
<1>23. Typed(us) BY DEF Halved
<1>24. Typed(ws) /\ ws[r] = m /\ \A x \in Blocks \ {r} : ws[x] = us[x] BY <1>13, <1>21, <1>22, <1>23 DEF Typed
<1>25. us[b].key = KeyAt(xs, root, h) /\ KeyAt(xs, root, h) # 0
  <2>1. us[b].key = KeyOf(ns, ns[root].leaf, all[h]) BY <1>3 DEF Halved
  <2>2. KeyAt(xs, root, h) = KeyOf(xs, ns[root].leaf, all[h]) BY <1>1, <1>11, <1>12, <1>20 DEF KeyAt
  <2>3. h \in Places(vs, root) /\ h \in Places(xs, root) BY <1>5, <1>6, <1>12, <1>20 DEF Places
  <2>4. ~ns[root].leaf => all[h] \in UsedIn(ns) /\ all[h] # r
    <3>1. Levels(vs, root, lvl) BY <1>10 DEF IsTree
    <3>2. root \in UsedIn(vs) /\ vs[root].leaf = ns[root].leaf /\ vs[root].inner[h] = all[h] BY <1>1, <1>11, <1>12
    <3>3. ~vs[root].leaf => vs[root].inner[h] \in UsedIn(vs) BY <1>12, <2>3, <3>1, <3>2, ChildrenAre
    <3> QED BY <1>11, <1>13, <3>2, <3>3
  <2>5. ~ns[root].leaf => xs[all[h]].key = ns[all[h]].key BY <1>11, <1>20, <2>4 DEF UsedIn
  <2>6. KeyAt(xs, root, h) # 0
    <3>1. Typed(xs) /\ Levels(xs, r, l) /\ root \in UsedIn(xs) BY <1>1, <1>19, <1>190 DEF IsTree
    <3> QED BY <2>3, <3>1, ChildrenAre
  <2> QED BY <2>1, <2>2, <2>5, <2>6 DEF KeyOf
<1>26. IsSplit(xs, ws, root, r, 1, b, h)
  <2>1. b \in Blocks \ UsedIn(xs) /\ root \in UsedIn(xs) /\ r \in InnerIn(xs) BY <1>1, <1>13, <1>15, <1>19, <1>20 DEF InnerIn
  <2>2. 1 \in Places(xs, r) /\ xs[r].inner[1] = root
    <3>1. <<root>>[1] = root /\ Len(<<root>>) = 1 /\ 1 \in 1 .. 1 OBVIOUS
    <3>2. xs[r].inner = <<root>> BY <1>15, <1>20
    <3> QED BY <3>1, <3>2 DEF Places
  <2>3. h \in 1 .. Len(xs[root].inner) - 1 BY <1>6, <1>12, <1>20
  <2>4. ws[b] = us[b] /\ ws[root] = us[root] BY <1>1, <1>13, <1>24
  <2>5. /\ us[b].leaf = ns[root].leaf /\ us[b].inner = SubSeq(all, 1, h)
        /\ us[root].leaf = ns[root].leaf /\ us[root].key = ns[root].key
        /\ us[root].inner = SubSeq(all, h + 1, Len(all)) /\ \A x \in Blocks \ {b, root} : us[x] = ns[x]
    BY <1>3 DEF Halved
  <2>6. \A x \in Blocks \ {b, root, r} : ws[x] = xs[x] BY <1>12, <1>20, <1>24, <2>5
  <2>7. /\ Len(ws[b].inner) = h /\ \A i \in 1 .. h : ws[b].inner[i] = xs[root].inner[i]
        /\ Len(ws[root].inner) = Len(xs[root].inner) - h
        /\ \A i \in 1 .. Len(xs[root].inner) - h : ws[root].inner[i] = xs[root].inner[h + i]
    <3>1. xs[root].inner = all /\ ws[b].inner = SubSeq(all, 1, h) /\ ws[root].inner = SubSeq(all, h + 1, Len(all))
      BY <1>12, <1>20, <2>4, <2>5
    <3>2. /\ Len(SubSeq(all, 1, h)) = h /\ \A i \in 1 .. h : SubSeq(all, 1, h)[i] = all[i]
          /\ Len(SubSeq(all, h + 1, Len(all))) = Len(all) - h
          /\ \A i \in 1 .. Len(all) - h : SubSeq(all, h + 1, Len(all))[i] = all[h + i]
      BY <1>5, <1>6, PartsAre
    <3> QED BY <3>1, <3>2
  <2>8. ws[b].leaf = xs[root].leaf /\ ws[root].leaf = xs[root].leaf /\ ws[root].key = xs[root].key
    BY <1>1, <1>11, <1>20, <2>4, <2>5
  <2>9. ws[b].key = KeyAt(xs, root, h) BY <1>25, <2>4
  <2>10. ws[r].leaf = xs[r].leaf /\ ws[r].key = xs[r].key 
    <3>1. n.leaf = FALSE /\ m.leaf = FALSE BY <1>14, <1>21 DEF TreeNode
    <3> QED BY <1>15, <1>20, <1>22, <1>24, <3>1
  <2>11. IsInsertion(xs[r].inner, 1, b, ws[r].inner)
    <3>1. xs[r].inner = <<root>> /\ ws[r].inner = <<b, root>> BY <1>15, <1>20, <1>22, <1>24
    <3>2. b \in Children /\ root \in Children BY <1>1, <1>13 DEF Children
    <3>3. /\ <<b, root>> \in Seq(Children) /\ Len(<<b, root>>) = 2 /\ Len(<<root>>) = 1
          /\ <<b, root>>[1] = b /\ <<b, root>>[2] = root /\ <<root>>[1] = root BY <3>2
    <3>4. \A k \in 1 .. Len(<<root>>) + 1 : <<b, root>>[k] = IF k < 1 THEN <<root>>[k] ELSE IF k = 1 THEN b ELSE <<root>>[k - 1]
      <4> SUFFICES ASSUME NEW k \in 1 .. 2
                   PROVE <<b, root>>[k] = IF k < 1 THEN <<root>>[k] ELSE IF k = 1 THEN b ELSE <<root>>[k - 1]
        BY <3>3
      <4>1. CASE k = 1 BY <3>3, <4>1
      <4>2. CASE k = 2 BY <3>3, <4>2
      <4> QED BY <4>1, <4>2
    <3>5. 1 \in 1 .. Len(<<root>>) + 1 BY <3>3
    <3>6. Len(<<b, root>>) = Len(<<root>>) + 1 BY <3>3
    <3> QED BY ONLY <3>1, <3>3, <3>4, <3>5, <3>6 DEF IsInsertion
  <2> QED BY <1>24, <2>1, <2>2, <2>3, <2>6, <2>7, <2>8, <2>9, <2>10, <2>11 DEF IsSplit
<1>27. \E x, y \in [Blocks -> Nat] : IsTree(ws, r, x, y)
  <2>1. PICK x, y : x = SplitLevels(l, root, b) /\ y = SplitBounds(d, root, b, KeyAt(xs, root, h)) OBVIOUS
  <2>2. IsTree(ws, r, x, y) BY <1>190, <1>26, <2>1, SplitKeepsTree
  <2>3. x \in [Blocks -> Nat] /\ y \in [Blocks -> Nat] BY <2>2 DEF IsTree, Levels, Ordered
  <2> QED BY <2>2, <2>3
<1>28. Kept(ws) = K BY <1>19, <1>190, <1>26, SplitKeepsTree
<1>29. /\ \A x \in UsedIn(us) : x = b \/ x = root \/ (x \in UsedIn(ns) /\ us[x] = ns[x])
       /\ us[b].inner # <<>> /\ Len(us[b].inner) <= NodeNumber
       /\ us[root].inner # <<>> /\ Len(us[root].inner) <= NodeNumber
  BY <1>1, <1>5, <1>25, HalvedNodes
<1>30. \A x \in UsedIn(ws) : x = r \/ (x \in UsedIn(us) /\ ws[x] = us[x] /\ x # r) BY <1>24 DEF UsedIn
<1>31. Len(m.inner) = 2 /\ m.inner # <<>> BY <1>22
<1>32. Filled(ws, {r}) /\ Limited(ws) /\ (ws[r].leaf \/ Len(ws[r].inner) > 1)
  <2>1. ws[r].inner = m.inner /\ Len(ws[r].inner) <= NodeNumber BY <1>4, <1>24, <1>31
  <2>2. \A x \in UsedIn(ns) \ {root} : ns[x].inner # <<>> BY DEF Room, Filled
  <2>3. \A x \in UsedIn(ns) : Len(ns[x].inner) <= NodeNumber BY DEF Room, Limited
  <2>4. \A x \in UsedIn(ws) : x # r => ws[x].inner # <<>> /\ Len(ws[x].inner) <= NodeNumber
    BY <1>29, <1>30, <2>2, <2>3
  <2>5. Filled(ws, {r}) BY <2>4 DEF Filled
  <2>6. Limited(ws) BY <2>1, <2>4 DEF Limited
  <2>7. Len(ws[r].inner) > 1
    <3>1. ws[r].inner = m.inner BY <2>1
    <3>2. Len(m.inner) = 2 BY <1>31
    <3> QED BY ONLY <3>1, <3>2
  <2> QED BY <2>5, <2>6, <2>7
<1>33. Flagged(ws, r)
  <2> SUFFICES ASSUME NEW x \in UsedIn(ws) PROVE ws[x].root <=> x = r BY DEF Flagged
  <2>1. CASE x = r BY <1>22, <1>24, <2>1
  <2>2. CASE x # r /\ (x = b \/ x = root) BY <1>30, <2>2
  <2>3. CASE x # r /\ x # b /\ x # root
    <3>1. x \in UsedIn(ns) /\ ws[x] = ns[x] BY <1>29, <1>30, <2>3
    <3> QED BY <2>3, <3>1 DEF Room, Flagged
  <2> QED BY <2>1, <2>2, <2>3
<1> QED BY <1>27, <1>28, <1>32, <1>33 DEF Grown, Room

-----------------------------------------------------------------------------
(* The key of the last child of the first half is one of the keys.         *)
LEMMA AwaitedKey ==
  ASSUME NEW ns, NEW root, NEW p, NEW key, NEW child, NEW K, Awaits(ns, root, p, key, child, K),
         NEW all, all = Joined(ns, p, key, child), NEW h \in 1 .. Len(all)
  PROVE  KeyOf(ns, ns[p].leaf, all[h]) \in 1 .. Infinity
<1>1. PICK i0 \in Nat : IsInsertion(ns[p].inner, i0, child, all) BY DEF Awaits
<1>2. all \in Seq(Children) BY <1>1 DEF IsInsertion
<1>3. PICK lvl, lo \in [Blocks -> Nat] :
        \A vs : Changes(ns, vs, p, all) => IsTree(vs, root, lvl, lo) /\ Kept(vs) = K
  <2>1. \E lvl, lo \in [Blocks -> Nat] :
          \A vs : Changes(ns, vs, p, Joined(ns, p, key, child)) => IsTree(vs, root, lvl, lo) /\ Kept(vs) = K
    BY DEF Awaits
  <2>2. all = Joined(ns, p, key, child) OBVIOUS
  <2> QED BY ONLY <2>1, <2>2
<1>4. Typed(ns) /\ p \in UsedIn(ns) /\ p \in Blocks /\ ns[p].key # 0 BY DEF Awaits, UsedIn
<1>5. PICK vs : vs = [ns EXCEPT ![p] = [ns[p] EXCEPT !.inner = all]] OBVIOUS
<1>6. Changes(ns, vs, p, all) BY <1>2, <1>4, <1>5, WidenedChanges
<1>7. /\ UsedIn(vs) = UsedIn(ns)
      /\ \A x \in UsedIn(ns) : vs[x].key = ns[x].key /\ vs[x].leaf = ns[x].leaf
  <2>1. p \in UsedIn(ns) /\ ns[p].key # 0 BY <1>4
  <2> QED BY ONLY <1>6, <2>1, ChangesKeep
<1>8. Typed(vs) /\ Levels(vs, root, lvl) /\ vs[p].inner = all BY <1>3, <1>6 DEF IsTree, Changes
<1>9. h \in Places(vs, p) /\ p \in UsedIn(vs) /\ vs[p].leaf = ns[p].leaf BY <1>4, <1>7, <1>8 DEF Places
<1>10. KeyAt(vs, p, h) \in 1 .. Infinity /\ (~vs[p].leaf => vs[p].inner[h] \in UsedIn(vs)) BY <1>8, <1>9, ChildrenAre
<1>11. KeyAt(vs, p, h) = KeyOf(ns, ns[p].leaf, all[h]) BY <1>7, <1>8, <1>9, <1>10 DEF KeyAt, KeyOf
<1> QED BY <1>10, <1>11

(* The new block has the first half of the children, the old one the rest. *)
LEMMA DividedIs ==
  ASSUME NEW ns, NEW root, NEW p, NEW key, NEW child, NEW K, Awaits(ns, root, p, key, child, K),
         NEW h \in 1 .. Len(Joined(ns, p, key, child)) - 1, NEW b \in Blocks \ UsedIn(ns)
  PROVE  InHalves(ns, Divided(ns, p, Joined(ns, p, key, child), h, b), p, Joined(ns, p, key, child), h, b)
<1>20. PICK all : all = Joined(ns, p, key, child) OBVIOUS
<1>21. PICK us : us = Divided(ns, p, all, h, b) OBVIOUS
<1>22. h \in 1 .. Len(all) - 1 BY <1>20
<1>1. PICK i0 \in Nat : IsInsertion(ns[p].inner, i0, child, all) BY <1>20 DEF Awaits
<1>2. all \in Seq(Children) /\ Len(all) \in Nat BY <1>1 DEF IsInsertion
<1>3. Typed(ns) /\ p \in Blocks /\ b # p /\ b \in Blocks BY DEF Awaits, UsedIn
<1>4. PICK k : k = KeyOf(ns, ns[p].leaf, all[h]) OBVIOUS
<1>5. k \in 1 .. Infinity
  <2>1. h \in 1 .. Len(all) BY <1>2, <1>22
  <2>2. Awaits(ns, root, p, key, child, K) /\ all = Joined(ns, p, key, child) BY <1>20
  <2> QED BY ONLY <1>4, <2>1, <2>2, AwaitedKey
<1>6. PICK s, t \in Seq(Children) : s = SubSeq(all, 1, h) /\ t = SubSeq(all, h + 1, Len(all)) BY <1>22, <1>2, PartsAre
<1>7. PICK left, right : left = TreeNode(FALSE, ns[p].leaf, k, s) /\ right = Save([ns[p] EXCEPT !.root = FALSE, !.inner = t])
  OBVIOUS
<1>8. ns[p] \in TreeNodes /\ ns[p].leaf \in BOOLEAN BY <1>3, FieldsAre
<1>9. left \in TreeNodes /\ left.leaf = ns[p].leaf /\ left.key = k /\ left.inner = s /\ left.root = FALSE
  <2>1. k \in 0 .. Infinity BY <1>5, NoNodeIs
  <2> QED BY <1>6, <1>7, <1>8, <2>1 DEF TreeNode, TreeNodes
<1>10. /\ right \in TreeNodes /\ right.leaf = ns[p].leaf /\ right.key = ns[p].key /\ right.inner = t
       /\ right.root = FALSE
  BY <1>6, <1>7, <1>8 DEF Save, TreeNodes
<1>11. us = [ns EXCEPT ![b] = left, ![p] = right] BY <1>21, <1>4, <1>6, <1>7 DEF Divided
<1>12. us[b] = left /\ us[p] = right /\ (\A x \in Blocks \ {b, p} : us[x] = ns[x]) BY <1>3, <1>11 DEF Typed
<1>13. Typed(us) BY <1>3, <1>9, <1>10, <1>11 DEF Typed
<1>14. Halved(ns, us, p, all, h, b) BY <1>4, <1>6, <1>9, <1>10, <1>12, <1>13 DEF Halved
<1>15. k # 0 BY <1>5, NoNodeIs
<1>16. InHalves(ns, us, p, all, h, b) BY <1>4, <1>9, <1>10, <1>12, <1>14, <1>15 DEF InHalves
<1> QED BY <1>16, <1>20, <1>21

-----------------------------------------------------------------------------
(* What one turn of an insertion keeps, insertion keeps.                   *)
LEMMA AddedTurns ==
  ASSUME NEW path, Len(path) \in Nat, NEW key, NEW val, NEW J,
         Tree(nodes, key, Entry(key, val), rootFpos, header) \in J[0],
         \A i \in 1 .. Len(path) : \A t \in J[i - 1] : AddTo(path[Len(path) + 1 - i], t) \in J[i]
  PROVE  Added(path, key, val) \in J[Len(path)]
<1> DEFINE n == Len(path)
           first == Tree(nodes, key, Entry(key, val), rootFpos, header)
           turn(t, i) == AddTo(path[n + 1 - i], t)
           G == [p \in (UNION {J[i] : i \in 0 .. n}) \X (1 .. n) |-> turn(p[1], p[2])]
           g == CHOOSE f : IsUp(f, path, key, val)
<1>1. \A i \in 1 .. n : \A r \in J[i - 1] : G[<<r, i>>] = turn(r, i) /\ turn(r, i) \in J[i]
  <2> SUFFICES ASSUME NEW i \in 1 .. n, NEW r \in J[i - 1] PROVE G[<<r, i>>] = turn(r, i) /\ turn(r, i) \in J[i]
    OBVIOUS
  <2>1. i - 1 \in 0 .. n OBVIOUS
  <2>2. <<r, i>> \in (UNION {J[k] : k \in 0 .. n}) \X (1 .. n) BY <2>1
  <2> QED BY <2>2
<1>2. PICK f : IsTurns(f, n, first, G) /\ \A i \in 0 .. n : f[i] \in J[i]
  <2>1. n \in Nat OBVIOUS
  <2> HIDE DEF G, turn, n
  <2>2. \A i \in 1 .. n : \A r \in J[i - 1] : G[<<r, i>>] \in J[i] BY <1>1
  <2>3. PICK x : x = first OBVIOUS
  <2>4. \E f : IsTurns(f, n, x, G) /\ \A i \in 0 .. n : f[i] \in J[i] BY <2>1, <2>2, <2>3, TurnsKeep
  <2> QED BY <2>3, <2>4
<1>3. IsUp(f, path, key, val)
  <2>1. f = [i \in 0 .. n |-> IF i = 0 THEN first ELSE G[<<f[i - 1], i>>]] BY <1>2 DEF IsTurns
  <2>2. \A i \in 0 .. n : i # 0 => G[<<f[i - 1], i>>] = turn(f[i - 1], i)
    <3> SUFFICES ASSUME NEW i \in 0 .. n, i # 0 PROVE G[<<f[i - 1], i>>] = turn(f[i - 1], i) OBVIOUS
    <3>1. i \in 1 .. n /\ i - 1 \in 0 .. n OBVIOUS
    <3> QED BY <1>1, <1>2, <3>1
  <2> HIDE DEF G
  <2>3. f = [i \in 0 .. n |-> IF i = 0 THEN first ELSE turn(f[i - 1], i)] BY <2>1, <2>2
  <2> QED BY <2>3 DEF IsUp
<1>4. IsUp(g, path, key, val) BY <1>3
<1>5. Added(path, key, val) = g[n] BY DEF Added, IsUp
<1> HIDE DEF g
<1>6. \A i \in 0 .. n : g[i] = IF i = 0 THEN first ELSE turn(g[i - 1], i) BY <1>4 DEF IsUp
<1>7. g[0] \in J[0]
  <2>1. 0 \in 0 .. n OBVIOUS
  <2> QED BY <1>6, <2>1
<1>8. ASSUME NEW i \in 1 .. n, g[i - 1] \in J[i - 1] PROVE g[i] \in J[i]
  <2>1. i \in 0 .. n /\ i # 0 OBVIOUS
  <2>2. g[i] = turn(g[i - 1], i) BY <1>6, <2>1
  <2> QED BY <1>1, <1>8, <2>2
<1>9. \A i \in 0 .. n : g[i] \in J[i] BY <1>7, <1>8, TurnsStay
<1>10. n \in 0 .. n OBVIOUS
<1> QED BY <1>5, <1>9, <1>10

-----------------------------------------------------------------------------
(* The path of a key descends from the root, through each node once.       *)
LEMMA PathDescends ==
  ASSUME NEW ns, NEW root, NEW lvl, Typed(ns), Levels(ns, root, lvl), NEW key, NEW s, Leads(ns, lvl, root, key, s)
  PROVE  Descends(ns, root, s)
<1>1. s \in Seq(Blocks) /\ Len(s) = lvl[root] + 1 /\ s[1] = root BY DEF Leads
<1>2. PICK n \in Nat : n = lvl[root] BY HeightsAre
<1>3. \A i \in 1 .. Len(s) : s[i] \in UsedIn(ns) /\ lvl[s[i]] = n + 1 - i BY <1>2 DEF Leads
<1>30. Len(s) = n + 1 /\ Len(s) \in Nat BY <1>1, <1>2
<1>4. ASSUME NEW m \in 1 .. Len(s) - 1
      PROVE  s[m] \in InnerIn(ns) /\ \E j \in Places(ns, s[m]) : ns[s[m]].inner[j] = s[m + 1]
  <2>1. m \in 1 .. Len(s) BY <1>30
  <2>2. s[m] \in UsedIn(ns) /\ lvl[s[m]] # 0
    <3>1. n + 1 - m # 0 BY <1>30
    <3> QED BY <1>3, <2>1, <3>1
  <2>3. s[m] \in InnerIn(ns) BY <2>2 DEF InnerIn, Levels
  <2>4. PICK j : j = NextChild(ChildKeys(ns, s[m]), key) OBVIOUS
  <2>5. Goes(ns, s[m], key, j) /\ s[m + 1] = ns[s[m]].inner[j] BY <2>4 DEF Leads
  <2>6. j \in Places(ns, s[m]) BY <2>5 DEF Goes
  <2> QED BY <2>3, <2>5, <2>6
<1>5. \A k, m \in 1 .. Len(s) : s[k] = s[m] => k = m
  <2> SUFFICES ASSUME NEW k \in 1 .. Len(s), NEW m \in 1 .. Len(s), s[k] = s[m] PROVE k = m OBVIOUS
  <2>1. n + 1 - k = n + 1 - m BY <1>3
  <2> QED BY <1>30, <2>1
<1> QED BY <1>1, <1>30, <1>3, <1>4, <1>5 DEF Descends

-----------------------------------------------------------------------------
(* addToParent keeps what holds after the turns below it.                  *)
LEMMA TurnAdds ==
  ASSUME NEW ns, NEW s, Descends(ns, s[1], s), NEW i \in 1 .. Len(s), NEW K, NEW t \in Trees,
         Turned(ns, s, K, t, i - 1)
  PROVE  AddTo(s[Len(s) + 1 - i], t) \in Trees /\ Turned(ns, s, K, AddTo(s[Len(s) + 1 - i], t), i)
<1>1. PICK n \in Nat : n = Len(s) BY DEF Descends
<1>2. PICK m \in 1 .. n : m = n + 1 - i BY <1>1
<1>3. i \in 1 .. n /\ n - (i - 1) = m /\ n - i = m - 1 /\ (m = 1 <=> i = n) /\ m \in Nat BY <1>1, <1>2
<1>4. PICK p : p = s[m] OBVIOUS
<1>5. PICK u : u = AddTo(p, t) OBVIOUS
<1>6. /\ s \in Seq(Blocks) /\ \A k \in 1 .. n : s[k] \in UsedIn(ns) /\ s[k] \in Blocks
      /\ \A k \in 1 .. n - 1 : s[k] \in InnerIn(ns) /\ \E j \in Places(ns, s[k]) : ns[s[k]].inner[j] = s[k + 1]
      /\ \A k, l \in 1 .. n : s[k] = s[l] => k = l
  BY <1>1 DEF Descends, UsedIn
<1>7. p \in Blocks BY <1>4, <1>6
<1>8. PICK ts, all : ts = t.nodes /\ all = Joined(ts, p, t.key, t.child) OBVIOUS
<1>9. /\ ts \in [Blocks -> TreeNodes] /\ t.key \in Nat /\ t.child \in Children \cup {0} /\ t.root \in Blocks
      /\ t.header \in Blocks
  BY <1>8 DEF Trees
<1>10. SUFFICES u \in Trees /\ Turned(ns, s, K, u, i) BY <1>1, <1>2, <1>4, <1>5
<1>11. CASE t.key = 0
  <2>1. u = t BY <1>5, <1>11 DEF AddTo
  <2>2. Grown(t.nodes, t.root, K) BY <1>11 DEF Turned
  <2> QED BY <1>11, <2>1, <2>2 DEF Turned
<1>12. CASE t.key # 0
  <2>1. /\ Awaits(ts, s[1], p, t.key, t.child, K) /\ t.root = s[1] /\ Room(ts, s[1]) /\ s[1] \in UsedIn(ts)
        /\ \A k \in 1 .. m : ts[s[k]] = ns[s[k]]
        /\ Cardinality(FreeIn(ts)) >= m + 1
    BY <1>1, <1>3, <1>4, <1>8, <1>12 DEF Turned
  <2>2. Typed(ts) /\ p \in UsedIn(ts) /\ ts[p].key # 0 BY <2>1 DEF Awaits
  <2>3. PICK i0 \in Nat : IsInsertion(ts[p].inner, i0, t.child, all) BY <1>8, <2>1 DEF Awaits
  <2>4. /\ all \in Seq(Children) /\ Len(all) = Len(ts[p].inner) + 1 /\ Len(ts[p].inner) \in Nat
        /\ Len(ts[p].inner) <= NodeNumber /\ NodeNumber \in Nat
    <3>1. Len(ts[p].inner) \in Nat BY <1>7, <2>2, FieldsAre
    <3>2. Len(ts[p].inner) <= NodeNumber BY <2>1, <2>2 DEF Room, Limited
    <3> QED BY <2>3, <3>1, <3>2, NoNodeIs DEF IsInsertion
  <2>5. CASE ~IsFull(ts[p])
    <3>1. PICK node : node = Save([ts[p] EXCEPT !.inner = all]) OBVIOUS
    <3>2. u = [t EXCEPT !.nodes[p] = node, !.key = 0]
      BY <1>5, <1>8, <1>12, <2>5, <3>1 DEF AddTo, Joined
    <3>3. PICK us : us = [ts EXCEPT ![p] = node] OBVIOUS
    <3>4. u.nodes = us /\ u.key = 0 /\ u.root = t.root /\ u.child = t.child /\ u.header = t.header
          /\ (us \in [Blocks -> TreeNodes] => u \in Trees)
      BY <1>8, <1>9, <3>2, <3>3 DEF Trees
    <3>5. ts[p] \in TreeNodes BY <1>7, <1>9
    <3>6. /\ node \in TreeNodes /\ node.inner = all /\ node.key = ts[p].key /\ node.leaf = ts[p].leaf
          /\ node.root = ts[p].root
      BY <2>4, <3>1, <3>5 DEF Save, TreeNodes
    <3>7. us \in [Blocks -> TreeNodes] /\ us[p] = node /\ \A x \in Blocks \ {p} : us[x] = ts[x]
      BY <1>7, <1>9, <3>3, <3>6
    <3>8. Changes(ts, us, p, Joined(ts, p, t.key, t.child)) /\ us[p].root = ts[p].root
      BY <1>8, <3>6, <3>7 DEF Changes, Typed
    <3>9. Len(ts[p].inner) < NodeNumber BY <2>4, <2>5 DEF IsFull
    <3>10. Grown(us, s[1], K) BY <2>1, <3>8, <3>9, JoinedGrows
    <3> QED BY <2>1, <3>4, <3>7, <3>10 DEF Turned
  <2>6. CASE IsFull(ts[p])
    <3>1. Len(ts[p].inner) = NodeNumber /\ Len(all) = NodeNumber + 1 BY <2>4, <2>6 DEF IsFull
    <3>2. PICK h, b : h = Len(all) \div 2 /\ b = Fresh(ts) OBVIOUS
    <3>3. h \in 1 .. Len(all) - 1 BY <2>4, <3>1, <3>2, HalfIs
    <3>4. b \in Blocks \ UsedIn(ts) /\ \A x : UsedIn(x) = UsedIn(ts) \cup {b} => Cardinality(FreeIn(x)) >= m
      BY <1>3, <2>1, <3>2, FreshIs
    <3>5. PICK us : us = Divided(ts, p, all, h, b) OBVIOUS
    <3>6. /\ Halved(ts, us, p, all, h, b) /\ us[b].root = FALSE /\ us[p].root = FALSE /\ us[b].key # 0
          /\ us[b].key = KeyOf(ts, ts[p].leaf, all[h])
      <4>1. Awaits(ts, s[1], p, t.key, t.child, K) /\ all = Joined(ts, p, t.key, t.child) BY <1>8, <2>1
      <4>2. b \in Blocks \ UsedIn(ts) BY <3>4
      <4>3. h \in 1 .. Len(Joined(ts, p, t.key, t.child)) - 1 BY <3>3, <4>1
      <4>4. InHalves(ts, Divided(ts, p, Joined(ts, p, t.key, t.child), h, b), p, Joined(ts, p, t.key, t.child), h, b)
        BY ONLY <4>1, <4>2, <4>3, DividedIs
      <4> QED BY ONLY <3>5, <4>1, <4>4 DEF InHalves
    <3>7. /\ UsedIn(us) = UsedIn(ts) \cup {b} /\ b # p
          /\ \A x \in UsedIn(ts) : x # p => us[x] = ts[x]
      BY <2>2, <2>4, <3>1, <3>2, <3>4, <3>6, HalvedNodes
    <3>8. Cardinality(FreeIn(us)) >= m BY <3>4, <3>7
    <3>9. Typed(us) /\ us \in [Blocks -> TreeNodes] BY <3>6 DEF Halved, Typed
    <3>10. u = Split(t, p, ts[p], all, h, b) BY <1>5, <1>8, <1>12, <2>6, <3>2 DEF AddTo, Joined
    <3>11. u = IF ts[p].root THEN NewRoot(t, us, b, p, Fresh(us))
               ELSE Tree(us, KeyOf(ts, ts[p].leaf, all[h]), b, t.root, t.header)
      BY <1>8, <3>5, <3>10 DEF Split, Divided, TreeNode
    <3>12. ts[p].root <=> p = s[1] BY <2>1, <2>2 DEF Room, Flagged
    <3>13. CASE p = s[1]
      <4>1. PICK r : r = Fresh(us) OBVIOUS
      <4>2. r \in Blocks \ UsedIn(us)
        <5>1. Cardinality(FreeIn(us)) >= 0 + 1 /\ 0 \in Nat
          <6>1. m >= 1 /\ Cardinality(FreeIn(us)) \in Nat
            <7>1. IsFiniteSet(FreeIn(us)) BY FreeFinite
            <7> QED BY <1>2, <7>1, FS_CardinalityType
          <6> QED BY <1>3, <3>8, <6>1
        <5> QED BY <4>1, <5>1, FreshIs
      <4>3. PICK ws : ws = [us EXCEPT ![r] = TreeNode(TRUE, FALSE, Infinity, <<b, p>>)] OBVIOUS
      <4>4. u = Tree(ws, 0, 0, r, r) BY <3>11, <3>12, <3>13, <4>1, <4>3 DEF NewRoot
      <4>5. u.nodes = ws /\ u.key = 0 /\ u.root = r BY <4>4 DEF Tree
      <4>6. Grown(ws, r, K)
        <5>1. Awaits(ts, p, p, t.key, t.child, K) /\ Room(ts, p) BY <2>1, <3>13
        <5>2. b \in Blocks \ UsedIn(ts) BY <3>4
        <5>3. Halved(ts, us, p, all, Len(all) \div 2, b) /\ us[b].root = FALSE /\ us[p].root = FALSE BY <3>2, <3>6
        <5>4. UsedIn(us) = UsedIn(ts) \cup {b} BY <3>7
        <5>5. ws = [us EXCEPT ![r] = TreeNode(TRUE, FALSE, Infinity, <<b, p>>)] BY <4>3
        <5>6. Len(ts[p].inner) = NodeNumber /\ all = Joined(ts, p, t.key, t.child) BY <1>8, <3>1
        <5> HIDE DEF Joined
        <5> QED BY <4>2, <5>1, <5>2, <5>3, <5>4, <5>5, <5>6, RootSplits
      <4>7. ws \in [Blocks -> TreeNodes] BY <4>6 DEF Grown, IsTree, Typed
      <4>8. u \in Trees
        <5>1. r \in Blocks /\ 0 \in Nat /\ 0 \in Children \cup {0} BY <4>2
        <5> QED BY <4>4, <4>7, <5>1 DEF Trees, Tree
      <4> QED BY <4>5, <4>6, <4>8 DEF Turned
    <3>14. CASE p # s[1]
      <4>1. m # 1 /\ m - 1 \in 1 .. n /\ m - 1 \in 1 .. n - 1 /\ (m - 1) + 1 = m /\ i < n BY <1>2, <1>3, <1>4, <3>14
      <4>2. PICK q : q = s[m - 1] OBVIOUS
      <4>3. /\ q \in InnerIn(ns) /\ q # p /\ ts[q] = ns[q] /\ q \in Blocks
            /\ \E j \in Places(ns, q) : ns[q].inner[j] = p
        <5>1. m - 1 \in 1 .. m /\ m - 1 # m BY <1>3, <4>1
        <5>2. ts[q] = ns[q] BY <2>1, <4>2, <5>1
        <5>3. q # p BY <1>2, <1>4, <1>6, <4>1, <4>2, <5>1
        <5>4. q \in InnerIn(ns) /\ \E j \in Places(ns, q) : ns[q].inner[j] = s[(m - 1) + 1] BY <1>6, <4>1, <4>2
        <5> QED BY <1>4, <1>6, <4>1, <4>2, <5>2, <5>3, <5>4
      <4>4. q \in InnerIn(ts) BY <4>3 DEF InnerIn, UsedIn
      <4>5. PICK j \in Places(ts, q) : ts[q].inner[j] = p BY <4>3 DEF Places
      <4>6. Awaits(us, s[1], q, us[b].key, b, K)
        <5>1. h \in 1 .. Len(Joined(ts, p, t.key, t.child)) - 1 BY <1>8, <3>3
        <5>2. Halved(ts, us, p, Joined(ts, p, t.key, t.child), h, b) BY <1>8, <3>6
        <5>3. b \in Blocks \ UsedIn(ts) /\ q # p BY <3>4, <4>3
        <5> HIDE DEF Joined
        <5> QED BY <2>1, <4>4, <4>5, <5>1, <5>2, <5>3, HalvedAwaits
      <4>7. Room(us, s[1])
        <5>1. Halved(ts, us, p, all, Len(all) \div 2, b) BY <3>2, <3>6
        <5>2. /\ Typed(ts) /\ p \in UsedIn(ts) /\ ts[p].key # 0 /\ all \in Seq(Children)
              /\ Len(all) = NodeNumber + 1 /\ b \in Blocks \ UsedIn(ts) /\ us[b].key # 0
              /\ us[b].root = FALSE /\ us[p].root = FALSE /\ s[1] # p
          BY <2>2, <2>4, <3>1, <3>4, <3>6, <3>14
        <5>3. s[1] \in UsedIn(ts) /\ Room(ts, s[1]) BY <2>1
        <5> QED BY ONLY <5>1, <5>2, <5>3, HalvedRoom
      <4>8. u = Tree(us, us[b].key, b, t.root, t.header) BY <3>6, <3>11, <3>12, <3>14
      <4>9. u.nodes = us /\ u.key = us[b].key /\ u.child = b /\ u.root = s[1] BY <2>1, <4>8 DEF Tree
      <4>10. u \in Trees
        <5>1. us[b].key \in Nat /\ b \in Children BY <4>6 DEF Awaits
        <5> QED BY <1>9, <3>9, <4>8, <5>1 DEF Trees, Tree
      <4>11. s[1] \in UsedIn(us) BY <2>1, <3>7
      <4>12. ASSUME NEW k \in 1 .. m - 1 PROVE us[s[k]] = ns[s[k]]
        <5>1. k \in 1 .. m /\ k \in 1 .. n /\ k # m BY <1>2, <1>3, <4>1
        <5>2. s[k] # p BY <1>2, <1>4, <1>6, <5>1
        <5>3. ts[s[k]] = ns[s[k]] /\ s[k] \in UsedIn(ns) BY <1>6, <2>1, <5>1
        <5>4. s[k] \in UsedIn(ts) BY <5>3 DEF UsedIn
        <5> QED BY <3>7, <5>2, <5>3, <5>4
      <4>13. (m - 1) + 1 = m BY <4>1
      <4> QED BY <1>1, <1>3, <3>6, <3>8, <4>1, <4>2, <4>6, <4>7, <4>9, <4>10, <4>11, <4>12, <4>13 DEF Turned
    <3> QED BY <3>13, <3>14
  <2> QED BY <2>5, <2>6
<1> QED BY <1>11, <1>12

-----------------------------------------------------------------------------
(* The invariant says that the tree has grown to what it holds.            *)
LEMMA InvGrown == TreeInv <=> header \in Blocks /\ Grown(nodes, rootFpos, Kept(nodes))
BY DEF TreeInv, Grown, Room

(* An entry with a new key awaits to be put into the leaf of its path.     *)
LEMMA EntryAwaits ==
  ASSUME Grown(nodes, rootFpos, Kept(nodes)), NEW key \in Keys, NEW val \in Values,
         Find(Path(key), key) = NoEntry, NEW n, n = Len(Path(key))
  PROVE  /\ Descends(nodes, rootFpos, Path(key)) /\ Entry(key, val) \in Entries
         /\ Awaits(nodes, rootFpos, Path(key)[n], key, Entry(key, val), Kept(nodes) \cup {Entry(key, val)})
<1>1. PICK lvl, lo \in [Blocks -> Nat] : IsTree(nodes, rootFpos, lvl, lo) BY DEF Grown
<1>2. Branching(nodes)
  <2>1. Room(nodes, rootFpos) /\ rootFpos \in UsedIn(nodes) BY <1>1 DEF Grown, IsTree, Levels
  <2> SUFFICES ASSUME NEW x \in InnerIn(nodes) PROVE nodes[x].inner # <<>> BY DEF Branching
  <2>2. CASE x = rootFpos
    <3>1. Len(nodes[x].inner) > 1 BY <2>1, <2>2 DEF Room, InnerIn
    <3> QED BY <3>1
  <2>3. CASE x # rootFpos BY <2>1, <2>3 DEF Room, Filled, InnerIn
  <2> QED BY <2>2, <2>3
<1>3. key \in Nat \ {0} /\ key \in 0 .. Infinity /\ key \in Nat BY NoNodeIs DEF Keys, Infinity
<1>4. PICK s : s = Path(key) OBVIOUS
<1>5. Leads(nodes, lvl, rootFpos, key, s) BY <1>1, <1>2, <1>3, <1>4, PathIs
<1>6. Typed(nodes) /\ Levels(nodes, rootFpos, lvl) BY <1>1 DEF IsTree
<1>7. Descends(nodes, rootFpos, s) BY <1>5, <1>6, PathDescends
<1>8. PICK p : p = s[n] OBVIOUS
<1>9. p \in UsedIn(nodes) /\ nodes[p].leaf /\ key <= nodes[p].key /\ p = Last(s)
  BY <1>3, <1>4, <1>5, <1>6, <1>8, LeafOfPath
<1>10. PICK low \in [Blocks -> Nat] : IsTree(nodes, rootFpos, lvl, low) /\ low[p] < key
  BY <1>1, <1>3, <1>5, <1>9, LowerBounds
<1>11. PICK e : e = Entry(key, val) OBVIOUS
<1>12. e \in Entries /\ e.key = key /\ e \in Children BY <1>11 DEF Entry, Entries, Children
<1>13. \A i \in Places(nodes, p) : KeyAt(nodes, p, i) # key
  <2> SUFFICES ASSUME NEW i \in Places(nodes, p), KeyAt(nodes, p, i) = key PROVE FALSE OBVIOUS
  <2>1. PICK f : f = nodes[p].inner[i] OBVIOUS
  <2>2. f \in Entries /\ f.key = key BY <1>6, <1>9, <2>1, ChildrenAre
  <2>3. f \in Kept(nodes) BY <1>9, <2>1, <2>2 DEF Kept, HoldsAt
  <2>4. Find(Path(key), key) = f BY <1>1, <1>2, <2>2, <2>3, FindIs
  <2>5. f.key = 0 BY <2>4 DEF NoEntry
  <2> QED BY <1>3, <2>2, <2>5
<1>14. nodes[p].key # 0 BY <1>6, <1>9 DEF Levels
<1>15. PICK j \in 1 .. Len(nodes[p].inner) + 1 :
         IsInsertion(nodes[p].inner, j, e, Inserted(nodes[p].inner, ChildKeys(nodes, p), key, e))
  BY <1>3, <1>9, <1>10, <1>12, <1>13, InsertedIs
<1>16. j \in Nat
  <2>1. Len(nodes[p].inner) \in Nat BY <1>6, <1>9, FieldsAre DEF UsedIn
  <2> QED BY <2>1
<1>17. ASSUME NEW vs, Changes(nodes, vs, p, Joined(nodes, p, key, e))
       PROVE  IsTree(vs, rootFpos, lvl, low) /\ Kept(vs) = Kept(nodes) \cup {e}
  <2>1. Changes(nodes, vs, p, Inserted(nodes[p].inner, ChildKeys(nodes, p), e.key, e))
    BY <1>12, <1>17 DEF Joined
  <2>2. low[p] < e.key /\ e.key <= nodes[p].key /\ \A i \in Places(nodes, p) : KeyAt(nodes, p, i) # e.key
    BY <1>9, <1>10, <1>12, <1>13
  <2> QED BY <1>9, <1>10, <1>12, <2>1, <2>2, EntryInserted
<1>18. Awaits(nodes, rootFpos, p, key, e, Kept(nodes) \cup {e})
  <2>1. IsInsertion(nodes[p].inner, j, e, Joined(nodes, p, key, e)) BY <1>15 DEF Joined
  <2> QED BY <1>3, <1>6, <1>9, <1>10, <1>12, <1>14, <1>16, <1>17, <2>1 DEF Awaits
<1> QED BY <1>4, <1>7, <1>8, <1>11, <1>12, <1>18

(* NodeCursor.insert, a key that is not there: the tree grows by the entry. *)
LEMMA InsertAdds ==
  ASSUME Grown(nodes, rootFpos, Kept(nodes)), header \in Blocks, NEW key \in Keys, NEW val \in Values,
         Find(Path(key), key) = NoEntry, HasRoom(Path(key)), NEW t, t = Added(Path(key), key, val)
  PROVE  t.header \in Blocks /\ Grown(t.nodes, t.root, Kept(nodes) \cup {Entry(key, val)})
<1>1. PICK s : s = Path(key) OBVIOUS
<1>2. PICK n : n = Len(s) OBVIOUS
<1>3. PICK e, K : e = Entry(key, val) /\ K = Kept(nodes) \cup {e} OBVIOUS
<1>4. Descends(nodes, rootFpos, s) /\ e \in Entries /\ Awaits(nodes, rootFpos, s[n], key, e, K)
  BY <1>1, <1>2, <1>3, EntryAwaits
<1>5. n \in Nat /\ n > 0 /\ s[1] = rootFpos /\ rootFpos \in UsedIn(nodes) /\ rootFpos \in Blocks
  <2>1. n \in Nat /\ n > 0 /\ s[1] = rootFpos BY <1>2, <1>4 DEF Descends
  <2>2. 1 \in 1 .. n BY <2>1
  <2>3. s[1] \in UsedIn(nodes) BY <1>2, <1>4, <2>2 DEF Descends
  <2> QED BY <2>1, <2>3 DEF UsedIn
<1>6. PICK first : first = Tree(nodes, key, e, rootFpos, header) OBVIOUS
<1>7. /\ first.nodes = nodes /\ first.key = key /\ first.child = e /\ first.root = rootFpos
      /\ first.header = header
  BY <1>6 DEF Tree
<1>8. key # 0 /\ key \in Nat BY NoNodeIs
<1>9. nodes \in [Blocks -> TreeNodes] BY <1>4 DEF Awaits, Typed
<1>10. first \in Trees
  <2>1. e \in Children \cup {0} BY <1>4 DEF Children
  <2> QED BY <1>5, <1>6, <1>8, <1>9, <2>1 DEF Tree, Trees
<1>11. Cardinality(FreeIn(nodes)) >= n + 1
  <2>1. Cardinality(FreeIn(nodes)) > n BY <1>1, <1>2 DEF HasRoom, FreeIn
  <2>2. Cardinality(FreeIn(nodes)) \in Nat
    <3>1. IsFiniteSet(FreeIn(nodes)) BY FreeFinite
    <3> QED BY <3>1, FS_CardinalityType
  <2> QED BY <1>5, <2>1, <2>2
<1>12. Turned(nodes, s, K, first, 0)
  <2>1. Len(s) - 0 = n /\ 0 < Len(s) BY <1>2, <1>5
  <2>2. Awaits(first.nodes, s[1], s[Len(s) - 0], first.key, first.child, K) BY <1>4, <1>5, <1>7, <2>1
  <2>3. Room(first.nodes, s[1]) /\ s[1] \in UsedIn(first.nodes) /\ first.root = s[1] BY <1>5, <1>7 DEF Grown
  <2>4. \A m \in 1 .. Len(s) - 0 : first.nodes[s[m]] = nodes[s[m]] BY <1>7
  <2>5. Cardinality(FreeIn(first.nodes)) >= Len(s) - 0 + 1 BY <1>7, <1>11, <2>1
  <2>6. first.key # 0 BY <1>7, <1>8
  <2> QED BY ONLY <2>1, <2>2, <2>3, <2>4, <2>5, <2>6 DEF Turned
<1>13. PICK J : J = [i \in 0 .. n |-> {x \in Trees : Turned(nodes, s, K, x, i)}] OBVIOUS
<1>14. first \in J[0]
  <2>1. 0 \in 0 .. n BY <1>5
  <2> QED BY <1>10, <1>12, <1>13, <2>1
<1>15. ASSUME NEW i \in 1 .. Len(s), NEW x \in J[i - 1] PROVE AddTo(s[Len(s) + 1 - i], x) \in J[i]
  <2>1. i - 1 \in 0 .. n /\ i \in 0 .. n BY <1>2, <1>5
  <2>2. x \in Trees /\ Turned(nodes, s, K, x, i - 1) BY <1>13, <1>15, <2>1
  <2>3. Descends(nodes, s[1], s) BY <1>4, <1>5
  <2>4. AddTo(s[Len(s) + 1 - i], x) \in Trees /\ Turned(nodes, s, K, AddTo(s[Len(s) + 1 - i], x), i)
    BY <1>15, <2>2, <2>3, TurnAdds
  <2> QED BY <1>13, <2>1, <2>4
<1>16. Added(s, key, val) \in J[Len(s)]
  <2>1. Tree(nodes, key, Entry(key, val), rootFpos, header) \in J[0] BY <1>3, <1>6, <1>14
  <2>2. Len(s) \in Nat BY <1>2, <1>5
  <2> QED BY <1>15, <2>1, <2>2, AddedTurns
<1>17. t \in Trees /\ Turned(nodes, s, K, t, n)
  <2>1. n \in 0 .. n BY <1>5
  <2> QED BY <1>1, <1>2, <1>13, <1>16, <2>1
<1>18. Grown(t.nodes, t.root, K) BY <1>2, <1>5, <1>17 DEF Turned
<1>19. t.header \in Blocks BY <1>17 DEF Trees
<1> QED BY <1>3, <1>18, <1>19

-----------------------------------------------------------------------------
(* registerData, a key that is there: the value of the key is another one. *)
LEMMA EntryReplaced ==
  ASSUME NEW ns, NEW root, NEW lvl, NEW lo, IsTree(ns, root, lvl, lo),
         NEW ws, NEW p, NEW k, NEW e, IsReplaced(ns, ws, p, k, e),
         NEW s, Leads(ns, lvl, root, e.key, s)
  PROVE  /\ IsTree(ws, root, lvl, lo) /\ Kept(ws) = {f \in Kept(ns) : f.key # e.key} \cup {e}
         /\ Room(ns, root) => Room(ws, root)
<1>1. Typed(ns) /\ Levels(ns, root, lvl) /\ Linked(ns, root) /\ Ordered(ns, lo) /\ Ends(ns, {})
      /\ ns[root].key = Infinity BY DEF IsTree
<1>2. /\ p \in UsedIn(ns) /\ ns[p].leaf /\ k \in Places(ns, p) /\ e \in Entries /\ e.key = KeyAt(ns, p, k)
      /\ Typed(ws) /\ \A b \in Blocks \ {p} : ws[b] = ns[b]
      /\ ws[p].key = ns[p].key /\ ws[p].leaf = ns[p].leaf /\ ws[p].root = ns[p].root
      /\ Len(ws[p].inner) = Len(ns[p].inner)
      /\ \A i \in Places(ns, p) : ws[p].inner[i] = IF i = k THEN e ELSE ns[p].inner[i]
  BY DEF IsReplaced
<1>3. ns[p].key # 0 /\ p \in Blocks BY <1>1, <1>2 DEF Levels, UsedIn
<1>4. Changes(ns, ws, p, ws[p].inner) BY <1>2 DEF Changes
<1>5. /\ UsedIn(ws) = UsedIn(ns) /\ InnerIn(ws) = InnerIn(ns)
      /\ \A x \in UsedIn(ns) : ws[x].key = ns[x].key /\ ws[x].leaf = ns[x].leaf
      /\ \A x \in UsedIn(ns) : x # p => ws[x] = ns[x]
  BY ONLY <1>2, <1>3, <1>4, ChangesKeep
<1>6. \A x \in UsedIn(ns) : Places(ws, x) = Places(ns, x) /\ Len(ws[x].inner) = Len(ns[x].inner)
  BY <1>2, <1>5 DEF Places
<1>7. \A x \in InnerIn(ns) : ws[x] = ns[x] /\ x \in UsedIn(ns) /\ ~ns[x].leaf /\ x # p BY <1>2, <1>5 DEF InnerIn
<1>8. ASSUME NEW x \in UsedIn(ns), NEW i \in Places(ns, x)
      PROVE  KeyAt(ws, x, i) = KeyAt(ns, x, i) /\ (~ns[x].leaf => ws[x].inner[i] = ns[x].inner[i])
             /\ (ns[x].leaf => ws[x].inner[i] \in Entries)
             /\ (x # p \/ i # k => ws[x].inner[i] = ns[x].inner[i])
  <2>1. /\ ns[x].leaf => ns[x].inner[i] \in Entries /\ KeyAt(ns, x, i) = ns[x].inner[i].key
        /\ ~ns[x].leaf => ns[x].inner[i] \in UsedIn(ns)
    BY <1>1, ChildrenAre
  <2>2. ws[x].leaf = ns[x].leaf BY <1>5
  <2>3. CASE x # p
    <3>1. ws[x] = ns[x] BY <1>5, <2>3
    <3> QED BY <1>5, <2>1, <2>3, <3>1 DEF KeyAt, KeyOf
  <2>4. CASE x = p
    <3>1. KeyAt(ws, p, i) = ws[p].inner[i].key BY <1>2 DEF KeyAt, KeyOf
    <3>2. CASE i = k BY <1>2, <2>4, <3>1, <3>2
    <3>3. CASE i # k BY <1>2, <2>1, <2>4, <3>1, <3>3
    <3> QED BY <3>2, <3>3
  <2> QED BY <2>3, <2>4
<1>9. Levels(ws, root, lvl)
  <2>1. ASSUME NEW x \in UsedIn(ns), NEW i \in Places(ns, x)
        PROVE  IF ws[x].leaf THEN ws[x].inner[i] \in Entries
               ELSE ws[x].inner[i] \in UsedIn(ns) \ {root} /\ lvl[ws[x].inner[i]] = lvl[x] - 1
    <3>1. ~ns[x].leaf => ns[x].inner[i] \in UsedIn(ns) \ {root} /\ lvl[ns[x].inner[i]] = lvl[x] - 1
      BY <1>1 DEF Levels
    <3> QED BY <1>5, <1>8, <3>1
  <2> QED BY <1>1, <1>5, <1>6, <2>1 DEF Levels
<1>10. Linked(ws, root)
  <2>1. \A x \in InnerIn(ns) : ws[x] = ns[x] /\ Places(ws, x) = Places(ns, x) BY <1>6, <1>7
  <2> QED BY <1>1, <1>5, <2>1 DEF Linked
<1>11. Ordered(ws, lo)
  <2>1. ASSUME NEW x \in UsedIn(ns)
        PROVE  /\ \A i \in Places(ws, x) : lo[x] < KeyAt(ws, x, i) /\ KeyAt(ws, x, i) <= ws[x].key
               /\ \A i, j \in Places(ws, x) : i < j => KeyAt(ws, x, i) < KeyAt(ws, x, j)
               /\ ~ws[x].leaf => \A i \in Places(ws, x) :
                    /\ lo[x] <= lo[ws[x].inner[i]]
                    /\ i > 1 => KeyAt(ws, x, i - 1) <= lo[ws[x].inner[i]]
    <3>1. /\ \A i \in Places(ns, x) : lo[x] < KeyAt(ns, x, i) /\ KeyAt(ns, x, i) <= ns[x].key
          /\ \A i, j \in Places(ns, x) : i < j => KeyAt(ns, x, i) < KeyAt(ns, x, j)
          /\ ~ns[x].leaf => \A i \in Places(ns, x) :
               /\ lo[x] <= lo[ns[x].inner[i]]
               /\ i > 1 => KeyAt(ns, x, i - 1) <= lo[ns[x].inner[i]]
      BY <1>1 DEF Ordered
    <3>2. \A i \in Places(ns, x) : i > 1 => i - 1 \in Places(ns, x)
      <4>1. Len(ns[x].inner) \in Nat BY <1>1, FieldsAre DEF UsedIn
      <4> QED BY <4>1 DEF Places
    <3> QED BY <1>5, <1>6, <1>8, <3>1, <3>2
  <2> QED BY <1>1, <1>5, <2>1 DEF Ordered
<1>12. Ends(ws, {})
  <2> SUFFICES ASSUME NEW x \in InnerIn(ns), ws[x].inner # <<>>
               PROVE  KeyAt(ws, x, Len(ws[x].inner)) = ws[x].key BY <1>5 DEF Ends
  <2>1. x \in UsedIn(ns) /\ ws[x] = ns[x] BY <1>7
  <2>2. KeyAt(ns, x, Len(ns[x].inner)) = ns[x].key BY <1>1, <2>1 DEF Ends
  <2>3. Len(ns[x].inner) \in Places(ns, x)
    <3>1. ns[x].inner \in Seq(Children) /\ Len(ns[x].inner) \in Nat /\ ns[x].inner # <<>>
      BY <1>1, <2>1, FieldsAre DEF UsedIn
    <3> QED BY <3>1 DEF Places
  <2> QED BY <1>8, <2>1, <2>2, <2>3
<1>13. IsTree(ws, root, lvl, lo)
  <2>1. ws[root].key = Infinity BY <1>1, <1>5 DEF Levels
  <2> QED BY <1>2, <1>9, <1>10, <1>11, <1>12, <2>1 DEF IsTree
<1>14. ASSUME NEW f \in Entries, NEW x \in UsedIn(ns), NEW i \in Places(ns, x), HoldsAt(ns, f, x, i), f.key = e.key
       PROVE  x = p /\ i = k
  <2>1. PICK d : d = ns[p].inner[k] OBVIOUS
  <2>2. d \in Entries /\ d.key = e.key /\ HoldsAt(ns, d, p, k)
    <3>1. d \in Entries /\ KeyAt(ns, p, k) = d.key BY <1>1, <1>2, <2>1, ChildrenAre
    <3> QED BY <1>2, <2>1, <3>1 DEF HoldsAt
  <2>3. p = Last(s) /\ IndexOf(ChildKeys(ns, p), e.key) = k
    <3>1. Leads(ns, lvl, root, d.key, s) BY <2>2
    <3>2. p = Last(s) /\ IndexOf(ChildKeys(ns, p), d.key) = k BY <1>2, <2>2, <3>1, EntryIs
    <3> QED BY <2>2, <3>2
  <2>4. x = Last(s) /\ IndexOf(ChildKeys(ns, x), e.key) = i
    <3>1. Leads(ns, lvl, root, f.key, s) BY <1>14
    <3>2. x = Last(s) /\ IndexOf(ChildKeys(ns, x), f.key) = i BY <1>14, <3>1, EntryIs
    <3> QED BY <1>14, <3>2
  <2> QED BY <2>3, <2>4
<1>15. Kept(ws) = {f \in Kept(ns) : f.key # e.key} \cup {e}
  <2>1. ASSUME NEW f \in Kept(ws), f # e PROVE f \in Kept(ns) /\ f.key # e.key
    <3>0. PICK x \in UsedIn(ws) : \E i \in Places(ws, x) : HoldsAt(ws, f, x, i) /\ f \in Entries BY DEF Kept
    <3>10. x \in UsedIn(ns) /\ Places(ws, x) = Places(ns, x) BY <1>5, <1>6, <3>0
    <3>1. PICK i \in Places(ns, x) : HoldsAt(ws, f, x, i) /\ f \in Entries BY <3>0, <3>10
    <3>2. x # p \/ i # k BY <1>2, <2>1, <3>1 DEF HoldsAt
    <3>3. HoldsAt(ns, f, x, i) BY <1>5, <1>8, <3>1, <3>2, <3>10 DEF HoldsAt
    <3>4. f \in Kept(ns) BY <3>1, <3>3, <3>10 DEF Kept
    <3>5. f.key # e.key BY <1>14, <3>1, <3>2, <3>3, <3>10
    <3> QED BY <3>4, <3>5
  <2>2. ASSUME NEW f \in Kept(ns), f.key # e.key PROVE f \in Kept(ws)
    <3>0. PICK x \in UsedIn(ns) : \E i \in Places(ns, x) : HoldsAt(ns, f, x, i) /\ f \in Entries BY DEF Kept
    <3>1. PICK i \in Places(ns, x) : HoldsAt(ns, f, x, i) /\ f \in Entries BY <3>0
    <3>2. x # p \/ i # k
      <4> SUFFICES ASSUME x = p, i = k PROVE FALSE OBVIOUS
      <4>1. KeyAt(ns, p, k) = ns[p].inner[k].key BY <1>1, <1>2, ChildrenAre
      <4> QED BY <1>2, <2>2, <3>1, <4>1 DEF HoldsAt
    <3>3. HoldsAt(ws, f, x, i) BY <1>5, <1>8, <3>1, <3>2 DEF HoldsAt
    <3> QED BY <1>5, <1>6, <3>1, <3>3 DEF Kept
  <2>3. e \in Kept(ws)
    <3>1. HoldsAt(ws, e, p, k) /\ p \in UsedIn(ws) /\ k \in Places(ws, p) BY <1>2, <1>5, <1>6 DEF HoldsAt
    <3> QED BY <1>2, <3>1 DEF Kept
  <2> QED BY <2>1, <2>2, <2>3
<1>16. ASSUME Room(ns, root) PROVE Room(ws, root)
  <2>1. \A x \in UsedIn(ns) : ws[x].root = ns[x].root BY <1>2, <1>5
  <2>2. \A x \in UsedIn(ns) : ns[x].inner # <<>> => ws[x].inner # <<>>
    <3> SUFFICES ASSUME NEW x \in UsedIn(ns), ns[x].inner # <<>> PROVE ws[x].inner # <<>> OBVIOUS
    <3>1. ns[x].inner \in Seq(Children) /\ Len(ns[x].inner) \in Nat /\ Len(ws[x].inner) = Len(ns[x].inner)
      BY <1>1, <1>6, FieldsAre DEF UsedIn
    <3>2. Len(ns[x].inner) # 0 BY <3>1
    <3> QED BY <3>1, <3>2
  <2>3. root \in UsedIn(ns) BY <1>1 DEF Levels
  <2> QED BY <1>5, <1>6, <1>16, <2>1, <2>2, <2>3 DEF Room, Filled, Flagged, Limited
<1> QED BY <1>13, <1>15, <1>16

(* Btree.putData keeps the tree and changes the value of one key.          *)
LEMMA PutKeeps ==
  ASSUME TreeInv, NEW key \in Keys, NEW val \in Values, PutData(key, val)
  PROVE  header' \in Blocks /\ Grown(nodes', rootFpos', Stored(Kept(nodes), key, val))
<1>1. header \in Blocks /\ Grown(nodes, rootFpos, Kept(nodes)) BY InvGrown
<1>2. PICK lvl, lo \in [Blocks -> Nat] : IsTree(nodes, rootFpos, lvl, lo) BY <1>1 DEF Grown
<1>3. Branching(nodes) BY InvBranching
<1>4. key \in 0 .. Infinity /\ key \in Nat BY NoNodeIs DEF Keys, Infinity
<1>5. PICK s : s = Path(key) OBVIOUS
<1>6. Leads(nodes, lvl, rootFpos, key, s) BY <1>2, <1>3, <1>4, <1>5, PathIs
<1>7. CASE Find(s, key) # NoEntry
  <2>1. PICK p, k : p = Last(s) /\ k = IndexOf(ChildKeys(nodes, Last(s)), key) OBVIOUS
  <2>2. nodes' = [nodes EXCEPT ![p].inner[k] = Entry(key, val)] /\ rootFpos' = rootFpos /\ header' = header
    BY <1>5, <1>7, <2>1 DEF PutData, Replace
  <2>3. PICK e : e = Entry(key, val) OBVIOUS
  <2>4. e \in Entries /\ e.key = key /\ e \in Children BY <2>3 DEF Entry, Entries, Children
  <2>5. p \in UsedIn(nodes) /\ k \in Places(nodes, p) /\ HoldsAt(nodes, Find(s, key), p, k) /\ Find(s, key).key = key
    BY <1>2, <1>3, <1>5, <1>7, <2>1, FindIs
  <2>6. nodes[p].leaf /\ nodes[p].inner[k].key = key BY <2>5 DEF HoldsAt
  <2>7. Typed(nodes) /\ p \in Blocks BY <1>2, <2>5 DEF IsTree, UsedIn
  <2>8. nodes[p] \in TreeNodes /\ nodes[p].inner \in Seq(Children) BY <2>7, FieldsAre
  <2>9. PICK inner : inner = [nodes[p].inner EXCEPT ![k] = e] OBVIOUS
  <2>10. /\ inner \in Seq(Children) /\ Len(inner) = Len(nodes[p].inner)
         /\ \A i \in Places(nodes, p) : inner[i] = IF i = k THEN e ELSE nodes[p].inner[i]
    BY <2>4, <2>5, <2>8, <2>9 DEF Places
  <2>11. PICK node : node = [nodes[p] EXCEPT !.inner = inner] OBVIOUS
  <2>12. /\ node \in TreeNodes /\ node.inner = inner /\ node.key = nodes[p].key /\ node.leaf = nodes[p].leaf
         /\ node.root = nodes[p].root
    BY <2>8, <2>10, <2>11 DEF TreeNodes
  <2>13. PICK ws : ws = nodes' OBVIOUS
  <2>14. ws = [nodes EXCEPT ![p] = node] BY <2>2, <2>3, <2>9, <2>11, <2>13
  <2>15. Typed(ws) /\ ws[p] = node /\ \A b \in Blocks \ {p} : ws[b] = nodes[b] BY <2>7, <2>12, <2>14 DEF Typed
  <2>16. e.key = KeyAt(nodes, p, k) BY <2>4, <2>6 DEF KeyAt, KeyOf
  <2>17. IsReplaced(nodes, ws, p, k, e) BY <2>4, <2>5, <2>6, <2>10, <2>12, <2>15, <2>16 DEF IsReplaced
  <2>18. Leads(nodes, lvl, rootFpos, e.key, s) BY <1>6, <2>4
  <2>19. /\ IsTree(ws, rootFpos, lvl, lo) /\ Kept(ws) = {f \in Kept(nodes) : f.key # e.key} \cup {e}
         /\ Room(nodes, rootFpos) => Room(ws, rootFpos)
    BY <1>2, <2>17, <2>18, EntryReplaced
  <2>20. Grown(ws, rootFpos, Stored(Kept(nodes), key, val))
    BY <1>1, <2>3, <2>4, <2>19 DEF Grown, Stored
  <2> QED BY <1>1, <2>2, <2>13, <2>20
<1>8. CASE Find(s, key) = NoEntry
  <2>1. PICK t : t = Added(s, key, val) OBVIOUS
  <2>2. HasRoom(s) /\ nodes' = t.nodes /\ rootFpos' = t.root /\ header' = t.header
    BY <1>5, <1>8, <2>1 DEF PutData, Insert
  <2>3. t.header \in Blocks /\ Grown(t.nodes, t.root, Kept(nodes) \cup {Entry(key, val)})
    <3>1. Find(Path(key), key) = NoEntry /\ HasRoom(Path(key)) /\ t = Added(Path(key), key, val)
      BY <1>5, <1>8, <2>1, <2>2
    <3> QED BY <1>1, <3>1, InsertAdds
  <2>4. Stored(Kept(nodes), key, val) = Kept(nodes) \cup {Entry(key, val)}
    <3>1. ASSUME NEW f \in Kept(nodes), f.key = key PROVE FALSE
      <4>1. Find(s, key) = f BY <1>2, <1>3, <1>5, <3>1, FindIs
      <4>2. f.key = 0 BY <1>8, <4>1 DEF NoEntry
      <4> QED BY <3>1, <4>2, NoNodeIs
    <3> QED BY <3>1 DEF Stored
  <2> QED BY <2>2, <2>3, <2>4
<1> QED BY <1>5, <1>7, <1>8

-----------------------------------------------------------------------------
(* The nodes that are left.                                                *)
LEMMA GoneNodes ==
  ASSUME NEW vs, NEW root, NEW lvl, NEW lo, IsTree(vs, root, lvl, lo), NEW ws, NEW p, NEW j, IsGone(vs, ws, p, j)
  PROVE  /\ UsedIn(ws) = UsedIn(vs) \ Gone(vs, p, j) /\ p \in UsedIn(ws) /\ root \in UsedIn(ws)
         /\ \A x \in UsedIn(ws) : /\ x \in UsedIn(vs) /\ x \in Blocks /\ x \notin Gone(vs, p, j)
                                  /\ ws[x].key = vs[x].key /\ ws[x].leaf = vs[x].leaf
                                  /\ x # p => ws[x] = vs[x]
         /\ \E n \in Nat : /\ Places(vs, p) = 1 .. n /\ Places(ws, p) = 1 .. n - 1 /\ j \in 1 .. n
                           /\ n = Len(vs[p].inner) /\ n - 1 = Len(ws[p].inner)
<1>1. Typed(vs) /\ Levels(vs, root, lvl) BY DEF IsTree
<1>2. /\ p \in UsedIn(vs) /\ p \in Blocks /\ j \in Places(vs, p) /\ ws[p].leaf = vs[p].leaf
      /\ ws[p].key = vs[p].key /\ IsRemoval(vs[p].inner, j, ws[p].inner)
      /\ \A x \in Gone(vs, p, j) : ws[x] = NoNode
      /\ \A x \in Blocks : x # p /\ x \notin Gone(vs, p, j) => ws[x] = vs[x]
  BY DEF IsGone, UsedIn
<1>3. ASSUME NEW x \in Gone(vs, p, j) PROVE x \in UsedIn(vs) /\ x # p /\ x # root
  <2>1. x = vs[p].inner[j] /\ ~vs[p].leaf BY <1>3 DEF Gone
  <2>2. x \in UsedIn(vs) /\ x # root /\ lvl[x] = lvl[p] - 1 BY <1>1, <1>2, <2>1, ChildrenAre
  <2>3. lvl[p] \in Nat BY <1>1, <1>2 DEF Levels
  <2> QED BY <2>2, <2>3
<1>4. vs[p].key # 0 /\ root \in UsedIn(vs) BY <1>1, <1>2 DEF Levels
<1>5. ws[p] # NoNode BY <1>2, <1>4, NoNodeIs
<1>6. UsedIn(ws) = UsedIn(vs) \ Gone(vs, p, j)
  <2>1. ASSUME NEW x \in Blocks PROVE ws[x] # NoNode <=> (vs[x] # NoNode /\ x \notin Gone(vs, p, j))
    <3>1. CASE x = p BY <1>2, <1>3, <1>5, <3>1 DEF UsedIn
    <3>2. CASE x # p BY <1>2, <3>2
    <3> QED BY <3>1, <3>2
  <2> QED BY <2>1 DEF UsedIn
<1>7. \A x \in UsedIn(ws) : /\ x \in UsedIn(vs) /\ x \in Blocks /\ x \notin Gone(vs, p, j)
                            /\ ws[x].key = vs[x].key /\ ws[x].leaf = vs[x].leaf /\ (x # p => ws[x] = vs[x])
  <2> SUFFICES ASSUME NEW x \in UsedIn(ws)
               PROVE  /\ x \in UsedIn(vs) /\ x \in Blocks /\ x \notin Gone(vs, p, j)
                      /\ ws[x].key = vs[x].key /\ ws[x].leaf = vs[x].leaf /\ (x # p => ws[x] = vs[x]) OBVIOUS
  <2>1. x \in UsedIn(vs) /\ x \in Blocks /\ x \notin Gone(vs, p, j) BY <1>6 DEF UsedIn
  <2> QED BY <1>2, <2>1
<1>8. PICK n \in Nat : n = Len(vs[p].inner) BY <1>1, <1>2, FieldsAre
<1>9. Len(ws[p].inner) = n - 1 /\ Places(vs, p) = 1 .. n /\ Places(ws, p) = 1 .. n - 1
  BY <1>2, <1>8 DEF IsRemoval, Places
<1>10. p \in UsedIn(ws) /\ root \in UsedIn(ws) BY <1>2, <1>3, <1>4, <1>6
<1> QED BY <1>2, <1>6, <1>7, <1>8, <1>9, <1>10

(* Every child that is left was somewhere before, with the same key, and   *)
(* every child but one is somewhere after.                                 *)
LEMMA GonePlaces ==
  ASSUME NEW vs, NEW root, NEW lvl, NEW lo, IsTree(vs, root, lvl, lo), NEW ws, NEW p, NEW j, IsGone(vs, ws, p, j)
  PROVE  /\ \A x \in UsedIn(ws) : \A i \in Places(ws, x) :
              /\ Was(p, j, x, i) \in Places(vs, x) /\ (x # p \/ Was(p, j, x, i) # j)
              /\ ws[x].inner[i] = vs[x].inner[Was(p, j, x, i)]
              /\ KeyAt(ws, x, i) = KeyAt(vs, x, Was(p, j, x, i))
              /\ ~vs[x].leaf => vs[x].inner[Was(p, j, x, i)] \in UsedIn(ws)
         /\ \A x \in UsedIn(vs) : \A k \in Places(vs, x) :
              x # p \/ k # j => x \in UsedIn(ws) /\ \E i \in Places(ws, x) : Was(p, j, x, i) = k
<1>1. Typed(vs) /\ Levels(vs, root, lvl) /\ Linked(vs, root) BY DEF IsTree
<1>2. /\ UsedIn(ws) = UsedIn(vs) \ Gone(vs, p, j) /\ p \in UsedIn(ws)
      /\ \A x \in UsedIn(ws) : /\ x \in UsedIn(vs) /\ x \in Blocks /\ x \notin Gone(vs, p, j)
                               /\ ws[x].key = vs[x].key /\ ws[x].leaf = vs[x].leaf
                               /\ (x # p => ws[x] = vs[x])
  BY GoneNodes
<1>3. PICK n \in Nat : /\ Places(vs, p) = 1 .. n /\ Places(ws, p) = 1 .. n - 1 /\ j \in 1 .. n
                       /\ n = Len(vs[p].inner) /\ n - 1 = Len(ws[p].inner)
  BY GoneNodes
<1>4. \A k \in 1 .. n - 1 : ws[p].inner[k] = IF k < j THEN vs[p].inner[k] ELSE vs[p].inner[k + 1]
  BY <1>3 DEF IsGone, IsRemoval
<1>5. ASSUME NEW x \in UsedIn(ws), NEW i \in Places(ws, x)
      PROVE  /\ Was(p, j, x, i) \in Places(vs, x) /\ (x # p \/ Was(p, j, x, i) # j)
             /\ ws[x].inner[i] = vs[x].inner[Was(p, j, x, i)]
  <2>1. CASE x = p
    <3>1. i \in 1 .. n - 1 BY <1>3, <2>1
    <3>2. CASE i < j BY <1>3, <1>4, <2>1, <3>1, <3>2 DEF Was
    <3>3. CASE i >= j BY <1>3, <1>4, <2>1, <3>1, <3>3 DEF Was
    <3> QED BY <1>3, <3>1, <3>2, <3>3
  <2>2. CASE x # p BY <1>2, <2>2 DEF Was, Places
  <2> QED BY <2>1, <2>2
<1>6. ASSUME NEW x \in UsedIn(ws), NEW i \in Places(ws, x)
      PROVE  /\ KeyAt(ws, x, i) = KeyAt(vs, x, Was(p, j, x, i))
             /\ ~vs[x].leaf => vs[x].inner[Was(p, j, x, i)] \in UsedIn(ws)
  <2>1. PICK k : k = Was(p, j, x, i) OBVIOUS
  <2>2. k \in Places(vs, x) /\ (x # p \/ k # j) /\ ws[x].inner[i] = vs[x].inner[k] BY <1>5, <2>1
  <2>3. ws[x].leaf = vs[x].leaf /\ x \in UsedIn(vs) BY <1>2
  <2>4. CASE vs[x].leaf BY <2>1, <2>2, <2>3, <2>4 DEF KeyAt, KeyOf
  <2>5. CASE ~vs[x].leaf
    <3>1. PICK c : c = vs[x].inner[k] OBVIOUS
    <3>2. c \in UsedIn(vs) BY <1>1, <2>2, <2>3, <2>5, <3>1, ChildrenAre
    <3>3. c \notin Gone(vs, p, j)
      <4> SUFFICES ASSUME c \in Gone(vs, p, j) PROVE FALSE OBVIOUS
      <4>1. ~vs[p].leaf /\ c = vs[p].inner[j] BY DEF Gone
      <4>2. \A a, d \in InnerIn(vs) : \A e \in Places(vs, a), f \in Places(vs, d) :
              vs[a].inner[e] = vs[d].inner[f] => a = d /\ e = f BY <1>1 DEF Linked
      <4>3. x \in InnerIn(vs) /\ p \in InnerIn(vs) /\ j \in Places(vs, p) BY <1>2, <1>3, <2>3, <2>5, <4>1 DEF InnerIn
      <4>4. vs[x].inner[k] = vs[p].inner[j] /\ k \in Places(vs, x) BY <2>2, <3>1, <4>1
      <4>5. x = p /\ k = j BY ONLY <4>2, <4>3, <4>4
      <4> QED BY <2>2, <4>5
    <3>4. c \in UsedIn(ws) BY <1>2, <3>2, <3>3
    <3>5. ws[c].key = vs[c].key BY <1>2, <3>4
    <3> QED BY <2>1, <2>2, <2>3, <2>5, <3>1, <3>4, <3>5 DEF KeyAt, KeyOf
  <2> QED BY <2>4, <2>5
<1>7. ASSUME NEW x \in UsedIn(vs), NEW k \in Places(vs, x), x # p \/ k # j
      PROVE  x \in UsedIn(ws) /\ \E i \in Places(ws, x) : Was(p, j, x, i) = k
  <2>1. x \notin Gone(vs, p, j)
    <3> SUFFICES ASSUME x \in Gone(vs, p, j) PROVE FALSE OBVIOUS
    <3>1. vs[x].inner = <<>> BY DEF IsGone
    <3>2. Places(vs, x) = {} BY <3>1 DEF Places
    <3> QED BY <3>2
  <2>2. x \in UsedIn(ws) BY <1>2, <2>1
  <2>3. CASE x # p
    <3>1. ws[x] = vs[x] BY <1>2, <2>2, <2>3
    <3>2. k \in Places(ws, x) /\ Was(p, j, x, k) = k BY <2>3, <3>1 DEF Places, Was
    <3> QED BY <2>2, <3>2
  <2>4. CASE x = p
    <3>1. k \in 1 .. n /\ k # j BY <1>3, <1>7, <2>4
    <3>2. CASE k < j
      <4>1. k \in Places(ws, x) /\ Was(p, j, x, k) = k BY <1>3, <2>4, <3>1, <3>2 DEF Was
      <4> QED BY <2>2, <4>1
    <3>3. CASE k > j
      <4>1. k - 1 \in Places(ws, x) /\ Was(p, j, x, k - 1) = k BY <1>3, <2>4, <3>1, <3>3 DEF Was
      <4> QED BY <2>2, <4>1
    <3> QED BY <1>3, <3>1, <3>2, <3>3
  <2> QED BY <2>3, <2>4
<1> QED BY <1>5, <1>6, <1>7

(* The levels and the links without the child.                             *)
LEMMA GoneKeepsLinks ==
  ASSUME NEW vs, NEW root, NEW lvl, NEW lo, IsTree(vs, root, lvl, lo), NEW ws, NEW p, NEW j, IsGone(vs, ws, p, j)
  PROVE  Levels(ws, root, lvl) /\ Linked(ws, root)
<1>1. Typed(vs) /\ Levels(vs, root, lvl) /\ Linked(vs, root) BY DEF IsTree
<1>2. /\ UsedIn(ws) = UsedIn(vs) \ Gone(vs, p, j) /\ p \in UsedIn(ws) /\ root \in UsedIn(ws)
      /\ \A x \in UsedIn(ws) : /\ x \in UsedIn(vs) /\ ws[x].key = vs[x].key /\ ws[x].leaf = vs[x].leaf
  BY GoneNodes
<1>3. /\ \A x \in UsedIn(ws) : \A i \in Places(ws, x) :
              /\ Was(p, j, x, i) \in Places(vs, x) /\ (x # p \/ Was(p, j, x, i) # j)
              /\ ws[x].inner[i] = vs[x].inner[Was(p, j, x, i)]
              /\ ~vs[x].leaf => vs[x].inner[Was(p, j, x, i)] \in UsedIn(ws)
      /\ \A x \in UsedIn(vs) : \A k \in Places(vs, x) :
              x # p \/ k # j => x \in UsedIn(ws) /\ \E i \in Places(ws, x) : Was(p, j, x, i) = k
  BY GonePlaces
<1>4. Levels(ws, root, lvl)
  <2>1. ASSUME NEW x \in UsedIn(ws), NEW i \in Places(ws, x)
        PROVE  IF ws[x].leaf THEN ws[x].inner[i] \in Entries
               ELSE ws[x].inner[i] \in UsedIn(ws) \ {root} /\ lvl[ws[x].inner[i]] = lvl[x] - 1
    <3>1. PICK k \in Places(vs, x) : k = Was(p, j, x, i) BY <1>3
    <3>2. ws[x].inner[i] = vs[x].inner[k] /\ (~vs[x].leaf => vs[x].inner[k] \in UsedIn(ws)) BY <1>3, <3>1
    <3>3. IF vs[x].leaf THEN vs[x].inner[k] \in Entries
          ELSE vs[x].inner[k] \in UsedIn(vs) \ {root} /\ lvl[vs[x].inner[k]] = lvl[x] - 1
      BY <1>1, <1>2, <3>1 DEF Levels
    <3> QED BY <1>2, <3>2, <3>3
  <2> QED BY <1>1, <1>2, <2>1 DEF Levels
<1>5. ASSUME NEW c \in UsedIn(ws) \ {root}
      PROVE  \E x \in InnerIn(ws) : \E i \in Places(ws, x) : ws[x].inner[i] = c
  <2>1. c \in UsedIn(vs) \ {root} /\ c \notin Gone(vs, p, j) BY <1>2
  <2>2. PICK y \in InnerIn(vs) : \E k \in Places(vs, y) : vs[y].inner[k] = c BY <1>1, <2>1 DEF Linked
  <2>3. PICK k \in Places(vs, y) : vs[y].inner[k] = c BY <2>2
  <2>4. y \in UsedIn(vs) /\ ~vs[y].leaf BY DEF InnerIn
  <2>5. y # p \/ k # j BY <2>1, <2>3, <2>4 DEF Gone
  <2>6. y \in UsedIn(ws) /\ \E i \in Places(ws, y) : Was(p, j, y, i) = k BY <1>3, <2>3, <2>4, <2>5
  <2>7. PICK i \in Places(ws, y) : Was(p, j, y, i) = k BY <2>6
  <2>8. ws[y].inner[i] = c BY <1>3, <2>3, <2>6, <2>7
  <2>9. y \in InnerIn(ws) BY <1>2, <2>4, <2>6 DEF InnerIn
  <2> QED BY <2>7, <2>8, <2>9
<1>6. ASSUME NEW x \in InnerIn(ws), NEW y \in InnerIn(ws), NEW i \in Places(ws, x), NEW k \in Places(ws, y),
             ws[x].inner[i] = ws[y].inner[k]
      PROVE  x = y /\ i = k
  <2>1. x \in UsedIn(ws) /\ ~ws[x].leaf /\ y \in UsedIn(ws) /\ ~ws[y].leaf BY DEF InnerIn
  <2>2. x \in InnerIn(vs) /\ y \in InnerIn(vs) BY <1>2, <2>1 DEF InnerIn
  <2>3. PICK a \in Places(vs, x) : a = Was(p, j, x, i) BY <1>3, <2>1
  <2>4. PICK b \in Places(vs, y) : b = Was(p, j, y, k) BY <1>3, <2>1
  <2>5. ws[x].inner[i] = vs[x].inner[a] BY <1>3, <2>1, <2>3
  <2>6. ws[y].inner[k] = vs[y].inner[b] BY <1>3, <2>1, <2>4
  <2>7. vs[x].inner[a] = vs[y].inner[b] BY <1>6, <2>5, <2>6
  <2>8. \A u, w \in InnerIn(vs) : \A e \in Places(vs, u), f \in Places(vs, w) :
          vs[u].inner[e] = vs[w].inner[f] => u = w /\ e = f BY <1>1 DEF Linked
  <2>9. x = y /\ a = b BY ONLY <2>2, <2>3, <2>4, <2>7, <2>8
  <2>10. i \in Nat /\ k \in Nat /\ j \in Nat BY DEF Places, IsGone
  <2> QED BY <2>3, <2>4, <2>9, <2>10 DEF Was
<1> QED BY <1>4, <1>5, <1>6 DEF Linked

(* The order of the keys, and the entries, without the child.              *)
LEMMA GoneKeepsOrder ==
  ASSUME NEW vs, NEW root, NEW lvl, NEW lo, IsTree(vs, root, lvl, lo), NEW ws, NEW p, NEW j, IsGone(vs, ws, p, j)
  PROVE  Ordered(ws, lo)
<1>1. Typed(vs) /\ Levels(vs, root, lvl) /\ Ordered(vs, lo) BY DEF IsTree
<1>2. \A x \in UsedIn(ws) : x \in UsedIn(vs) /\ x \in Blocks /\ ws[x].key = vs[x].key /\ ws[x].leaf = vs[x].leaf
  BY GoneNodes
<1>3. \A x \in UsedIn(ws) : \A i \in Places(ws, x) :
              /\ Was(p, j, x, i) \in Places(vs, x)
              /\ ws[x].inner[i] = vs[x].inner[Was(p, j, x, i)]
              /\ KeyAt(ws, x, i) = KeyAt(vs, x, Was(p, j, x, i))
  BY GonePlaces
<1>4. ASSUME NEW x \in UsedIn(ws)
      PROVE  /\ \A i \in Places(ws, x) : lo[x] < KeyAt(ws, x, i) /\ KeyAt(ws, x, i) <= ws[x].key
             /\ \A i, k \in Places(ws, x) : i < k => KeyAt(ws, x, i) < KeyAt(ws, x, k)
             /\ ~ws[x].leaf => \A i \in Places(ws, x) :
                  /\ lo[x] <= lo[ws[x].inner[i]]
                  /\ i > 1 => KeyAt(ws, x, i - 1) <= lo[ws[x].inner[i]]
  <2>0. x \in UsedIn(vs) BY <1>2
  <2>1. /\ \A i \in Places(vs, x) : lo[x] < KeyAt(vs, x, i) /\ KeyAt(vs, x, i) <= vs[x].key
        /\ \A i, k \in Places(vs, x) : i < k => KeyAt(vs, x, i) < KeyAt(vs, x, k)
        /\ ~vs[x].leaf => \A i \in Places(vs, x) :
             /\ lo[x] <= lo[vs[x].inner[i]]
             /\ i > 1 => KeyAt(vs, x, i - 1) <= lo[vs[x].inner[i]]
    BY <1>1, <2>0 DEF Ordered
  <2>2. PICK n \in Nat : n = Len(vs[x].inner) BY <1>1, <1>2, FieldsAre
  <2>3. Places(vs, x) = 1 .. n BY <2>2 DEF Places
  <2>4. \A i, k \in Places(ws, x) : i < k => Was(p, j, x, i) < Was(p, j, x, k)
    <3> SUFFICES ASSUME NEW i \in Places(ws, x), NEW k \in Places(ws, x), i < k
                 PROVE  Was(p, j, x, i) < Was(p, j, x, k) OBVIOUS
    <3>1. i \in Nat /\ k \in Nat /\ j \in Nat BY DEF Places, IsGone
    <3> QED BY <3>1 DEF Was
  <2>5. \A i \in Places(ws, x) : lo[x] < KeyAt(ws, x, i) /\ KeyAt(ws, x, i) <= ws[x].key BY <1>2, <1>3, <2>1
  <2>6. \A i, k \in Places(ws, x) : i < k => KeyAt(ws, x, i) < KeyAt(ws, x, k) BY <1>3, <2>1, <2>4
  <2>7. ASSUME ~ws[x].leaf, NEW i \in Places(ws, x)
        PROVE  lo[x] <= lo[ws[x].inner[i]] /\ (i > 1 => KeyAt(ws, x, i - 1) <= lo[ws[x].inner[i]])
    <3>1. PICK b \in Places(vs, x) : b = Was(p, j, x, i) BY <1>3
    <3>2. ws[x].inner[i] = vs[x].inner[b] /\ ~vs[x].leaf BY <1>2, <1>3, <2>7, <3>1
    <3>3. lo[x] <= lo[ws[x].inner[i]] BY <2>1, <3>2
    <3>4. ASSUME i > 1 PROVE KeyAt(ws, x, i - 1) <= lo[ws[x].inner[i]]
      <4>1. i - 1 \in Places(ws, x) /\ i - 1 < i
        <5>1. Len(ws[x].inner) \in Nat
          <6>1. Typed(ws) /\ x \in Blocks BY <1>2 DEF IsGone
          <6> QED BY <6>1, FieldsAre
        <5> QED BY <3>4, <5>1 DEF Places
      <4>2. PICK a \in Places(vs, x) : a = Was(p, j, x, i - 1) BY <1>3, <4>1
      <4>3. a < b /\ KeyAt(ws, x, i - 1) = KeyAt(vs, x, a) BY <1>3, <2>4, <3>1, <4>1, <4>2
      <4>4. b > 1 /\ b - 1 \in Places(vs, x) /\ a <= b - 1 BY <2>3, <4>3
      <4>5. KeyAt(vs, x, b - 1) <= lo[vs[x].inner[b]] BY <2>1, <3>2, <4>4
      <4>6. KeyAt(vs, x, a) \in Nat /\ KeyAt(vs, x, b - 1) \in Nat BY <1>1, <2>0, <4>4, ChildrenAre
      <4>7. KeyAt(vs, x, a) <= KeyAt(vs, x, b - 1)
        <5>1. CASE a = b - 1 BY <4>6, <5>1
        <5>2. CASE a < b - 1 BY <2>1, <4>4, <4>6, <5>2
        <5> QED BY <2>3, <4>4, <5>1, <5>2
      <4>8. lo[vs[x].inner[b]] \in Nat
        <5>1. vs[x].inner[b] \in Blocks BY <1>1, <2>0, <3>2, ChildrenAre
        <5> QED BY <1>1, <5>1 DEF Ordered
      <4> QED BY <3>2, <4>3, <4>5, <4>6, <4>7, <4>8
    <3> QED BY <3>3, <3>4
  <2> QED BY <2>5, <2>6, <2>7
<1> QED BY <1>1, <1>4 DEF Ordered

(* The last children have the keys of their nodes, but for p if it lost    *)
(* its last child.                                                         *)
LEMMA GoneKeepsEnds ==
  ASSUME NEW vs, NEW root, NEW lvl, NEW lo, IsTree(vs, root, lvl, lo), NEW ws, NEW p, NEW j, IsGone(vs, ws, p, j)
  PROVE  Ends(ws, {p}) /\ (vs[p].leaf \/ j < Len(vs[p].inner) => Ends(ws, {}))
<1>1. Typed(vs) /\ Ends(vs, {}) /\ Typed(ws) BY DEF IsTree, IsGone
<1>2. \A x \in UsedIn(ws) : /\ x \in UsedIn(vs) /\ x \in Blocks /\ ws[x].key = vs[x].key /\ ws[x].leaf = vs[x].leaf
                            /\ x # p => ws[x] = vs[x]
  BY GoneNodes
<1>3. PICK n \in Nat : /\ Places(vs, p) = 1 .. n /\ Places(ws, p) = 1 .. n - 1 /\ j \in 1 .. n
                       /\ n = Len(vs[p].inner) /\ n - 1 = Len(ws[p].inner)
  BY GoneNodes
<1>4. \A x \in UsedIn(ws) : \A i \in Places(ws, x) : KeyAt(ws, x, i) = KeyAt(vs, x, Was(p, j, x, i)) BY GonePlaces
<1>5. ASSUME NEW x \in InnerIn(ws), ws[x].inner # <<>>, x # p \/ j < n
      PROVE  KeyAt(ws, x, Len(ws[x].inner)) = ws[x].key
  <2>1. x \in UsedIn(ws) /\ ~ws[x].leaf BY DEF InnerIn
  <2>2. x \in InnerIn(vs) /\ ws[x].key = vs[x].key BY <1>2, <2>1 DEF InnerIn
  <2>3. Len(ws[x].inner) \in Places(ws, x)
    <3>1. ws[x].inner \in Seq(Children) /\ Len(ws[x].inner) \in Nat BY <1>1, <1>2, <2>1, FieldsAre
    <3>2. Len(ws[x].inner) # 0 BY <1>5, <3>1
    <3> QED BY <3>1, <3>2 DEF Places
  <2>4. CASE x # p
    <3>1. ws[x] = vs[x] BY <1>2, <2>1, <2>4
    <3>2. KeyAt(vs, x, Len(vs[x].inner)) = vs[x].key BY <1>1, <1>5, <2>2, <3>1 DEF Ends
    <3>3. Was(p, j, x, Len(ws[x].inner)) = Len(vs[x].inner) BY <2>4, <3>1 DEF Was
    <3> QED BY <1>4, <2>1, <2>2, <2>3, <3>2, <3>3
  <2>5. CASE x = p
    <3>1. vs[p].inner # <<>>
      <4>1. n # 0 BY <1>3
      <4> QED BY <1>3, <4>1
    <3>2. KeyAt(vs, p, n) = vs[p].key BY <1>1, <1>3, <2>2, <2>5, <3>1 DEF Ends
    <3>3. Was(p, j, p, n - 1) = n BY <1>3, <1>5, <2>5 DEF Was
    <3> QED BY <1>3, <1>4, <2>1, <2>2, <2>3, <2>5, <3>2, <3>3
  <2> QED BY <2>4, <2>5
<1>6. ASSUME vs[p].leaf \/ j < n PROVE Ends(ws, {})
  <2> SUFFICES ASSUME NEW x \in InnerIn(ws), ws[x].inner # <<>>
               PROVE  KeyAt(ws, x, Len(ws[x].inner)) = ws[x].key BY DEF Ends
  <2>1. x # p \/ j < n BY <1>2, <1>6 DEF InnerIn
  <2> QED BY <1>5, <2>1
<1>7. Ends(ws, {p})
  <2> SUFFICES ASSUME NEW x \in InnerIn(ws) \ {p}, ws[x].inner # <<>>
               PROVE  KeyAt(ws, x, Len(ws[x].inner)) = ws[x].key BY DEF Ends
  <2> QED BY <1>5
<1> QED BY <1>3, <1>6, <1>7

(* The entries that are left.                                              *)
LEMMA GoneKept ==
  ASSUME NEW vs, NEW root, NEW lvl, NEW lo, IsTree(vs, root, lvl, lo), NEW ws, NEW p, NEW j, IsGone(vs, ws, p, j)
  PROVE  /\ ~vs[p].leaf => Kept(ws) = Kept(vs)
         /\ vs[p].leaf => \A s : Leads(vs, lvl, root, KeyAt(vs, p, j), s) =>
                            Kept(ws) = {f \in Kept(vs) : f.key # KeyAt(vs, p, j)}
<1>1. Typed(vs) /\ Levels(vs, root, lvl) BY DEF IsTree
<1>2. \A x \in UsedIn(ws) : x \in UsedIn(vs) /\ ws[x].leaf = vs[x].leaf BY GoneNodes
<1>3. /\ \A x \in UsedIn(ws) : \A i \in Places(ws, x) :
              /\ Was(p, j, x, i) \in Places(vs, x) /\ (x # p \/ Was(p, j, x, i) # j)
              /\ ws[x].inner[i] = vs[x].inner[Was(p, j, x, i)]
      /\ \A x \in UsedIn(vs) : \A k \in Places(vs, x) :
              x # p \/ k # j => x \in UsedIn(ws) /\ \E i \in Places(ws, x) : Was(p, j, x, i) = k
  BY GonePlaces
<1>4. ASSUME NEW f \in Kept(ws)
      PROVE  f \in Entries /\ \E x \in UsedIn(vs) : \E k \in Places(vs, x) : (x # p \/ k # j) /\ HoldsAt(vs, f, x, k)
  <2>1. f \in Entries /\ \E x \in UsedIn(ws) : \E i \in Places(ws, x) : HoldsAt(ws, f, x, i) BY DEF Kept
  <2>2. PICK x \in UsedIn(ws) : \E i \in Places(ws, x) : HoldsAt(ws, f, x, i) BY <2>1
  <2>3. PICK i \in Places(ws, x) : HoldsAt(ws, f, x, i) BY <2>2
  <2>4. PICK k \in Places(vs, x) : k = Was(p, j, x, i) BY <1>3
  <2>5. (x # p \/ k # j) /\ ws[x].inner[i] = vs[x].inner[k] /\ x \in UsedIn(vs) /\ ws[x].leaf = vs[x].leaf
    BY <1>2, <1>3, <2>4
  <2>6. HoldsAt(vs, f, x, k) BY <2>3, <2>5 DEF HoldsAt
  <2> QED BY <2>1, <2>5, <2>6
<1>5. ASSUME NEW f \in Entries, NEW x \in UsedIn(vs), NEW k \in Places(vs, x), x # p \/ k # j, HoldsAt(vs, f, x, k)
      PROVE  f \in Kept(ws)
  <2>1. x \in UsedIn(ws) /\ \E i \in Places(ws, x) : Was(p, j, x, i) = k BY <1>3, <1>5
  <2>2. PICK i \in Places(ws, x) : Was(p, j, x, i) = k BY <2>1
  <2>3. HoldsAt(ws, f, x, i) BY <1>2, <1>3, <1>5, <2>1, <2>2 DEF HoldsAt
  <2> QED BY <2>1, <2>3 DEF Kept
<1>6. Kept(ws) \subseteq Kept(vs)
  <2> SUFFICES ASSUME NEW f \in Kept(ws) PROVE f \in Kept(vs) OBVIOUS
  <2>1. f \in Entries /\ \E x \in UsedIn(vs) : \E k \in Places(vs, x) : HoldsAt(vs, f, x, k) BY <1>4
  <2> QED BY <2>1 DEF Kept
<1>7. ASSUME ~vs[p].leaf PROVE Kept(vs) \subseteq Kept(ws)
  <2> SUFFICES ASSUME NEW f \in Kept(vs) PROVE f \in Kept(ws) OBVIOUS
  <2>1. f \in Entries /\ \E x \in UsedIn(vs) : \E k \in Places(vs, x) : HoldsAt(vs, f, x, k) BY DEF Kept
  <2>2. PICK x \in UsedIn(vs) : \E k \in Places(vs, x) : HoldsAt(vs, f, x, k) BY <2>1
  <2>3. PICK k \in Places(vs, x) : HoldsAt(vs, f, x, k) BY <2>2
  <2>4. x # p BY <1>7, <2>3 DEF HoldsAt
  <2> QED BY <1>5, <2>1, <2>3, <2>4
<1>8. ASSUME vs[p].leaf, NEW s, Leads(vs, lvl, root, KeyAt(vs, p, j), s)
      PROVE  Kept(ws) = {f \in Kept(vs) : f.key # KeyAt(vs, p, j)}
  <2>1. PICK e : e = vs[p].inner[j] OBVIOUS
  <2>2. p \in UsedIn(vs) /\ j \in Places(vs, p) BY DEF IsGone
  <2>3. e \in Entries /\ e.key = KeyAt(vs, p, j) /\ HoldsAt(vs, e, p, j)
    <3>1. vs[p].inner[j] \in Entries /\ KeyAt(vs, p, j) = vs[p].inner[j].key BY <1>1, <1>8, <2>2, ChildrenAre
    <3> QED BY <1>8, <2>1, <3>1 DEF HoldsAt
  <2>4. p = Last(s) /\ IndexOf(ChildKeys(vs, p), e.key) = j
    <3>1. Leads(vs, lvl, root, e.key, s) BY <1>8, <2>3
    <3> QED BY <2>2, <2>3, <3>1, EntryIs
  <2>5. ASSUME NEW f \in Kept(ws) PROVE f.key # e.key
    <3>1. f \in Entries /\ \E x \in UsedIn(vs) : \E k \in Places(vs, x) : (x # p \/ k # j) /\ HoldsAt(vs, f, x, k)
      BY <1>4
    <3>2. PICK x \in UsedIn(vs) : \E k \in Places(vs, x) : (x # p \/ k # j) /\ HoldsAt(vs, f, x, k) BY <3>1
    <3>3. PICK k \in Places(vs, x) : (x # p \/ k # j) /\ HoldsAt(vs, f, x, k) BY <3>2
    <3> SUFFICES ASSUME f.key = e.key PROVE FALSE OBVIOUS
    <3>4. Leads(vs, lvl, root, f.key, s) BY <1>8, <2>3
    <3>5. x = Last(s) /\ IndexOf(ChildKeys(vs, x), f.key) = k
      <4>1. f \in Entries /\ HoldsAt(vs, f, x, k) BY <3>1, <3>3
      <4> QED BY <3>4, <4>1, EntryIs
    <3>6. f.key = e.key OBVIOUS
    <3> QED BY <2>4, <3>3, <3>5, <3>6
  <2>6. ASSUME NEW f \in Kept(vs), f.key # e.key PROVE f \in Kept(ws)
    <3>1. f \in Entries /\ \E x \in UsedIn(vs) : \E k \in Places(vs, x) : HoldsAt(vs, f, x, k) BY DEF Kept
    <3>2. PICK x \in UsedIn(vs) : \E k \in Places(vs, x) : HoldsAt(vs, f, x, k) BY <3>1
    <3>3. PICK k \in Places(vs, x) : HoldsAt(vs, f, x, k) BY <3>2
    <3>4. x # p \/ k # j BY <2>1, <2>6, <3>3 DEF HoldsAt
    <3> QED BY <1>5, <3>1, <3>3, <3>4
  <2> QED BY <1>6, <2>3, <2>5, <2>6
<1> QED BY <1>6, <1>7, <1>8

(* The flags and the limit.                                                *)
LEMMA GoneKeepsRest ==
  ASSUME NEW vs, NEW root, NEW lvl, NEW lo, IsTree(vs, root, lvl, lo), NEW ws, NEW p, NEW j, IsGone(vs, ws, p, j),
         ws[p].root = vs[p].root
  PROVE  /\ Flagged(vs, root) => Flagged(ws, root)
         /\ Limited(vs) => Limited(ws)
         /\ ws[root].key = Infinity
<1>1. vs[root].key = Infinity /\ NodeNumber \in Nat BY NoNodeIs DEF IsTree
<1>2. root \in UsedIn(ws) /\ \A x \in UsedIn(ws) : x \in UsedIn(vs) /\ ws[x].key = vs[x].key /\ (x # p => ws[x] = vs[x])
  BY GoneNodes
<1>3. PICK n \in Nat : n = Len(vs[p].inner) /\ n - 1 = Len(ws[p].inner) BY GoneNodes
<1>4. Flagged(vs, root) => Flagged(ws, root) BY <1>2 DEF Flagged
<1>5. Limited(vs) => Limited(ws)
  <2> SUFFICES ASSUME Limited(vs), NEW x \in UsedIn(ws) PROVE Len(ws[x].inner) <= NodeNumber BY DEF Limited
  <2>1. Len(vs[x].inner) <= NodeNumber BY <1>2 DEF Limited
  <2>2. CASE x = p BY <1>1, <1>3, <2>1, <2>2
  <2>3. CASE x # p BY <1>2, <2>1, <2>3
  <2> QED BY <2>2, <2>3
<1> QED BY <1>1, <1>2, <1>4, <1>5

-----------------------------------------------------------------------------
(* The last child of a node that has children.                             *)
LEMMA LastChildIs ==
  ASSUME NEW vs, NEW root, NEW lvl, Typed(vs), Levels(vs, root, lvl), NEW p \in InnerIn(vs), vs[p].inner # <<>>
  PROVE  /\ Len(vs[p].inner) \in Places(vs, p) /\ Last(vs[p].inner) = vs[p].inner[Len(vs[p].inner)]
         /\ Last(vs[p].inner) \in UsedIn(vs) /\ Last(vs[p].inner) \in Blocks
         /\ lvl[Last(vs[p].inner)] = lvl[p] - 1 /\ lvl[p] \in Nat
         /\ KeyAt(vs, p, Len(vs[p].inner)) = vs[Last(vs[p].inner)].key
<1>1. p \in UsedIn(vs) /\ p \in Blocks /\ ~vs[p].leaf BY DEF InnerIn, UsedIn
<1>2. vs[p].inner \in Seq(Children) /\ Len(vs[p].inner) \in Nat BY <1>1, FieldsAre
<1>3. Len(vs[p].inner) # 0 BY <1>2
<1>4. Len(vs[p].inner) \in Places(vs, p) BY <1>2, <1>3 DEF Places
<1>5. Last(vs[p].inner) = vs[p].inner[Len(vs[p].inner)] BY DEF Last
<1>6. lvl[p] \in Nat BY <1>1 DEF Levels
<1> QED BY <1>1, <1>4, <1>5, <1>6, ChildrenAre

(* setKeyForSelfAndDescendants gives the key to a chain of last children.  *)
LEMMA ChainIs ==
  ASSUME NEW vs, NEW root, NEW lvl, Typed(vs), Levels(vs, root, lvl), Branching(vs),
         NEW p \in UsedIn(vs), Ends(vs, {p}), NEW q \in UsedIn(vs), lvl[q] < lvl[p], NEW key
  PROVE  \E X : ChainOf(vs, lvl, q, X) /\ SetKey(vs, q, key) = KeySet(vs, X, key)
<1> DEFINE V == SUBSET Blocks
           ChainAt(D, x) == {x} \cup IF vs[x].leaf THEN {} ELSE D[Last(vs[x].inner)]
           G == [r \in [Blocks -> V] \X Blocks |-> ChainAt(r[1], r[2])]
           IsDown(f) == f = [x \in Blocks |-> {x} \cup IF vs[x].leaf THEN {} ELSE f[Last(vs[x].inner)]]
           Down == CHOOSE f : IsDown(f)
           n == lvl[root]
           h == Heights(vs, lvl)
<1>1. n \in Nat /\ h \in [Blocks -> 0 .. n] /\ V # {} BY HeightsAre
<1>2. \A x \in Blocks : ~vs[x].leaf => /\ x \in InnerIn(vs) /\ x \in UsedIn(vs)
                                      /\ Last(vs[x].inner) \in UsedIn(vs) /\ Last(vs[x].inner) \in Blocks
                                      /\ lvl[Last(vs[x].inner)] = lvl[x] - 1 /\ lvl[x] \in Nat
                                      /\ h[Last(vs[x].inner)] < h[x] /\ vs[x].inner # <<>>
  <2> SUFFICES ASSUME NEW x \in Blocks, ~vs[x].leaf
               PROVE  /\ x \in InnerIn(vs) /\ x \in UsedIn(vs)
                      /\ Last(vs[x].inner) \in UsedIn(vs) /\ Last(vs[x].inner) \in Blocks
                      /\ lvl[Last(vs[x].inner)] = lvl[x] - 1 /\ lvl[x] \in Nat
                      /\ h[Last(vs[x].inner)] < h[x] /\ vs[x].inner # <<>> OBVIOUS
  <2>1. x \in InnerIn(vs) /\ x \in UsedIn(vs) BY NoNodeIs DEF InnerIn, UsedIn
  <2>2. vs[x].inner # <<>> BY <2>1 DEF Branching
  <2>3. /\ Last(vs[x].inner) \in UsedIn(vs) /\ Last(vs[x].inner) \in Blocks
        /\ lvl[Last(vs[x].inner)] = lvl[x] - 1 /\ lvl[x] \in Nat BY <2>1, <2>2, LastChildIs
  <2>4. h[x] = lvl[x] /\ h[Last(vs[x].inner)] = lvl[Last(vs[x].inner)] BY <2>1, <2>3 DEF Heights
  <2> HIDE DEF h
  <2> QED BY <2>1, <2>2, <2>3, <2>4
<1>3. Gives(Blocks, V, G)
  <2> SUFFICES ASSUME NEW f \in [Blocks -> V], NEW x \in Blocks PROVE G[<<f, x>>] \in V BY DEF Gives
  <2>1. G[<<f, x>>] = ChainAt(f, x) OBVIOUS
  <2>2. ~vs[x].leaf => f[Last(vs[x].inner)] \in V BY <1>2
  <2> HIDE DEF G, h
  <2> QED BY <2>1, <2>2
<1>4. LooksDown(Blocks, V, h, G)
  <2> SUFFICES ASSUME NEW f \in [Blocks -> V], NEW g \in [Blocks -> V], NEW x \in Blocks,
                      \A y \in Blocks : h[y] < h[x] => f[y] = g[y]
               PROVE  G[<<f, x>>] = G[<<g, x>>] BY DEF LooksDown
  <2>1. G[<<f, x>>] = ChainAt(f, x) /\ G[<<g, x>>] = ChainAt(g, x) OBVIOUS
  <2> HIDE DEF G, h, V
  <2>2. ~vs[x].leaf => f[Last(vs[x].inner)] = g[Last(vs[x].inner)] BY <1>2
  <2> QED BY <2>1, <2>2
<1>5. PICK f \in [Blocks -> V] : \A x \in Blocks : f[x] = G[<<f, x>>]
  <2> HIDE DEF V, G, n, h
  <2>1. PICK f \in [Blocks -> V] : Solves(f, Blocks, G) BY <1>1, <1>3, <1>4, LevelsDefine
  <2> QED BY <2>1 DEF Solves
<1>6. IsDown(f)
  <2>1. \A x \in Blocks : f[x] = ChainAt(f, x) BY <1>5
  <2>2. f = [x \in Blocks |-> f[x]] OBVIOUS
  <2> HIDE DEF ChainAt
  <2>3. f = [x \in Blocks |-> ChainAt(f, x)] BY <2>1, <2>2
  <2> QED BY <2>3 DEF ChainAt
<1>7. IsDown(Down)
  <2> HIDE DEF IsDown
  <2> QED BY <1>6
<1>8. SetKey(vs, q, key) = KeySet(vs, Down[q], key) BY DEF SetKey, KeySet
<1> HIDE DEF Down
<1>9. \A x \in Blocks : Down[x] = ChainAt(Down, x)
  <2> HIDE DEF ChainAt
  <2>1. Down = [x \in Blocks |-> ChainAt(Down, x)] BY <1>7 DEF ChainAt
  <2> QED BY <2>1
<1> DEFINE T == {k \in Nat : \A x \in UsedIn(vs) : lvl[x] = k /\ lvl[x] < lvl[p] => ChainOf(vs, lvl, x, Down[x])}
<1>10. ASSUME NEW x \in UsedIn(vs), lvl[x] < lvl[p],
              ~vs[x].leaf => ChainOf(vs, lvl, Last(vs[x].inner), Down[Last(vs[x].inner)])
       PROVE  ChainOf(vs, lvl, x, Down[x])
  <2>1. x \in Blocks /\ Down[x] = ChainAt(Down, x) /\ lvl[x] \in Nat BY <1>9 DEF UsedIn, Levels
  <2>2. CASE vs[x].leaf
    <3>1. Down[x] = {x} BY <2>1, <2>2
    <3> HIDE DEF ChainAt
    <3> QED BY <2>1, <2>2, <3>1 DEF ChainOf
  <2>3. CASE ~vs[x].leaf
    <3>1. PICK c, X, Y : c = Last(vs[x].inner) /\ X = Down[c] /\ Y = Down[x] OBVIOUS
    <3>2. Y = {x} \cup X BY <2>1, <2>3, <3>1
    <3>3. ChainOf(vs, lvl, c, X) BY <1>10, <2>3, <3>1
    <3>4. c \in UsedIn(vs) /\ lvl[c] = lvl[x] - 1 /\ x \in InnerIn(vs) /\ vs[x].inner # <<>> BY <1>2, <2>1, <2>3, <3>1
    <3>5. vs[c].key = vs[x].key
      <4>1. x # p BY <1>10, <2>1
      <4>2. KeyAt(vs, x, Len(vs[x].inner)) = vs[x].key BY <3>4, <4>1 DEF Ends
      <4>3. KeyAt(vs, x, Len(vs[x].inner)) = vs[Last(vs[x].inner)].key BY <3>4, LastChildIs
      <4> QED BY <3>1, <4>2, <4>3
    <3> HIDE DEF ChainAt, G, h
    <3>6. \A y \in Y : lvl[y] <= lvl[x] /\ vs[y].key = vs[x].key
      <4> SUFFICES ASSUME NEW y \in Y PROVE lvl[y] <= lvl[x] /\ vs[y].key = vs[x].key OBVIOUS
      <4>1. CASE y = x BY <2>1, <4>1
      <4>2. CASE y \in X
        <5>1. lvl[y] <= lvl[c] /\ vs[y].key = vs[c].key /\ y \in UsedIn(vs) BY <3>3, <4>2 DEF ChainOf
        <5>2. lvl[y] \in Nat /\ lvl[c] \in Nat BY <3>4, <5>1 DEF Levels, UsedIn
        <5> QED BY <2>1, <3>4, <3>5, <5>1, <5>2
      <4> QED BY <3>2, <4>1, <4>2
    <3>7. \A y \in Y : ~vs[y].leaf => vs[y].inner # <<>> /\ Last(vs[y].inner) \in Y
      <4>1. c \in Y BY <3>2, <3>3 DEF ChainOf
      <4>2. \A y \in X : ~vs[y].leaf => vs[y].inner # <<>> /\ Last(vs[y].inner) \in Y BY <3>2, <3>3 DEF ChainOf
      <4> QED BY <3>1, <3>2, <3>4, <4>1, <4>2
    <3>8. \A y \in Y : y = x \/ \E z \in Y : ~vs[z].leaf /\ y = Last(vs[z].inner)
      <4> SUFFICES ASSUME NEW y \in X PROVE y = x \/ \E z \in Y : ~vs[z].leaf /\ y = Last(vs[z].inner) BY <3>2
      <4>1. CASE y = c BY <2>3, <3>1, <3>2, <4>1
      <4>2. CASE y # c
        <5>1. \E z \in X : ~vs[z].leaf /\ y = Last(vs[z].inner) BY <3>3, <4>2 DEF ChainOf
        <5> QED BY <3>2, <5>1
      <4> QED BY <4>1, <4>2
    <3>9. x \in Y /\ Y \subseteq UsedIn(vs) BY <3>2, <3>3 DEF ChainOf
    <3>10. ChainOf(vs, lvl, x, Y) BY <3>6, <3>7, <3>8, <3>9 DEF ChainOf
    <3> QED BY <3>1, <3>10
  <2> QED BY <2>2, <2>3
<1>11. 0 \in T
  <2> SUFFICES ASSUME NEW x \in UsedIn(vs), lvl[x] = 0, lvl[x] < lvl[p] PROVE ChainOf(vs, lvl, x, Down[x]) OBVIOUS
  <2>1. vs[x].leaf BY DEF Levels
  <2> HIDE DEF ChainAt, G, h
  <2> QED BY <1>10, <2>1
<1>12. ASSUME NEW k \in Nat, k \in T PROVE k + 1 \in T
  <2> SUFFICES ASSUME NEW x \in UsedIn(vs), lvl[x] = k + 1, lvl[x] < lvl[p] PROVE ChainOf(vs, lvl, x, Down[x]) OBVIOUS
  <2>1. ASSUME ~vs[x].leaf PROVE ChainOf(vs, lvl, Last(vs[x].inner), Down[Last(vs[x].inner)])
    <3>1. Last(vs[x].inner) \in UsedIn(vs) /\ lvl[Last(vs[x].inner)] = lvl[x] - 1 BY <1>2, <2>1 DEF UsedIn
    <3>2. lvl[p] \in Nat BY DEF Levels, UsedIn
    <3>3. lvl[Last(vs[x].inner)] = k /\ lvl[Last(vs[x].inner)] < lvl[p] BY <3>1, <3>2
    <3> HIDE DEF ChainAt, G, h
    <3> QED BY <1>12, <3>1, <3>3
  <2> HIDE DEF ChainAt, G, h
  <2> QED BY <1>10, <2>1
<1>13. lvl[q] \in T
  <2>1. lvl[q] \in Nat BY DEF Levels, UsedIn
  <2> HIDE DEF T
  <2> QED BY <1>11, <1>12, <2>1, NatUpwards
<1> HIDE DEF ChainAt, G, h
<1>14. ChainOf(vs, lvl, q, Down[q]) BY <1>13
<1> QED BY <1>8, <1>14

-----------------------------------------------------------------------------
(* The chain from the last child of p gets the key of p.                   *)
LEMMA KeySetNodes ==
  ASSUME NEW vs, NEW root, NEW lvl, NEW lo, NEW p \in InnerIn(vs), AlmostTree(vs, root, lvl, lo, p),
         vs[p].inner # <<>>, NEW X, ChainOf(vs, lvl, Last(vs[p].inner), X)
  PROVE  Raised(vs, KeySet(vs, X, vs[p].key), root, lvl, p, X)
<1>1. Typed(vs) /\ Levels(vs, root, lvl) /\ Linked(vs, root) /\ Ordered(vs, lo) BY DEF AlmostTree
<1>2. p \in UsedIn(vs) /\ p \in Blocks /\ ~vs[p].leaf BY DEF InnerIn, UsedIn
<1>3. PICK q : q = Last(vs[p].inner) OBVIOUS
<1>4. PICK key : key = vs[p].key OBVIOUS
<1>5. PICK n \in Nat : n = Len(vs[p].inner) BY <1>1, <1>2, FieldsAre
<1>6. /\ n \in Places(vs, p) /\ q = vs[p].inner[n] /\ q \in UsedIn(vs) /\ lvl[q] = lvl[p] - 1 /\ lvl[p] \in Nat
      /\ KeyAt(vs, p, n) = vs[q].key
  BY <1>1, <1>3, <1>5, LastChildIs
<1>7. /\ q \in X /\ X \subseteq UsedIn(vs)
      /\ \A x \in X : lvl[x] <= lvl[q] /\ vs[x].key = vs[q].key
      /\ \A x \in X : x = q \/ \E y \in X : ~vs[y].leaf /\ x = Last(vs[y].inner)
      /\ \A x \in X : ~vs[x].leaf => vs[x].inner # <<>>
  BY <1>3 DEF ChainOf
<1>8. \A x \in X : x \in UsedIn(vs) /\ lvl[x] < lvl[p]
  <2> SUFFICES ASSUME NEW x \in X PROVE lvl[x] < lvl[p] BY <1>7
  <2>1. lvl[x] \in Nat /\ lvl[q] \in Nat /\ lvl[x] <= lvl[q] BY <1>1, <1>6, <1>7 DEF Levels, UsedIn
  <2> QED BY <1>6, <2>1
<1>9. p \notin X /\ root \notin X
  <2>1. lvl[p] <= lvl[root] /\ lvl[root] \in Nat BY <1>1, <1>2 DEF Levels, UsedIn
  <2> QED BY <1>6, <1>8, <2>1
<1>10. vs[q].key <= key /\ key \in 0 .. Infinity /\ key # 0 /\ key \in Nat
  <2>1. KeyAt(vs, p, n) <= vs[p].key BY <1>1, <1>2, <1>6 DEF Ordered
  <2>2. vs[p].key # 0 BY <1>1, <1>2 DEF Levels
  <2> QED BY <1>1, <1>2, <1>4, <1>6, <2>1, <2>2, FieldsAre
<1>11. PICK ws : ws = KeySet(vs, X, key) OBVIOUS
<1>12. ASSUME NEW x \in Blocks
       PROVE  /\ ws[x] \in TreeNodes /\ (x \notin X => ws[x] = vs[x])
              /\ x \in X => /\ ws[x].leaf = vs[x].leaf /\ ws[x].inner = vs[x].inner
                            /\ ws[x].root = vs[x].root /\ ws[x].key = key
  <2>1. vs[x] \in TreeNodes BY <1>1, FieldsAre
  <2>2. ws[x] = IF x \in X THEN Save([vs[x] EXCEPT !.key = key]) ELSE vs[x] BY <1>11 DEF KeySet
  <2>3. CASE x \notin X BY <2>1, <2>2, <2>3
  <2>4. CASE x \in X BY <1>10, <2>1, <2>2, <2>4 DEF Save, TreeNodes
  <2> QED BY <2>3, <2>4
<1>13. Typed(ws)
  <2>1. ws = [x \in Blocks |-> ws[x]] BY <1>11 DEF KeySet
  <2> QED BY <1>12, <2>1 DEF Typed
<1>14. \A x \in UsedIn(vs) : /\ ws[x].leaf = vs[x].leaf /\ ws[x].inner = vs[x].inner /\ ws[x].root = vs[x].root
                             /\ ws[x].key = IF x \in X THEN key ELSE vs[x].key
                             /\ ws[x].key # 0 /\ vs[x].key <= ws[x].key
  <2> SUFFICES ASSUME NEW x \in UsedIn(vs)
               PROVE  /\ ws[x].leaf = vs[x].leaf /\ ws[x].inner = vs[x].inner /\ ws[x].root = vs[x].root
                      /\ ws[x].key = IF x \in X THEN key ELSE vs[x].key
                      /\ ws[x].key # 0 /\ vs[x].key <= ws[x].key OBVIOUS
  <2>1. x \in Blocks /\ vs[x].key # 0 /\ vs[x].key \in Nat BY <1>1, FieldsAre DEF UsedIn, Levels
  <2>2. CASE x \in X
    <3>1. vs[x].key <= key BY <1>7, <1>10, <2>2
    <3> QED BY <1>10, <1>12, <2>1, <2>2, <3>1
  <2>3. CASE x \notin X BY <1>12, <2>1, <2>3
  <2> QED BY <2>2, <2>3
<1>15. UsedIn(ws) = UsedIn(vs)
  <2>1. ASSUME NEW x \in Blocks PROVE ws[x] # NoNode <=> vs[x] # NoNode
    <3>1. CASE x \in X
      <4>1. x \in UsedIn(vs) BY <1>7, <3>1
      <4> QED BY <1>14, <4>1, NoNodeIs DEF UsedIn
    <3>2. CASE x \notin X BY <1>12, <3>2
    <3> QED BY <3>1, <3>2
  <2> QED BY <2>1 DEF UsedIn
<1>16. InnerIn(ws) = InnerIn(vs) BY <1>14, <1>15 DEF InnerIn
<1>17. ASSUME NEW x \in InnerIn(vs), NEW i \in Places(vs, x), vs[x].inner[i] \in X
       PROVE  (x = p \/ x \in X) /\ i = Len(vs[x].inner)
  <2>1. PICK c : c = vs[x].inner[i] OBVIOUS
  <2>2. \A a, d \in InnerIn(vs) : \A e \in Places(vs, a), f \in Places(vs, d) :
          vs[a].inner[e] = vs[d].inner[f] => a = d /\ e = f BY <1>1 DEF Linked
  <2>3. CASE c = q
    <3>1. vs[x].inner[i] = vs[p].inner[n] BY <1>6, <2>1, <2>3
    <3>2. x \in InnerIn(vs) /\ p \in InnerIn(vs) /\ i \in Places(vs, x) /\ n \in Places(vs, p) BY <1>6
    <3>3. x = p /\ i = n BY ONLY <2>2, <3>1, <3>2
    <3> QED BY <1>5, <3>3
  <2>4. CASE c # q
    <3>1. PICK y \in X : ~vs[y].leaf /\ c = Last(vs[y].inner) BY <1>7, <1>17, <2>1, <2>4
    <3>2. y \in InnerIn(vs) /\ vs[y].inner # <<>> BY <1>7, <3>1 DEF InnerIn
    <3>3. Len(vs[y].inner) \in Places(vs, y) /\ c = vs[y].inner[Len(vs[y].inner)] BY <1>1, <3>1, <3>2, LastChildIs
    <3>4. vs[x].inner[i] = vs[y].inner[Len(vs[y].inner)] BY <2>1, <3>3
    <3>5. x = y /\ i = Len(vs[y].inner) BY <2>2, <3>2, <3>3, <3>4
    <3> QED BY <3>5
  <2> QED BY <2>3, <2>4
<1>18. Raised(vs, ws, root, lvl, p, X) BY <1>4, <1>8, <1>9, <1>12, <1>13, <1>14, <1>15, <1>16, <1>17 DEF Raised
<1> QED BY <1>4, <1>11, <1>18

(* The keys of the children then.                                          *)
LEMMA KeySetKeepsTree ==
  ASSUME NEW vs, NEW root, NEW lvl, NEW lo, NEW p \in InnerIn(vs), AlmostTree(vs, root, lvl, lo, p),
         vs[p].inner # <<>>, NEW X, ChainOf(vs, lvl, Last(vs[p].inner), X)
  PROVE  /\ IsTree(KeySet(vs, X, vs[p].key), root, lvl, lo)
         /\ Kept(KeySet(vs, X, vs[p].key)) = Kept(vs)
<1>1. Typed(vs) /\ Levels(vs, root, lvl) /\ Linked(vs, root) /\ Ordered(vs, lo) /\ Ends(vs, {p})
      /\ vs[root].key = Infinity
  BY DEF AlmostTree
<1>2. PICK ws, key : ws = KeySet(vs, X, vs[p].key) /\ key = vs[p].key OBVIOUS
<1>3. /\ Typed(ws) /\ UsedIn(ws) = UsedIn(vs) /\ InnerIn(ws) = InnerIn(vs) /\ p \notin X /\ root \notin X
      /\ \A x \in X : x \in UsedIn(vs) /\ lvl[x] < lvl[p]
      /\ \A x \in UsedIn(vs) : /\ ws[x].leaf = vs[x].leaf /\ ws[x].inner = vs[x].inner
                               /\ ws[x].key = IF x \in X THEN key ELSE vs[x].key
                               /\ ws[x].key # 0 /\ vs[x].key <= ws[x].key
      /\ \A x \in InnerIn(vs) : \A i \in Places(vs, x) : vs[x].inner[i] \in X =>
           (x = p \/ x \in X) /\ i = Len(vs[x].inner)
  <2>1. Raised(vs, ws, root, lvl, p, X) BY <1>2, KeySetNodes
  <2> QED BY <1>2, <2>1 DEF Raised
<1>4. \A x \in UsedIn(vs) : Places(ws, x) = Places(vs, x) BY <1>3 DEF Places
<1>5. root \in UsedIn(vs) /\ p \in UsedIn(vs) /\ ~vs[p].leaf BY <1>1 DEF Levels, InnerIn
<1>6. ASSUME NEW x \in UsedIn(vs), NEW i \in Places(vs, x)
      PROVE  /\ KeyAt(vs, x, i) \in Nat /\ KeyAt(ws, x, i) \in Nat
             /\ KeyAt(ws, x, i) = IF ~vs[x].leaf /\ vs[x].inner[i] \in X THEN key ELSE KeyAt(vs, x, i)
             /\ KeyAt(vs, x, i) <= KeyAt(ws, x, i)
  <2>1. /\ KeyAt(vs, x, i) \in Nat
        /\ ~vs[x].leaf => vs[x].inner[i] \in UsedIn(vs) /\ KeyAt(vs, x, i) = vs[vs[x].inner[i]].key
    BY <1>1, ChildrenAre
  <2>2. KeyAt(ws, x, i) = KeyOf(ws, vs[x].leaf, vs[x].inner[i]) BY <1>3 DEF KeyAt
  <2>3. KeyAt(vs, x, i) = KeyOf(vs, vs[x].leaf, vs[x].inner[i]) BY DEF KeyAt
  <2>4. CASE vs[x].leaf
    <3>1. KeyAt(ws, x, i) = KeyAt(vs, x, i) BY <2>2, <2>3, <2>4 DEF KeyOf
    <3> QED BY <2>1, <2>4, <3>1
  <2>5. CASE ~vs[x].leaf
    <3>1. PICK c \in UsedIn(vs) : c = vs[x].inner[i] /\ KeyAt(vs, x, i) = vs[c].key BY <2>1, <2>5
    <3>2. KeyAt(ws, x, i) = ws[c].key BY <2>2, <2>5, <3>1 DEF KeyOf
    <3>3. ws[c].key = (IF c \in X THEN key ELSE vs[c].key) /\ vs[c].key <= ws[c].key BY <1>3
    <3>4. key \in Nat
      <4>1. p \in Blocks BY <1>5 DEF UsedIn
      <4> QED BY <1>1, <1>2, <4>1, FieldsAre
    <3> QED BY <2>1, <2>5, <3>1, <3>2, <3>3, <3>4
  <2> QED BY <2>4, <2>5
<1>7. ASSUME NEW x \in UsedIn(vs), NEW i \in Places(vs, x), NEW k \in Places(vs, x), i < k
      PROVE  KeyAt(ws, x, i) = KeyAt(vs, x, i)
  <2> SUFFICES ASSUME ~vs[x].leaf, vs[x].inner[i] \in X PROVE FALSE BY <1>6
  <2>1. x \in InnerIn(vs) BY DEF InnerIn
  <2>2. i = Len(vs[x].inner) BY <1>3, <2>1
  <2>3. Len(vs[x].inner) \in Nat /\ k \in 1 .. Len(vs[x].inner) BY <1>1, FieldsAre DEF UsedIn, Places
  <2> QED BY <1>7, <2>2, <2>3
<1>8. Levels(ws, root, lvl)
  <2>1. ASSUME NEW x \in UsedIn(ws), NEW i \in Places(ws, x)
        PROVE  IF ws[x].leaf THEN ws[x].inner[i] \in Entries
               ELSE ws[x].inner[i] \in UsedIn(ws) \ {root} /\ lvl[ws[x].inner[i]] = lvl[x] - 1
    BY <1>1, <1>3, <1>4 DEF Levels
  <2> QED BY <1>1, <1>3, <2>1 DEF Levels
<1>9. Linked(ws, root)
  <2>1. \A x \in InnerIn(vs) : ws[x].inner = vs[x].inner /\ Places(ws, x) = Places(vs, x) BY <1>3, <1>4 DEF InnerIn
  <2>2. \A c \in UsedIn(ws) \ {root} : \E x \in InnerIn(ws) : \E i \in Places(ws, x) : ws[x].inner[i] = c
    BY <1>1, <1>3, <2>1 DEF Linked
  <2>3. ASSUME NEW x \in InnerIn(ws), NEW y \in InnerIn(ws), NEW i \in Places(ws, x), NEW k \in Places(ws, y),
               ws[x].inner[i] = ws[y].inner[k]
        PROVE  x = y /\ i = k
    BY <1>1, <1>3, <2>1, <2>3 DEF Linked
  <2> QED BY <2>2, <2>3 DEF Linked
<1>10. Ordered(ws, lo)
  <2>1. ASSUME NEW x \in UsedIn(vs)
        PROVE  /\ \A i \in Places(vs, x) : lo[x] < KeyAt(ws, x, i) /\ KeyAt(ws, x, i) <= ws[x].key
               /\ \A i, k \in Places(vs, x) : i < k => KeyAt(ws, x, i) < KeyAt(ws, x, k)
               /\ ~vs[x].leaf => \A i \in Places(vs, x) :
                    /\ lo[x] <= lo[vs[x].inner[i]]
                    /\ i > 1 => KeyAt(ws, x, i - 1) <= lo[vs[x].inner[i]]
    <3>1. /\ \A i \in Places(vs, x) : lo[x] < KeyAt(vs, x, i) /\ KeyAt(vs, x, i) <= vs[x].key
          /\ \A i, k \in Places(vs, x) : i < k => KeyAt(vs, x, i) < KeyAt(vs, x, k)
          /\ ~vs[x].leaf => \A i \in Places(vs, x) :
               /\ lo[x] <= lo[vs[x].inner[i]]
               /\ i > 1 => KeyAt(vs, x, i - 1) <= lo[vs[x].inner[i]]
      BY <1>1 DEF Ordered
    <3>2. lo[x] \in Nat /\ vs[x].key \in Nat /\ x \in Blocks BY <1>1, FieldsAre DEF Ordered, UsedIn
    <3>3. ws[x].key \in Nat BY <1>3, <3>2, FieldsAre
    <3>4. ASSUME NEW i \in Places(vs, x) PROVE lo[x] < KeyAt(ws, x, i) /\ KeyAt(ws, x, i) <= ws[x].key
      <4>1. lo[x] < KeyAt(ws, x, i) BY <1>6, <3>1, <3>2
      <4>2. CASE ~vs[x].leaf /\ vs[x].inner[i] \in X
        <5>1. x = p \/ x \in X BY <1>3, <4>2 DEF InnerIn
        <5>2. ws[x].key = key BY <1>2, <1>3, <5>1
        <5> QED BY <1>6, <3>3, <4>1, <4>2, <5>2
      <4>3. CASE ~(~vs[x].leaf /\ vs[x].inner[i] \in X)
        <5>1. KeyAt(ws, x, i) = KeyAt(vs, x, i) /\ vs[x].key <= ws[x].key BY <1>3, <1>6, <4>3
        <5> QED BY <1>6, <3>1, <3>2, <3>3, <4>1, <5>1
      <4> QED BY <4>2, <4>3
    <3>5. ASSUME NEW i \in Places(vs, x), NEW k \in Places(vs, x), i < k PROVE KeyAt(ws, x, i) < KeyAt(ws, x, k)
      <4>1. KeyAt(ws, x, i) = KeyAt(vs, x, i) BY <1>7, <3>5
      <4>2. KeyAt(vs, x, i) < KeyAt(vs, x, k) /\ KeyAt(vs, x, k) <= KeyAt(ws, x, k) BY <1>6, <3>1, <3>5
      <4> QED BY <1>6, <4>1, <4>2
    <3>6. ASSUME ~vs[x].leaf, NEW i \in Places(vs, x)
          PROVE  lo[x] <= lo[vs[x].inner[i]] /\ (i > 1 => KeyAt(ws, x, i - 1) <= lo[vs[x].inner[i]])
      <4>1. i > 1 => i - 1 \in Places(vs, x) /\ i - 1 < i
        <5>1. Len(vs[x].inner) \in Nat BY <1>1, <3>2, FieldsAre
        <5> QED BY <5>1 DEF Places
      <4>2. i > 1 => KeyAt(ws, x, i - 1) = KeyAt(vs, x, i - 1) BY <1>7, <4>1
      <4> QED BY <3>1, <3>6, <4>2
    <3> QED BY <3>4, <3>5, <3>6
  <2> QED BY <1>1, <1>3, <1>4, <2>1 DEF Ordered
<1>11. Ends(ws, {})
  <2> SUFFICES ASSUME NEW x \in InnerIn(ws), ws[x].inner # <<>>
               PROVE  KeyAt(ws, x, Len(ws[x].inner)) = ws[x].key BY DEF Ends
  <2>1. x \in InnerIn(vs) /\ x \in UsedIn(vs) /\ ~vs[x].leaf /\ ws[x].inner = vs[x].inner BY <1>3 DEF InnerIn
  <2>2. PICK m : m = Len(vs[x].inner) OBVIOUS
  <2>3. m \in Places(vs, x) /\ Last(vs[x].inner) = vs[x].inner[m] BY <1>1, <2>1, <2>2, LastChildIs
  <2>4. CASE x = p \/ x \in X
    <3>1. vs[x].inner[m] \in X BY <2>1, <2>3, <2>4 DEF ChainOf
    <3>2. KeyAt(ws, x, m) = key BY <1>6, <2>1, <2>3, <3>1
    <3>3. ws[x].key = key BY <1>2, <1>3, <1>5, <2>4
    <3> QED BY <2>1, <2>2, <3>2, <3>3
  <2>5. CASE x # p /\ x \notin X
    <3>1. vs[x].inner[m] \notin X BY <1>3, <2>1, <2>3, <2>5
    <3>2. KeyAt(ws, x, m) = KeyAt(vs, x, m) BY <1>6, <2>1, <2>3, <3>1
    <3>3. KeyAt(vs, x, m) = vs[x].key BY <1>1, <2>1, <2>2, <2>5 DEF Ends
    <3>4. ws[x].key = vs[x].key BY <1>3, <2>1, <2>5
    <3> QED BY <2>1, <2>2, <3>2, <3>3, <3>4
  <2> QED BY <2>4, <2>5
<1>12. IsTree(ws, root, lvl, lo)
  <2>1. ws[root].key = Infinity BY <1>1, <1>3, <1>5
  <2> QED BY <1>3, <1>8, <1>9, <1>10, <1>11, <2>1 DEF IsTree
<1>13. Kept(ws) = Kept(vs)
  <2>1. \A f : \A x \in UsedIn(vs) : \A i : HoldsAt(ws, f, x, i) <=> HoldsAt(vs, f, x, i) BY <1>3 DEF HoldsAt
  <2> QED BY <1>3, <1>4, <2>1 DEF Kept
<1> QED BY <1>2, <1>12, <1>13

-----------------------------------------------------------------------------
(* Nothing else changes when removeChildNode frees an empty child.         *)
LEMMA FreedIs ==
  ASSUME NEW vs, NEW root, NEW lvl, NEW lo, IsTree(vs, root, lvl, lo), NEW p \in InnerIn(vs), NEW j \in Places(vs, p),
         NEW c, c = vs[p].inner[j], vs[c].inner = <<>>
  PROVE  /\ IsGone(vs, Freed(vs, p, j, c), p, j) /\ Freed(vs, p, j, c)[p].root = vs[p].root
         /\ Freed(vs, p, j, c)[p].inner = RemoveAt(vs[p].inner, j)
<1>1. Typed(vs) /\ Levels(vs, root, lvl) BY DEF IsTree
<1>2. p \in UsedIn(vs) /\ p \in Blocks /\ ~vs[p].leaf BY DEF InnerIn, UsedIn
<1>3. c \in UsedIn(vs) /\ c \in Blocks /\ lvl[c] = lvl[p] - 1 /\ lvl[p] \in Nat BY <1>1, <1>2, ChildrenAre DEF Levels
<1>4. c # p BY <1>3
<1>5. vs[p] \in TreeNodes /\ vs[p].inner \in Seq(Children) /\ j \in 1 .. Len(vs[p].inner) BY <1>1, <1>2, FieldsAre DEF Places
<1>6. PICK rest : rest = RemoveAt(vs[p].inner, j) OBVIOUS
<1>7. IsRemoval(vs[p].inner, j, rest) BY <1>5, <1>6, RemoveAtIs DEF IsRemoval
<1>8. PICK node : node = Save([vs[p] EXCEPT !.inner = rest]) OBVIOUS
<1>9. /\ node \in TreeNodes /\ node.inner = rest /\ node.leaf = vs[p].leaf /\ node.key = vs[p].key
      /\ node.root = vs[p].root
  <2>1. rest \in Seq(Children) BY <1>7 DEF IsRemoval
  <2> QED BY <1>5, <1>8, <2>1 DEF Save, TreeNodes
<1>10. PICK ws : ws = Freed(vs, p, j, c) OBVIOUS
<1>11. ws = [vs EXCEPT ![p] = node, ![c] = NoNode] BY <1>6, <1>8, <1>10 DEF Freed
<1>12. ws[p] = node /\ ws[c] = NoNode /\ (\A x \in Blocks : x # p /\ x # c => ws[x] = vs[x])
  BY <1>1, <1>2, <1>3, <1>4, <1>11 DEF Typed
<1>13. Typed(ws)
  <2>1. NoNode \in TreeNodes BY NoNodeIs
  <2> QED BY <1>1, <1>9, <1>11, <2>1 DEF Typed
<1>14. Gone(vs, p, j) = {c} BY <1>2 DEF Gone
<1>15. IsGone(vs, ws, p, j) BY <1>2, <1>7, <1>9, <1>12, <1>13, <1>14 DEF IsGone
<1> QED BY <1>6, <1>9, <1>10, <1>12, <1>15

(* removeChildNode: without the empty child the tree is one again.         *)
LEMMA WithoutCuts ==
  ASSUME NEW vs, NEW root, NEW lvl, NEW lo, NEW K, Bare(vs, root, lvl, lo, K), NEW p \in InnerIn(vs),
         NEW j \in Places(vs, p), NEW c, c = vs[p].inner[j], vs[c].inner = <<>>, Filled(vs, {root, c}),
         p = root => Len(vs[p].inner) > 1
  PROVE  Cut(vs, Without(vs, p, vs[c].key, j), root, lvl, lo, K, p)
<1>1. /\ IsTree(vs, root, lvl, lo) /\ Kept(vs) = K /\ Flagged(vs, root) /\ Limited(vs)
      /\ vs[root].leaf \/ vs[root].inner # <<>>
      /\ Typed(vs) /\ Levels(vs, root, lvl) /\ Ends(vs, {})
  BY DEF Bare, IsTree
<1>2. p \in UsedIn(vs) /\ p \in Blocks /\ ~vs[p].leaf BY DEF InnerIn, UsedIn
<1>3. /\ c \in UsedIn(vs) /\ c \in Blocks /\ lvl[c] = lvl[p] - 1 /\ lvl[p] \in Nat
      /\ KeyAt(vs, p, j) = vs[c].key BY <1>1, <1>2, ChildrenAre DEF Levels
<1>4. c # p BY <1>3
<1>5. PICK rm, key, rest : rm = Freed(vs, p, j, c) /\ key = vs[c].key /\ rest = RemoveAt(vs[p].inner, j) OBVIOUS
<1>6. IsGone(vs, rm, p, j) /\ rm[p].root = vs[p].root /\ rm[p].inner = rest BY <1>1, <1>5, FreedIs
<1>7. Gone(vs, p, j) = {c} BY <1>2 DEF Gone
<1>8. /\ UsedIn(rm) = UsedIn(vs) \ {c} /\ p \in UsedIn(rm) /\ root \in UsedIn(rm)
      /\ \A x \in UsedIn(rm) : /\ x \in UsedIn(vs) /\ x # c /\ rm[x].leaf = vs[x].leaf /\ rm[x].key = vs[x].key
                               /\ x # p => rm[x] = vs[x]
  BY <1>1, <1>6, <1>7, GoneNodes
<1>9. PICK n \in Nat : n = Len(vs[p].inner) /\ n - 1 = Len(rest) /\ j \in 1 .. n /\ Places(vs, p) = 1 .. n
  BY <1>1, <1>6, GoneNodes
<1>10. Levels(rm, root, lvl) /\ Linked(rm, root) /\ Ordered(rm, lo) /\ Ends(rm, {p})
       /\ (j < n => Ends(rm, {})) /\ Kept(rm) = K
  BY <1>1, <1>2, <1>6, <1>9, GoneKeepsLinks, GoneKeepsOrder, GoneKeepsEnds, GoneKept
<1>11. Flagged(rm, root) /\ Limited(rm) /\ rm[root].key = Infinity BY <1>1, <1>6, GoneKeepsRest
<1>12. Typed(rm) BY <1>6 DEF IsGone
<1>13. rm[root].leaf \/ rm[root].inner # <<>>
  <2>1. CASE root = p
    <3>1. Len(rest) # 0 BY <1>9, <2>1
    <3> QED BY <1>6, <2>1, <3>1
  <2>2. CASE root # p BY <1>1, <1>8, <2>2
  <2> QED BY <2>1, <2>2
<1>14. Filled(rm, {root, p}) BY <1>8 DEF Filled
<1>15. \A x \in UsedIn(vs) : lvl[x] >= lvl[p] /\ x # p => rm[x] = vs[x] /\ x \in UsedIn(rm)
  <2> SUFFICES ASSUME NEW x \in UsedIn(vs), lvl[x] >= lvl[p], x # p PROVE rm[x] = vs[x] /\ x \in UsedIn(rm) OBVIOUS
  <2>1. x # c BY <1>3
  <2> QED BY <1>8, <2>1
<1>16. Without(vs, p, key, j) = IF key = vs[p].key /\ rest # <<>> THEN SetKey(rm, Last(rest), key) ELSE rm
  BY <1>5 DEF Without, Freed
<1>17. CASE ~(key = vs[p].key /\ rest # <<>>)
  <2>1. Ends(rm, {})
    <3>1. CASE rest = <<>>
      <4>1. \A x \in InnerIn(rm) : rm[x].inner # <<>> => x \in InnerIn(rm) \ {p} BY <1>6, <3>1
      <4> QED BY <1>10, <4>1 DEF Ends
    <3>2. CASE key # vs[p].key
      <4>1. j # n
        <5> SUFFICES ASSUME j = n PROVE FALSE OBVIOUS
        <5>1. vs[p].inner # <<>>
          <6>1. n # 0 BY <1>9
          <6> QED BY <1>9, <6>1
        <5>2. KeyAt(vs, p, n) = vs[p].key BY <1>1, <1>9, <5>1 DEF Ends
        <5> QED BY <1>3, <1>5, <3>2, <5>2
      <4> QED BY <1>9, <1>10, <4>1
    <3> QED BY <1>17, <3>1, <3>2
  <2>2. IsTree(rm, root, lvl, lo) BY <1>10, <1>11, <1>12, <2>1 DEF IsTree
  <2>3. Bare(rm, root, lvl, lo, K) BY <1>10, <1>11, <1>13, <2>2 DEF Bare
  <2>4. Cut(vs, rm, root, lvl, lo, K, p) BY <1>8, <1>14, <1>15, <2>3 DEF Cut
  <2> QED BY <1>5, <1>16, <1>17, <2>4
<1>18. CASE key = vs[p].key /\ rest # <<>>
  <2>1. PICK q : q = Last(rest) OBVIOUS
  <2>2. p \in InnerIn(rm) /\ rm[p].inner # <<>> /\ rm[p].key = key BY <1>2, <1>6, <1>8, <1>18 DEF InnerIn
  <2>3. q \in UsedIn(rm) /\ lvl[q] < lvl[p] /\ q = Last(rm[p].inner)
    <3>1. Last(rm[p].inner) \in UsedIn(rm) /\ lvl[Last(rm[p].inner)] = lvl[p] - 1
      BY <1>10, <1>12, <2>2, LastChildIs
    <3> QED BY <1>3, <1>6, <2>1, <3>1
  <2>4. Branching(rm)
    <3> SUFFICES ASSUME NEW x \in InnerIn(rm) PROVE rm[x].inner # <<>> BY DEF Branching
    <3>1. x \in UsedIn(rm) /\ ~rm[x].leaf BY DEF InnerIn
    <3>2. CASE x = p BY <1>6, <1>18, <3>2
    <3>3. CASE x # p /\ x = root BY <1>13, <3>1, <3>3
    <3>4. CASE x # p /\ x # root
      <4>1. vs[x].inner # <<>> BY <1>8, <3>1, <3>4 DEF Filled
      <4> QED BY <1>8, <3>1, <3>4, <4>1
    <3> QED BY <3>2, <3>3, <3>4
  <2>5. PICK X : ChainOf(rm, lvl, q, X) /\ SetKey(rm, q, key) = KeySet(rm, X, key)
    <3>1. Typed(rm) /\ Levels(rm, root, lvl) /\ Ends(rm, {p}) BY <1>10, <1>12
    <3>2. p \in UsedIn(rm) /\ q \in UsedIn(rm) /\ lvl[q] < lvl[p] BY <1>8, <2>3
    <3> QED BY ONLY <2>4, <3>1, <3>2, ChainIs
  <2>6. PICK ws : ws = KeySet(rm, X, key) OBVIOUS
  <2>7. AlmostTree(rm, root, lvl, lo, p) BY <1>10, <1>11, <1>12 DEF AlmostTree
  <2>8. ChainOf(rm, lvl, Last(rm[p].inner), X) BY <2>3, <2>5
  <2>9. IsTree(ws, root, lvl, lo) /\ Kept(ws) = K
    <3>1. IsTree(KeySet(rm, X, rm[p].key), root, lvl, lo) /\ Kept(KeySet(rm, X, rm[p].key)) = Kept(rm)
      BY <2>2, <2>7, <2>8, KeySetKeepsTree
    <3> QED BY <1>10, <2>2, <2>6, <3>1
  <2>10. /\ UsedIn(ws) = UsedIn(rm) /\ root \notin X /\ p \notin X
         /\ \A x \in X : x \in UsedIn(rm) /\ lvl[x] < lvl[p]
         /\ \A x \in Blocks \ X : ws[x] = rm[x]
         /\ \A x \in UsedIn(rm) : ws[x].leaf = rm[x].leaf /\ ws[x].inner = rm[x].inner /\ ws[x].root = rm[x].root
    <3>1. Raised(rm, KeySet(rm, X, rm[p].key), root, lvl, p, X) BY <2>2, <2>7, <2>8, KeySetNodes
    <3>2. Raised(rm, ws, root, lvl, p, X) BY <2>2, <2>6, <3>1
    <3> QED BY <3>2 DEF Raised
  <2>11. Flagged(ws, root) /\ Limited(ws) BY <1>11, <2>10 DEF Flagged, Limited
  <2>12. ws[root].leaf \/ ws[root].inner # <<>> BY <1>8, <1>13, <2>10
  <2>13. Bare(ws, root, lvl, lo, K) BY <2>9, <2>11, <2>12 DEF Bare
  <2>14. Filled(ws, {root, p}) BY <1>14, <2>10 DEF Filled
  <2>15. ASSUME NEW x \in UsedIn(vs), lvl[x] >= lvl[p], x # p PROVE ws[x] = vs[x]
    <3>1. rm[x] = vs[x] /\ x \in UsedIn(rm) BY <1>15, <2>15
    <3>2. x \notin X
      <4>1. lvl[x] \in Nat BY <1>1, <2>15 DEF Levels, UsedIn
      <4> QED BY <1>3, <2>10, <2>15, <4>1
    <3>3. x \in Blocks BY DEF UsedIn
    <3> QED BY <2>10, <3>1, <3>2, <3>3
  <2>16. Cut(vs, ws, root, lvl, lo, K, p) BY <1>8, <2>10, <2>13, <2>14, <2>15 DEF Cut
  <2>17. Without(vs, p, key, j) = ws BY <1>16, <1>18, <2>1, <2>5, <2>6
  <2> QED BY <1>5, <2>16, <2>17
<1> QED BY <1>17, <1>18

-----------------------------------------------------------------------------
(* J[i] is what holds after i turns.                                       *)
LEMMA RemovedTurns ==
  ASSUME NEW path, Len(path) - 1 \in Nat, NEW key, NEW J,
         [nodes |-> WithoutEntry(Last(path), key), at |-> Last(path)] \in J[0],
         \A i \in 1 .. Len(path) - 1 : \A r \in J[i - 1] : RemoveUp(path[Len(path) - i], r) \in J[i]
  PROVE  \E r \in J[Len(path) - 1] : Removed(path, key) = r.nodes
<1> DEFINE n == Len(path) - 1
           first == [nodes |-> WithoutEntry(Last(path), key), at |-> Last(path)]
           turn(t, i) == RemoveUp(path[Len(path) - i], t)
           G == [p \in (UNION {J[i] : i \in 0 .. n}) \X (1 .. n) |-> turn(p[1], p[2])]
           g == CHOOSE f : IsRemoveUp(f, path, key)
<1>1. \A i \in 1 .. n : \A r \in J[i - 1] : G[<<r, i>>] = turn(r, i) /\ turn(r, i) \in J[i]
  <2> SUFFICES ASSUME NEW i \in 1 .. n, NEW r \in J[i - 1] PROVE G[<<r, i>>] = turn(r, i) /\ turn(r, i) \in J[i]
    OBVIOUS
  <2>1. i - 1 \in 0 .. n OBVIOUS
  <2>2. <<r, i>> \in (UNION {J[k] : k \in 0 .. n}) \X (1 .. n) BY <2>1
  <2> QED BY <2>2
<1>2. PICK f : IsTurns(f, n, first, G) /\ \A i \in 0 .. n : f[i] \in J[i]
  <2>1. n \in Nat OBVIOUS
  <2> HIDE DEF G, turn, n
  <2>2. \A i \in 1 .. n : \A r \in J[i - 1] : G[<<r, i>>] \in J[i] BY <1>1
  <2>3. PICK x : x = first OBVIOUS
  <2>4. \E f : IsTurns(f, n, x, G) /\ \A i \in 0 .. n : f[i] \in J[i] BY <2>1, <2>2, <2>3, TurnsKeep
  <2> QED BY <2>3, <2>4
<1>3. IsRemoveUp(f, path, key)
  <2>1. f = [i \in 0 .. n |-> IF i = 0 THEN first ELSE G[<<f[i - 1], i>>]] BY <1>2 DEF IsTurns
  <2>2. \A i \in 0 .. n : i # 0 => G[<<f[i - 1], i>>] = turn(f[i - 1], i)
    <3> SUFFICES ASSUME NEW i \in 0 .. n, i # 0 PROVE G[<<f[i - 1], i>>] = turn(f[i - 1], i) OBVIOUS
    <3>1. i \in 1 .. n /\ i - 1 \in 0 .. n OBVIOUS
    <3> QED BY <1>1, <1>2, <3>1
  <2> HIDE DEF G
  <2>3. f = [i \in 0 .. n |-> IF i = 0 THEN first ELSE turn(f[i - 1], i)] BY <2>1, <2>2
  <2> QED BY <2>3 DEF IsRemoveUp
<1>4. IsRemoveUp(g, path, key) BY <1>3
<1>5. Removed(path, key) = g[n].nodes BY DEF Removed, IsRemoveUp
<1> HIDE DEF g
<1>6. \A i \in 0 .. n : g[i] = IF i = 0 THEN first ELSE turn(g[i - 1], i) BY <1>4 DEF IsRemoveUp
<1>7. g[0] \in J[0]
  <2>1. 0 \in 0 .. n OBVIOUS
  <2> QED BY <1>6, <2>1
<1>8. ASSUME NEW i \in 1 .. n, g[i - 1] \in J[i - 1] PROVE g[i] \in J[i]
  <2>1. i \in 0 .. n /\ i # 0 OBVIOUS
  <2>2. g[i] = turn(g[i - 1], i) BY <1>6, <2>1
  <2> QED BY <1>1, <1>8, <2>2
<1>9. \A i \in 0 .. n : g[i] \in J[i] BY <1>7, <1>8, TurnsStay
<1>10. n \in 0 .. n OBVIOUS
<1> QED BY <1>5, <1>9, <1>10

-----------------------------------------------------------------------------
(* RemoveUp keeps what holds after the turns below it.                     *)
LEMMA TurnCuts ==
  ASSUME NEW ns, NEW lvl, NEW lo, NEW K, NEW s, Falls(ns, lvl, s), NEW i \in 1 .. Len(s) - 1, NEW r \in Cuts,
         Shrunk(ns, s, lvl, lo, K, r, i - 1)
  PROVE  RemoveUp(s[Len(s) - i], r) \in Cuts /\ Shrunk(ns, s, lvl, lo, K, RemoveUp(s[Len(s) - i], r), i)
<1>1. PICK n \in Nat : n = Len(s) BY DEF Falls, Descends
<1>2. PICK m \in 1 .. n - 1 : m = n - i BY <1>1
<1>3. m + 1 \in 1 .. n /\ m \in 1 .. n /\ n - (i - 1) = m + 1 /\ n - 1 - (i - 1) = m /\ n - 1 - i = m - 1 BY <1>1, <1>2
<1>4. PICK vs, c, p, u : vs = r.nodes /\ c = r.at /\ p = s[m] /\ u = RemoveUp(p, r) OBVIOUS
<1>5. /\ Bare(vs, s[1], lvl, lo, K) /\ c \in UsedIn(vs) /\ vs \in [Blocks -> TreeNodes] /\ c \in Blocks
      /\ Filled(vs, {s[1]}) \/ (c = s[m + 1] /\ Filled(vs, {s[1], c}))
      /\ \A k \in 1 .. m : vs[s[k]] = ns[s[k]]
  BY <1>1, <1>3, <1>4 DEF Shrunk, Cuts
<1>6. u = IF vs[c].root \/ vs[c].inner # <<>> THEN r
          ELSE [nodes |-> Without(vs, p, vs[c].key, IndexOf(ChildKeys(vs, p), vs[c].key)), at |-> p]
  BY <1>4 DEF RemoveUp
<1>7. SUFFICES u \in Cuts /\ Shrunk(ns, s, lvl, lo, K, u, i) BY <1>1, <1>2, <1>4
<1>8. IsTree(vs, s[1], lvl, lo) /\ Flagged(vs, s[1]) /\ Typed(vs) /\ Levels(vs, s[1], lvl) /\ Ordered(vs, lo)
  BY <1>5 DEF Bare, IsTree
<1>9. /\ \A k \in 1 .. n : s[k] \in UsedIn(ns) /\ s[k] \in Blocks
      /\ \A k \in 1 .. n - 1 : s[k] \in InnerIn(ns) /\ \E j \in Places(ns, s[k]) : ns[s[k]].inner[j] = s[k + 1]
      /\ \A k, l \in 1 .. n : s[k] = s[l] => k = l
  BY <1>1 DEF Falls, Descends, UsedIn
<1>10. CASE Filled(vs, {s[1]})
  <2>1. vs[c].root \/ vs[c].inner # <<>>
    <3>1. CASE c = s[1] BY <1>5, <1>8, <3>1 DEF Flagged
    <3>2. CASE c # s[1] BY <1>5, <1>10, <3>2 DEF Filled
    <3> QED BY <3>1, <3>2
  <2>2. u = r BY <1>6, <2>1
  <2>3. \A k \in 1 .. n - 1 - i : vs[s[k]] = ns[s[k]] BY <1>3, <1>5
  <2>4. Shrunk(ns, s, lvl, lo, K, r, i) BY <1>1, <1>4, <1>5, <1>10, <2>3 DEF Shrunk
  <2> QED BY <2>2, <2>4
<1>11. CASE c = s[m + 1] /\ Filled(vs, {s[1], c})
  <2>1. c # s[1]
    <3>1. m + 1 # 1 /\ 1 \in 1 .. n BY <1>1, <1>2
    <3> QED BY <1>3, <1>9, <1>11, <3>1
  <2>2. vs[c].root = FALSE
    <3>1. vs[c].root \in BOOLEAN BY <1>5, <1>8, FieldsAre
    <3> QED BY <1>5, <1>8, <2>1, <3>1 DEF Flagged
  <2>3. CASE vs[c].inner # <<>>
    <3>1. Filled(vs, {s[1]}) BY <1>11, <2>3 DEF Filled
    <3> QED BY <1>10, <3>1
  <2>4. CASE vs[c].inner = <<>>
    <3>1. vs[p] = ns[p] /\ p \in InnerIn(ns) /\ \E j \in Places(ns, p) : ns[p].inner[j] = s[m + 1]
      <4>1. vs[p] = ns[p] BY <1>3, <1>4, <1>5, <1>2
      <4> QED BY <1>4, <1>9, <4>1
    <3>2. PICK j \in Places(vs, p) : c = vs[p].inner[j] BY <1>11, <3>1 DEF Places
    <3>3. p \in InnerIn(vs) /\ p \in UsedIn(vs) /\ ~vs[p].leaf /\ p \in Blocks BY <3>1 DEF InnerIn, UsedIn
    <3>4. vs[c].key \in Nat /\ KeyAt(vs, p, j) = vs[c].key BY <1>5, <1>8, <3>2, <3>3, ChildrenAre, FieldsAre
    <3>5. IndexOf(ChildKeys(vs, p), vs[c].key) = j BY <1>8, <3>2, <3>3, <3>4, IndexOfIs
    <3>6. p = s[1] => Len(vs[p].inner) > 1
      <4>1. ns[s[1]].leaf \/ Len(ns[s[1]].inner) > 1 BY DEF Falls
      <4> QED BY <3>1, <4>1 DEF InnerIn
    <3>7. PICK ws : ws = Without(vs, p, vs[c].key, j) OBVIOUS
    <3>8. Cut(vs, Without(vs, p, vs[c].key, j), s[1], lvl, lo, K, p)
      <4>1. Bare(vs, s[1], lvl, lo, K) /\ Filled(vs, {s[1], c}) BY <1>5, <1>11
      <4>2. p \in InnerIn(vs) /\ j \in Places(vs, p) BY <3>2, <3>3
      <4> QED BY ONLY <2>4, <3>2, <3>6, <4>1, <4>2, WithoutCuts
    <3>9. /\ Bare(ws, s[1], lvl, lo, K) /\ Filled(ws, {s[1], p}) /\ p \in UsedIn(ws)
          /\ \A x \in UsedIn(vs) : lvl[x] >= lvl[p] /\ x # p => ws[x] = vs[x]
      BY <3>7, <3>8 DEF Cut
    <3>10. u = [nodes |-> ws, at |-> p] BY <1>6, <2>2, <2>4, <3>5, <3>7
    <3>11. ASSUME NEW k \in 1 .. n - 1 - i PROVE ws[s[k]] = ns[s[k]]
      <4>1. k \in 1 .. m /\ k \in 1 .. n /\ k # m /\ k <= m BY <1>1, <1>2, <1>3
      <4>2. vs[s[k]] = ns[s[k]] /\ s[k] \in UsedIn(ns) BY <1>5, <1>9, <4>1
      <4>3. s[k] \in UsedIn(vs) BY <4>2 DEF UsedIn
      <4>4. s[k] # p BY <1>3, <1>4, <1>9, <4>1
      <4>5. lvl[s[k]] >= lvl[p]
        <5>1. \A a, b \in 1 .. n : a <= b => lvl[s[a]] >= lvl[s[b]] BY <1>1 DEF Falls
        <5> QED BY <1>3, <1>4, <4>1, <5>1
      <4> QED BY <3>9, <4>2, <4>3, <4>4, <4>5
    <3>12. ws \in [Blocks -> TreeNodes] BY <3>9 DEF Bare, IsTree, Typed
    <3>13. u \in Cuts BY <3>3, <3>10, <3>12 DEF Cuts
    <3>14. u.nodes = ws /\ u.at = p BY <3>10
    <3>15. p = s[Len(s) - i] BY <1>1, <1>2, <1>4
    <3>16. Shrunk(ns, s, lvl, lo, K, u, i) BY <1>1, <3>9, <3>11, <3>14, <3>15 DEF Shrunk
    <3> QED BY <3>13, <3>16
  <2> QED BY <2>3, <2>4
<1> QED BY <1>5, <1>10, <1>11

-----------------------------------------------------------------------------
(* internalRemoveLeafChildNode: the tree without the entry of key.         *)
LEMMA EntryGoes ==
  ASSUME NEW lvl, NEW lo, IsTree(nodes, rootFpos, lvl, lo), Room(nodes, rootFpos), NEW key \in Keys,
         Find(Path(key), key) # NoEntry
  PROVE  Cut(nodes, WithoutEntry(Last(Path(key)), key), rootFpos, lvl, lo, {f \in Kept(nodes) : f.key # key},
             Last(Path(key)))
<1>1. /\ Typed(nodes) /\ Levels(nodes, rootFpos, lvl) /\ Linked(nodes, rootFpos) /\ Ordered(nodes, lo)
      /\ Filled(nodes, {rootFpos}) /\ Flagged(nodes, rootFpos) /\ Limited(nodes)
      /\ nodes[rootFpos].leaf \/ Len(nodes[rootFpos].inner) > 1
  BY DEF IsTree, Room
<1>2. Branching(nodes)
  <2> SUFFICES ASSUME NEW x \in InnerIn(nodes) PROVE nodes[x].inner # <<>> BY DEF Branching
  <2>1. x \in UsedIn(nodes) /\ ~nodes[x].leaf BY DEF InnerIn
  <2>2. CASE x = rootFpos
    <3>1. Len(nodes[x].inner) > 1 BY <1>1, <2>1, <2>2
    <3>2. Len(nodes[x].inner) # 0 BY <3>1
    <3> QED BY <3>2
  <2> QED BY <1>1, <2>1, <2>2 DEF Filled
<1>3. PICK s, p, k : s = Path(key) /\ p = Last(s) /\ k = IndexOf(ChildKeys(nodes, p), key) OBVIOUS
<1>4. key \in Nat /\ key \in 0 .. Infinity BY NoNodeIs DEF Keys, Infinity
<1>5. Leads(nodes, lvl, rootFpos, key, s) BY <1>2, <1>3, <1>4, PathIs
<1>6. p \in UsedIn(nodes) /\ nodes[p].leaf /\ lvl[p] = 0 /\ p \in Blocks BY <1>1, <1>3, <1>4, <1>5, LeafOfPath DEF UsedIn
<1>7. k \in Places(nodes, p) /\ KeyAt(nodes, p, k) = key
  <2>1. k \in Places(nodes, p) BY <1>2, <1>3, FindIs
  <2>2. (k = 0 /\ \A i \in Places(nodes, p) : KeyAt(nodes, p, i) # key)
          \/ (k \in Places(nodes, p) /\ KeyAt(nodes, p, k) = key) BY <1>1, <1>3, <1>4, <1>6, IndexOfIs
  <2>3. k # 0 BY <2>1, <1>1, <1>6, FieldsAre DEF Places
  <2> QED BY <2>2, <2>3
<1>8. PICK inner : inner = nodes[p].inner OBVIOUS
<1>9. inner \in Seq(Children) /\ k \in 1 .. Len(inner) /\ nodes[p] \in TreeNodes
  BY <1>1, <1>6, <1>7, <1>8, FieldsAre DEF Places
<1>10. PICK rest : rest = RemoveAt(inner, k) OBVIOUS
<1>11. IsRemoval(nodes[p].inner, k, rest) BY <1>8, <1>9, <1>10, RemoveAtIs DEF IsRemoval
<1>12. PICK node : node = Save([nodes[p] EXCEPT !.inner = rest]) OBVIOUS
<1>13. /\ node \in TreeNodes /\ node.inner = rest /\ node.leaf = nodes[p].leaf /\ node.key = nodes[p].key
       /\ node.root = nodes[p].root
  <2>1. rest \in Seq(Children) BY <1>11 DEF IsRemoval
  <2> QED BY <1>9, <1>12, <2>1 DEF Save, TreeNodes
<1>14. PICK ws : ws = WithoutEntry(p, key) OBVIOUS
<1>15. ws = [nodes EXCEPT ![p] = node]
  <2>1. ws = [nodes EXCEPT ![p] = Save([nodes[p] EXCEPT !.inner = RemoveAt(nodes[p].inner, k)])]
    BY <1>3, <1>14 DEF WithoutEntry
  <2> QED BY <1>8, <1>10, <1>12, <2>1
<1>16. ws[p] = node /\ \A x \in Blocks : x # p => ws[x] = nodes[x] BY <1>1, <1>6, <1>15 DEF Typed
<1>17. Typed(ws) BY <1>1, <1>13, <1>15 DEF Typed
<1>18. Gone(nodes, p, k) = {} BY <1>6 DEF Gone
<1>19. IsGone(nodes, ws, p, k) BY <1>6, <1>7, <1>11, <1>13, <1>16, <1>17, <1>18 DEF IsGone
<1>20. ws[p].root = nodes[p].root BY <1>13, <1>16
<1>21. /\ UsedIn(ws) = UsedIn(nodes) /\ p \in UsedIn(ws)
       /\ \A x \in UsedIn(ws) : /\ x \in UsedIn(nodes) /\ ws[x].key = nodes[x].key /\ ws[x].leaf = nodes[x].leaf
                                /\ x # p => ws[x] = nodes[x]
  <2>1. IsTree(nodes, rootFpos, lvl, lo) OBVIOUS
  <2>2. /\ UsedIn(ws) = UsedIn(nodes) \ Gone(nodes, p, k) /\ p \in UsedIn(ws)
        /\ \A x \in UsedIn(ws) : /\ x \in UsedIn(nodes) /\ ws[x].key = nodes[x].key /\ ws[x].leaf = nodes[x].leaf
                                 /\ x # p => ws[x] = nodes[x]
    BY ONLY <1>19, <2>1, GoneNodes
  <2>3. UsedIn(nodes) \ Gone(nodes, p, k) = UsedIn(nodes) BY <1>18
  <2>4. UsedIn(ws) = UsedIn(nodes) BY ONLY <2>2, <2>3
  <2>5. p \in UsedIn(ws) BY <2>2
  <2>6. \A x \in UsedIn(ws) : /\ x \in UsedIn(nodes) /\ ws[x].key = nodes[x].key /\ ws[x].leaf = nodes[x].leaf
                              /\ x # p => ws[x] = nodes[x] BY <2>2
  <2> QED BY <2>4, <2>5, <2>6
<1>22. Levels(ws, rootFpos, lvl) /\ Linked(ws, rootFpos) /\ Ordered(ws, lo) BY <1>19, GoneKeepsLinks, GoneKeepsOrder
<1>23. Ends(ws, {}) BY <1>6, <1>19, GoneKeepsEnds
<1>24. Flagged(ws, rootFpos) /\ Limited(ws) /\ ws[rootFpos].key = Infinity BY <1>1, <1>19, <1>20, GoneKeepsRest
<1>25. Kept(ws) = {f \in Kept(nodes) : f.key # key} BY <1>5, <1>6, <1>7, <1>19, GoneKept
<1>26. IsTree(ws, rootFpos, lvl, lo) BY <1>17, <1>22, <1>23, <1>24 DEF IsTree
<1>27. rootFpos \in UsedIn(nodes) BY <1>1 DEF Levels
<1>28. ws[rootFpos].leaf \/ ws[rootFpos].inner # <<>>
  <2>1. CASE nodes[rootFpos].leaf BY <1>21, <1>27, <2>1
  <2>2. CASE ~nodes[rootFpos].leaf
    <3>1. rootFpos # p BY <1>6, <2>2
    <3>2. Len(nodes[rootFpos].inner) # 0 BY <1>1, <2>2
    <3>3. nodes[rootFpos].inner # <<>> BY <3>2
    <3> QED BY <1>21, <1>27, <3>1, <3>3
  <2> QED BY <2>1, <2>2
<1>29. Filled(ws, {rootFpos, p}) BY <1>1, <1>21 DEF Filled
<1>30. Bare(ws, rootFpos, lvl, lo, {f \in Kept(nodes) : f.key # key}) BY <1>24, <1>25, <1>26, <1>28 DEF Bare
<1>31. Cut(nodes, ws, rootFpos, lvl, lo, {f \in Kept(nodes) : f.key # key}, p) BY <1>21, <1>29, <1>30 DEF Cut
<1> QED BY <1>3, <1>14, <1>31

(* NodeCursor.remove up to internalRemoveRoot: the tree without the entry, *)
(* and no empty node but the root.                                         *)
LEMMA RemovedIs ==
  ASSUME NEW lvl, NEW lo, IsTree(nodes, rootFpos, lvl, lo), Room(nodes, rootFpos), NEW key \in Keys,
         Find(Path(key), key) # NoEntry
  PROVE  /\ Bare(Removed(Path(key), key), rootFpos, lvl, lo, {f \in Kept(nodes) : f.key # key})
         /\ Filled(Removed(Path(key), key), {rootFpos})
<1>1. PICK s, K, ws, p : /\ s = Path(key) /\ K = {f \in Kept(nodes) : f.key # key} /\ p = Last(s)
                         /\ ws = WithoutEntry(Last(s), key) OBVIOUS
<1>2. Cut(nodes, ws, rootFpos, lvl, lo, K, p) BY <1>1, EntryGoes
<1>3. /\ Typed(nodes) /\ Levels(nodes, rootFpos, lvl)
      /\ Filled(nodes, {rootFpos}) /\ (nodes[rootFpos].leaf \/ Len(nodes[rootFpos].inner) > 1)
  BY DEF IsTree, Room
<1>4. Branching(nodes)
  <2> SUFFICES ASSUME NEW x \in InnerIn(nodes) PROVE nodes[x].inner # <<>> BY DEF Branching
  <2>1. x \in UsedIn(nodes) /\ ~nodes[x].leaf BY DEF InnerIn
  <2>2. CASE x = rootFpos
    <3>1. Len(nodes[x].inner) > 1 BY <1>3, <2>1, <2>2
    <3>2. Len(nodes[x].inner) # 0 BY <3>1
    <3> QED BY <3>2
  <2> QED BY <1>3, <2>1, <2>2 DEF Filled
<1>5. key \in Nat /\ key \in 0 .. Infinity BY NoNodeIs DEF Keys, Infinity
<1>6. Leads(nodes, lvl, rootFpos, key, s) BY <1>1, <1>4, <1>5, PathIs
<1>7. Descends(nodes, rootFpos, s) BY <1>3, <1>6, PathDescends
<1>8. PICK n \in Nat : n = Len(s) /\ n > 0 /\ s[1] = rootFpos /\ s \in Seq(Blocks) BY <1>7 DEF Descends
<1>9. n - 1 \in Nat /\ Len(s) - 1 \in Nat /\ Len(s) - 0 = n /\ p = s[n] BY <1>1, <1>8 DEF Last
<1>10. Falls(nodes, lvl, s)
  <2>1. \A m, k \in 1 .. Len(s) : m <= k => lvl[s[m]] >= lvl[s[k]]
    <3> SUFFICES ASSUME NEW m \in 1 .. n, NEW k \in 1 .. n, m <= k PROVE lvl[s[m]] >= lvl[s[k]] BY <1>8
    <3>1. lvl[s[m]] = lvl[rootFpos] + 1 - m /\ lvl[s[k]] = lvl[rootFpos] + 1 - k BY <1>6, <1>8 DEF Leads
    <3>2. lvl[rootFpos] \in Nat BY <1>3, HeightsAre
    <3> QED BY <3>1, <3>2
  <2> QED BY <1>3, <1>7, <1>8, <2>1 DEF Falls
<1> DEFINE J == [i \in 0 .. n - 1 |-> {r \in Cuts : Shrunk(nodes, s, lvl, lo, K, r, i)}]
<1>11. PICK first : first = [nodes |-> ws, at |-> p] OBVIOUS
<1>12. first.nodes = ws /\ first.at = p BY <1>11
<1>13. /\ Bare(ws, s[1], lvl, lo, K) /\ p \in UsedIn(ws) /\ Filled(ws, {s[1], p})
       /\ \A x \in UsedIn(nodes) : lvl[x] >= lvl[p] /\ x # p => ws[x] = nodes[x]
  BY <1>2, <1>8 DEF Cut
<1>14. \A m \in 1 .. n - 1 : ws[s[m]] = nodes[s[m]]
  <2> SUFFICES ASSUME NEW m \in 1 .. n - 1 PROVE ws[s[m]] = nodes[s[m]] OBVIOUS
  <2>1. m \in 1 .. n /\ n \in 1 .. n /\ m # n /\ m <= n BY <1>8
  <2>2. s[m] \in UsedIn(nodes) /\ s[m] # s[n] BY <1>7, <1>8, <2>1 DEF Descends
  <2>3. lvl[s[m]] >= lvl[s[n]] BY <1>8, <1>10, <2>1 DEF Falls
  <2> QED BY <1>9, <1>13, <2>2, <2>3
<1>15. first \in J[0]
  <2>1. ws \in [Blocks -> TreeNodes] BY <1>13 DEF Bare, IsTree, Typed
  <2>2. p \in Blocks BY <1>13 DEF UsedIn
  <2>3. first \in Cuts BY <1>11, <2>1, <2>2 DEF Cuts
  <2>4. Shrunk(nodes, s, lvl, lo, K, first, 0) BY <1>8, <1>9, <1>12, <1>13, <1>14 DEF Shrunk
  <2>5. 0 \in 0 .. n - 1 BY <1>9
  <2> QED BY <2>3, <2>4, <2>5
<1>16. ASSUME NEW i \in 1 .. Len(s) - 1, NEW r \in J[i - 1] PROVE RemoveUp(s[Len(s) - i], r) \in J[i]
  <2>1. i - 1 \in 0 .. n - 1 /\ i \in 0 .. n - 1 BY <1>8
  <2>2. r \in Cuts /\ Shrunk(nodes, s, lvl, lo, K, r, i - 1) BY <1>16, <2>1
  <2>3. RemoveUp(s[Len(s) - i], r) \in Cuts /\ Shrunk(nodes, s, lvl, lo, K, RemoveUp(s[Len(s) - i], r), i)
    BY <1>10, <2>2, TurnCuts
  <2> QED BY <2>1, <2>3
<1>17. PICK r : r \in J[Len(s) - 1] /\ Removed(s, key) = r.nodes
  <2>1. [nodes |-> WithoutEntry(Last(s), key), at |-> Last(s)] \in J[0] BY <1>1, <1>11, <1>15
  <2>2. Len(s) - 1 \in Nat BY <1>9
  <2>3. \A i \in 1 .. Len(s) - 1 : \A r \in J[i - 1] : RemoveUp(s[Len(s) - i], r) \in J[i] BY <1>16
  <2> HIDE DEF J
  <2> QED BY ONLY <2>1, <2>2, <2>3, RemovedTurns
<1>18. Shrunk(nodes, s, lvl, lo, K, r, n - 1) BY <1>8, <1>9, <1>17
<1>19. Bare(r.nodes, s[1], lvl, lo, K) BY <1>18 DEF Shrunk
<1>20. Filled(r.nodes, {s[1]})
  <2>1. Len(s) - (n - 1) = 1 BY <1>8
  <2>2. Filled(r.nodes, {s[1]}) \/ (r.at = s[1] /\ Filled(r.nodes, {s[1], r.at})) BY <1>18, <2>1 DEF Shrunk
  <2>3. r.at = s[1] => {s[1], r.at} = {s[1]} OBVIOUS
  <2> QED BY <2>2, <2>3
<1> QED BY <1>1, <1>8, <1>17, <1>19, <1>20

-----------------------------------------------------------------------------
(* The flags of the nodes do not matter to the tree.                       *)
LEMMA AlikeIsTree ==
  ASSUME NEW vs, NEW root, NEW lvl, NEW lo, IsTree(vs, root, lvl, lo), NEW ws, Alike(vs, ws)
  PROVE  IsTree(ws, root, lvl, lo) /\ Kept(ws) = Kept(vs)
<1>1. /\ Typed(vs) /\ Levels(vs, root, lvl) /\ Linked(vs, root) /\ Ordered(vs, lo) /\ Ends(vs, {})
      /\ vs[root].key = Infinity BY DEF IsTree
<1>2. /\ Typed(ws) /\ UsedIn(ws) = UsedIn(vs)
      /\ \A x \in UsedIn(vs) : /\ ws[x].key = vs[x].key /\ ws[x].leaf = vs[x].leaf /\ ws[x].inner = vs[x].inner
                               /\ Places(ws, x) = Places(vs, x)
  BY DEF Alike, Places
<1>3. InnerIn(ws) = InnerIn(vs) BY <1>2 DEF InnerIn
<1>4. ASSUME NEW x \in UsedIn(vs), NEW i \in Places(vs, x)
      PROVE  KeyAt(ws, x, i) = KeyAt(vs, x, i)
  <2>1. ~vs[x].leaf => vs[x].inner[i] \in UsedIn(vs) /\ KeyAt(vs, x, i) = vs[vs[x].inner[i]].key
    BY <1>1, ChildrenAre
  <2>2. vs[x].leaf => KeyAt(vs, x, i) = vs[x].inner[i].key BY <1>1, ChildrenAre
  <2>3. KeyAt(ws, x, i) = IF vs[x].leaf THEN vs[x].inner[i].key ELSE ws[vs[x].inner[i]].key
    BY <1>2 DEF KeyAt, KeyOf
  <2> QED BY <1>2, <2>1, <2>2, <2>3
<1>5. Levels(ws, root, lvl) BY <1>1, <1>2 DEF Levels
<1>6. Linked(ws, root)
  <2>1. \A a, d \in InnerIn(vs) : \A e \in Places(vs, a), f \in Places(vs, d) :
          vs[a].inner[e] = vs[d].inner[f] => a = d /\ e = f BY <1>1 DEF Linked
  <2>2. \A c \in UsedIn(vs) \ {root} : \E p \in InnerIn(vs) : \E i \in Places(vs, p) : vs[p].inner[i] = c
    BY <1>1 DEF Linked
  <2>3. \A x \in InnerIn(vs) : Places(ws, x) = Places(vs, x) /\ ws[x].inner = vs[x].inner BY <1>2 DEF InnerIn
  <2> QED BY <1>2, <1>3, <2>1, <2>2, <2>3 DEF Linked
<1>7. Ordered(ws, lo)
  <2> SUFFICES ASSUME NEW x \in UsedIn(vs)
        PROVE  /\ \A i \in Places(vs, x) : lo[x] < KeyAt(ws, x, i) /\ KeyAt(ws, x, i) <= ws[x].key
               /\ \A i, k \in Places(vs, x) : i < k => KeyAt(ws, x, i) < KeyAt(ws, x, k)
               /\ ~ws[x].leaf => \A i \in Places(vs, x) :
                    /\ lo[x] <= lo[ws[x].inner[i]]
                    /\ i > 1 => KeyAt(ws, x, i - 1) <= lo[ws[x].inner[i]]
    BY <1>1, <1>2 DEF Ordered
  <2>1. /\ \A i \in Places(vs, x) : lo[x] < KeyAt(vs, x, i) /\ KeyAt(vs, x, i) <= vs[x].key
        /\ \A i, k \in Places(vs, x) : i < k => KeyAt(vs, x, i) < KeyAt(vs, x, k)
        /\ ~vs[x].leaf => \A i \in Places(vs, x) :
             /\ lo[x] <= lo[vs[x].inner[i]]
             /\ i > 1 => KeyAt(vs, x, i - 1) <= lo[vs[x].inner[i]]
    BY <1>1 DEF Ordered
  <2>2. \A i \in Places(vs, x) : i > 1 => i - 1 \in Places(vs, x) BY DEF Places
  <2>3. \A i \in Places(vs, x) : KeyAt(ws, x, i) = KeyAt(vs, x, i) BY <1>4
  <2> QED BY <1>2, <2>1, <2>2, <2>3
<1>8. Ends(ws, {})
  <2> SUFFICES ASSUME NEW x \in InnerIn(vs), vs[x].inner # <<>>
               PROVE  KeyAt(ws, x, Len(ws[x].inner)) = ws[x].key
    BY <1>2, <1>3 DEF Ends, InnerIn
  <2>1. x \in UsedIn(vs) BY DEF InnerIn
  <2>2. Len(vs[x].inner) \in Places(vs, x) BY <1>1, LastChildIs
  <2>3. KeyAt(vs, x, Len(vs[x].inner)) = vs[x].key BY <1>1 DEF Ends
  <2> QED BY <1>2, <1>4, <2>1, <2>2, <2>3
<1>9. root \in UsedIn(vs) BY <1>1 DEF Levels
<1>10. Kept(ws) = Kept(vs)
  <2>1. \A e : \A p \in UsedIn(vs) : \A i \in Places(vs, p) : HoldsAt(ws, e, p, i) <=> HoldsAt(vs, e, p, i)
    BY <1>2 DEF HoldsAt
  <2>2. \A e : (\E p \in UsedIn(ws) : \E i \in Places(ws, p) : HoldsAt(ws, e, p, i))
                <=> (\E p \in UsedIn(vs) : \E i \in Places(vs, p) : HoldsAt(vs, e, p, i))
    BY <1>2, <2>1
  <2> QED BY <2>2 DEF Kept
<1> QED BY <1>1, <1>2, <1>5, <1>6, <1>7, <1>8, <1>9, <1>10 DEF IsTree

(* Without a root that has one child, the child is the root of the rest.   *)
LEMMA RootGone ==
  ASSUME NEW vs, NEW root, NEW lvl, NEW lo, IsTree(vs, root, lvl, lo), NEW c, Lone(vs, root, c)
  PROVE  Lowered(vs, Topped(vs, root), root, c, lvl, lo)
<1>1. /\ Typed(vs) /\ Levels(vs, root, lvl) /\ Linked(vs, root) /\ Ordered(vs, lo) /\ Ends(vs, {})
      /\ vs[root].key = Infinity BY DEF IsTree
<1>2. root \in InnerIn(vs) /\ root \in UsedIn(vs) /\ root \in Blocks /\ ~vs[root].leaf /\ Len(vs[root].inner) = 1
      /\ vs[root].inner[1] = c BY DEF Lone, InnerIn, UsedIn
<1>3. 1 .. 1 = {1} OBVIOUS
<1>4. Places(vs, root) = {1} /\ 1 \in Places(vs, root) BY <1>2, <1>3 DEF Places
<1>5. c \in UsedIn(vs) /\ c \in Blocks /\ c # root /\ KeyAt(vs, root, 1) = vs[c].key /\ lvl[c] = lvl[root] - 1
  BY <1>1, <1>2, <1>4, ChildrenAre
<1>6. PICK ws : ws = Topped(vs, root) OBVIOUS
<1>7. ws = [vs EXCEPT ![root] = NoNode] BY <1>6 DEF Topped
<1>8. ws[root] = NoNode /\ \A x \in Blocks : x # root => ws[x] = vs[x] BY <1>1, <1>2, <1>7 DEF Typed
<1>9. Typed(ws)
  <2>1. NoNode \in TreeNodes BY NoNodeIs
  <2> QED BY <1>1, <1>7, <2>1 DEF Typed
<1>10. UsedIn(ws) = UsedIn(vs) \ {root} BY <1>8 DEF UsedIn
<1>11. \A x \in UsedIn(ws) : x \in UsedIn(vs) /\ x # root /\ ws[x] = vs[x] /\ Places(ws, x) = Places(vs, x)
  BY <1>8, <1>10 DEF UsedIn, Places
<1>12. InnerIn(ws) = InnerIn(vs) \ {root} BY <1>10, <1>11 DEF InnerIn
<1>13. \A a, d \in InnerIn(vs) : \A e \in Places(vs, a), f \in Places(vs, d) :
          vs[a].inner[e] = vs[d].inner[f] => a = d /\ e = f BY <1>1 DEF Linked
<1>14. ASSUME NEW x \in UsedIn(ws), NEW i \in Places(vs, x)
       PROVE  /\ KeyAt(ws, x, i) = KeyAt(vs, x, i)
              /\ ~vs[x].leaf => vs[x].inner[i] \in UsedIn(ws) /\ vs[x].inner[i] # c
  <2>1. x \in UsedIn(vs) /\ x # root /\ ws[x] = vs[x] BY <1>11
  <2>2. ~vs[x].leaf => /\ vs[x].inner[i] \in UsedIn(vs) /\ vs[x].inner[i] # root
                       /\ KeyAt(vs, x, i) = vs[vs[x].inner[i]].key BY <1>1, <2>1, ChildrenAre
  <2>3. vs[x].leaf => KeyAt(vs, x, i) = vs[x].inner[i].key BY <1>1, <2>1, ChildrenAre
  <2>4. KeyAt(ws, x, i) = IF vs[x].leaf THEN vs[x].inner[i].key ELSE ws[vs[x].inner[i]].key
    BY <2>1 DEF KeyAt, KeyOf
  <2>5. ~vs[x].leaf => vs[x].inner[i] \in UsedIn(ws) BY <1>10, <2>2
  <2>6. KeyAt(ws, x, i) = KeyAt(vs, x, i) BY <1>11, <2>2, <2>3, <2>4, <2>5
  <2>7. ~vs[x].leaf => vs[x].inner[i] # c
    <3> SUFFICES ASSUME ~vs[x].leaf, vs[x].inner[i] = c PROVE FALSE OBVIOUS
    <3>1. x \in InnerIn(vs) BY <2>1 DEF InnerIn
    <3>2. vs[x].inner[i] = vs[root].inner[1] BY <1>2
    <3> QED BY <1>2, <1>4, <1>13, <2>1, <3>1, <3>2
  <2> QED BY <2>5, <2>6, <2>7
<1>15. Levels(ws, c, lvl)
  <2>1. c \in UsedIn(ws) /\ lvl \in [Blocks -> Nat] BY <1>1, <1>5, <1>10 DEF Levels
  <2> SUFFICES ASSUME NEW x \in UsedIn(ws)
        PROVE  /\ ws[x].key # 0 /\ lvl[x] <= lvl[c] /\ (ws[x].leaf <=> lvl[x] = 0)
               /\ \A i \in Places(ws, x) :
                    IF ws[x].leaf THEN ws[x].inner[i] \in Entries
                    ELSE /\ ws[x].inner[i] \in UsedIn(ws) \ {c} /\ lvl[ws[x].inner[i]] = lvl[x] - 1
    BY <2>1 DEF Levels
  <2>2. x \in UsedIn(vs) /\ x # root /\ ws[x] = vs[x] /\ Places(ws, x) = Places(vs, x) BY <1>11
  <2>3. vs[x].key # 0 /\ (vs[x].leaf <=> lvl[x] = 0) /\ lvl[x] \in Nat /\ lvl[root] \in Nat /\ x \in Blocks
    BY <1>1, <1>2, <2>2 DEF Levels, UsedIn
  <2>4. lvl[x] <= lvl[c]
    <3>1. PICK q \in InnerIn(vs) : \E i \in Places(vs, q) :
           /\ vs[q].inner[i] = x /\ KeyAt(vs, q, i) = vs[x].key
           /\ q \in UsedIn(vs) /\ q \in Blocks /\ ~vs[q].leaf /\ lvl[q] = lvl[x] + 1 BY <1>1, <2>2, ParentIs
    <3>2. q \in UsedIn(vs) /\ lvl[q] = lvl[x] + 1 BY <3>1
    <3>3. lvl[q] <= lvl[root] BY <1>1, <3>2 DEF Levels
    <3> QED BY <1>5, <2>3, <3>2, <3>3
  <2>5. ASSUME NEW i \in Places(vs, x)
        PROVE  IF vs[x].leaf THEN vs[x].inner[i] \in Entries
               ELSE /\ vs[x].inner[i] \in UsedIn(ws) \ {c} /\ lvl[vs[x].inner[i]] = lvl[x] - 1
    <3>1. /\ vs[x].leaf => vs[x].inner[i] \in Entries
          /\ ~vs[x].leaf => lvl[vs[x].inner[i]] = lvl[x] - 1 BY <1>1, <2>2, ChildrenAre
    <3>2. ~vs[x].leaf => vs[x].inner[i] \in UsedIn(ws) /\ vs[x].inner[i] # c BY <1>14
    <3> QED BY <3>1, <3>2
  <2> QED BY <2>2, <2>3, <2>4, <2>5
<1>16. Linked(ws, c)
  <2>1. ASSUME NEW x \in UsedIn(ws) \ {c} PROVE \E p \in InnerIn(ws) : \E i \in Places(ws, p) : ws[p].inner[i] = x
    <3>1. x \in UsedIn(vs) \ {root} BY <1>11
    <3>2. PICK p \in InnerIn(vs) : \E i \in Places(vs, p) : vs[p].inner[i] = x BY <1>1, <3>1 DEF Linked
    <3>3. PICK i \in Places(vs, p) : vs[p].inner[i] = x BY <3>2
    <3>4. p # root
      <4> SUFFICES ASSUME p = root PROVE FALSE OBVIOUS
      <4>1. i = 1 BY <1>4, <3>3
      <4> QED BY <1>2, <3>3, <4>1
    <3>5. p \in InnerIn(ws) /\ p \in UsedIn(ws) BY <1>12, <3>4 DEF InnerIn
    <3>6. ws[p] = vs[p] /\ Places(ws, p) = Places(vs, p) BY <1>11, <3>5
    <3> QED BY <3>3, <3>5, <3>6
  <2>2. \A x \in InnerIn(ws) : x \in InnerIn(vs) /\ ws[x] = vs[x] /\ Places(ws, x) = Places(vs, x)
    BY <1>11, <1>12 DEF InnerIn
  <2>3. \A a, d \in InnerIn(ws) : \A e \in Places(ws, a), f \in Places(ws, d) :
          ws[a].inner[e] = ws[d].inner[f] => a = d /\ e = f BY <1>13, <2>2
  <2> QED BY <2>1, <2>3 DEF Linked
<1>17. Ordered(ws, lo)
  <2> SUFFICES ASSUME NEW x \in UsedIn(ws)
        PROVE  /\ \A i \in Places(ws, x) : lo[x] < KeyAt(ws, x, i) /\ KeyAt(ws, x, i) <= ws[x].key
               /\ \A i, k \in Places(ws, x) : i < k => KeyAt(ws, x, i) < KeyAt(ws, x, k)
               /\ ~ws[x].leaf => \A i \in Places(ws, x) :
                    /\ lo[x] <= lo[ws[x].inner[i]]
                    /\ i > 1 => KeyAt(ws, x, i - 1) <= lo[ws[x].inner[i]]
    BY <1>1 DEF Ordered
  <2>1. x \in UsedIn(vs) /\ ws[x] = vs[x] /\ Places(ws, x) = Places(vs, x) BY <1>11
  <2>2. /\ \A i \in Places(vs, x) : lo[x] < KeyAt(vs, x, i) /\ KeyAt(vs, x, i) <= vs[x].key
        /\ \A i, k \in Places(vs, x) : i < k => KeyAt(vs, x, i) < KeyAt(vs, x, k)
        /\ ~vs[x].leaf => \A i \in Places(vs, x) :
             /\ lo[x] <= lo[vs[x].inner[i]]
             /\ i > 1 => KeyAt(vs, x, i - 1) <= lo[vs[x].inner[i]]
    BY <1>1, <2>1 DEF Ordered
  <2>3. \A i \in Places(vs, x) : i > 1 => i - 1 \in Places(vs, x) BY DEF Places
  <2>4. \A i \in Places(vs, x) : KeyAt(ws, x, i) = KeyAt(vs, x, i) BY <1>14
  <2> QED BY <2>1, <2>2, <2>3, <2>4
<1>18. Ends(ws, {})
  <2> SUFFICES ASSUME NEW x \in InnerIn(ws), ws[x].inner # <<>>
               PROVE  KeyAt(ws, x, Len(ws[x].inner)) = ws[x].key BY DEF Ends
  <2>1. x \in UsedIn(ws) /\ x \in InnerIn(vs) BY <1>12 DEF InnerIn
  <2>2. ws[x] = vs[x] BY <1>11, <2>1
  <2>3. Len(vs[x].inner) \in Places(vs, x) BY <1>1, <2>1, <2>2, LastChildIs
  <2>4. KeyAt(vs, x, Len(vs[x].inner)) = vs[x].key BY <1>1, <2>1, <2>2 DEF Ends
  <2> QED BY <1>14, <2>1, <2>2, <2>3, <2>4
<1>19. ws[c].key = Infinity
  <2>1. Len(vs[root].inner) # 0 BY <1>2
  <2>2. vs[root].inner # <<>> BY <2>1
  <2>3. KeyAt(vs, root, 1) = vs[root].key BY <1>1, <1>2, <2>2 DEF Ends
  <2> QED BY <1>1, <1>5, <1>8, <2>3
<1>20. Kept(ws) = Kept(vs)
  <2>1. ASSUME NEW e, NEW p \in UsedIn(vs), NEW i \in Places(vs, p), HoldsAt(vs, e, p, i)
        PROVE  p \in UsedIn(ws) /\ i \in Places(ws, p) /\ HoldsAt(ws, e, p, i)
    <3>1. p # root BY <1>2, <2>1 DEF HoldsAt
    <3>2. p \in UsedIn(ws) /\ ws[p] = vs[p] /\ Places(ws, p) = Places(vs, p) BY <1>10, <1>11, <3>1
    <3> QED BY <2>1, <3>2 DEF HoldsAt
  <2>2. ASSUME NEW e, NEW p \in UsedIn(ws), NEW i \in Places(ws, p), HoldsAt(ws, e, p, i)
        PROVE  p \in UsedIn(vs) /\ i \in Places(vs, p) /\ HoldsAt(vs, e, p, i)
    <3>1. p \in UsedIn(vs) /\ ws[p] = vs[p] /\ Places(ws, p) = Places(vs, p) BY <1>11
    <3> QED BY <2>2, <3>1 DEF HoldsAt
  <2>3. \A e : (\E p \in UsedIn(ws) : \E i \in Places(ws, p) : HoldsAt(ws, e, p, i))
                <=> (\E p \in UsedIn(vs) : \E i \in Places(vs, p) : HoldsAt(vs, e, p, i))
    BY <2>1, <2>2
  <2> QED BY <2>3 DEF Kept
<1>21. IsTree(ws, c, lvl, lo) BY <1>9, <1>15, <1>16, <1>17, <1>18, <1>19 DEF IsTree
<1> QED BY <1>6, <1>10, <1>20, <1>21 DEF Lowered

-----------------------------------------------------------------------------
(* One more node above.                                                    *)
LEMMA LonelyAbove ==
  ASSUME NEW vs, NEW lvl, NEW p \in UsedIn(vs), NEW q, Lone(vs, p, q), lvl[p] \in Nat, lvl[q] = lvl[p] - 1,
         NEW t, Lonely(vs, lvl, q, t)
  PROVE  Lonely(vs, lvl, p, <<p>> \o t)
<1>1. PICK m \in Nat : m = Len(t) /\ m > 0 BY DEF Lonely
<1>2. /\ t \in Seq(Blocks) /\ t[1] = q
      /\ \A i \in 1 .. m : t[i] \in UsedIn(vs) /\ lvl[t[i]] = lvl[q] + 1 - i
      /\ \A i \in 1 .. m - 1 : Lone(vs, t[i], t[i + 1])
      /\ vs[t[m]].leaf \/ Len(vs[t[m]].inner) # 1 BY <1>1 DEF Lonely
<1>3. p \in Blocks BY DEF UsedIn
<1> DEFINE s == <<p>> \o t
<1>4. s \in Seq(Blocks) /\ Len(s) = m + 1 /\ s[1] = p /\ \A i \in 2 .. m + 1 : s[i] = t[i - 1]
  <2>1. <<p>> \in Seq(Blocks) /\ Len(<<p>>) = 1 /\ <<p>>[1] = p BY <1>3
  <2> QED BY <1>1, <1>2, <2>1, ConcatProperties
<1> HIDE DEF s
<1>5. ASSUME NEW i \in 1 .. m + 1 PROVE s[i] \in UsedIn(vs) /\ lvl[s[i]] = lvl[p] + 1 - i
  <2>1. CASE i = 1 BY <1>4, <2>1
  <2>2. CASE i # 1
    <3>1. i - 1 \in 1 .. m /\ i \in 2 .. m + 1 /\ i \in Nat BY <2>2
    <3>2. s[i] = t[i - 1] BY <1>4, <3>1
    <3>3. t[i - 1] \in UsedIn(vs) /\ lvl[t[i - 1]] = lvl[q] + 1 - (i - 1) BY <1>2, <3>1
    <3>4. lvl[q] + 1 - (i - 1) = lvl[p] + 1 - i BY <3>1
    <3> QED BY <3>2, <3>3, <3>4
  <2> QED BY <2>1, <2>2
<1>6. ASSUME NEW i \in 1 .. m PROVE Lone(vs, s[i], s[i + 1])
  <2>1. CASE i = 1
    <3>1. s[2] = t[1] BY <1>1, <1>4
    <3> QED BY <1>2, <1>4, <2>1, <3>1
  <2>2. CASE i # 1
    <3>1. i \in 2 .. m + 1 /\ i + 1 \in 2 .. m + 1 /\ (i + 1) - 1 = (i - 1) + 1 /\ i - 1 \in 1 .. m - 1 BY <2>2
    <3>2. s[i] = t[i - 1] /\ s[i + 1] = t[(i - 1) + 1] BY <1>4, <3>1
    <3> QED BY <1>2, <3>1, <3>2
  <2> QED BY <2>1, <2>2
<1>7. s[m + 1] = t[m]
  <2>1. m + 1 \in 2 .. m + 1 /\ (m + 1) - 1 = m BY <1>1
  <2> QED BY <1>4, <2>1
<1>8. Len(s) - 1 = m /\ Len(s) \in Nat /\ Len(s) > 0 BY <1>4
<1>9. Lonely(vs, lvl, p, s) BY <1>2, <1>4, <1>5, <1>6, <1>7, <1>8 DEF Lonely
<1> QED BY <1>9 DEF s

(* internalRemoveRoot follows the only children from the root.             *)
LEMMA CollapsedIs ==
  ASSUME NEW vs, NEW root, NEW lvl, Typed(vs), Levels(vs, root, lvl)
  PROVE  \E s : Lonely(vs, lvl, root, s) /\ Collapsed(vs, root) = Lowest(vs, s)
<1> DEFINE V == Seq(Blocks)
           ChainAt(D, x) == IF vs[x].leaf \/ Len(vs[x].inner) # 1 THEN <<x>> ELSE <<x>> \o D[vs[x].inner[1]]
           G == [r \in [Blocks -> V] \X Blocks |-> ChainAt(r[1], r[2])]
           IsDown(f) == f = [p \in Blocks |->
             IF vs[p].leaf \/ Len(vs[p].inner) # 1 THEN <<p>> ELSE <<p>> \o f[vs[p].inner[1]]]
           Down == CHOOSE f : IsDown(f)
           n == lvl[root]
           h == Heights(vs, lvl)
           ends(x) == vs[x].leaf \/ Len(vs[x].inner) # 1
           q(x) == vs[x].inner[1]
<1>1. n \in Nat /\ h \in [Blocks -> 0 .. n] /\ V # {}
  <2>1. <<>> \in V OBVIOUS
  <2>2. V # {} BY <2>1
  <2> QED BY <2>2, HeightsAre
<1>2. \A x \in Blocks : ~ends(x) => /\ x \in UsedIn(vs) /\ Lone(vs, x, q(x)) /\ q(x) \in UsedIn(vs) /\ q(x) \in Blocks
                                    /\ lvl[q(x)] = lvl[x] - 1 /\ lvl[x] \in Nat /\ h[q(x)] < h[x]
  <2> SUFFICES ASSUME NEW x \in Blocks, ~ends(x)
               PROVE  /\ x \in UsedIn(vs) /\ Lone(vs, x, q(x)) /\ q(x) \in UsedIn(vs) /\ q(x) \in Blocks
                      /\ lvl[q(x)] = lvl[x] - 1 /\ lvl[x] \in Nat /\ h[q(x)] < h[x] OBVIOUS
  <2>1. x \in InnerIn(vs) /\ x \in UsedIn(vs) BY NoNodeIs DEF InnerIn, UsedIn
  <2>2. Lone(vs, x, q(x)) BY <2>1 DEF Lone
  <2>3. 1 \in Places(vs, x)
    <3>1. 1 \in 1 .. 1 OBVIOUS
    <3> QED BY <3>1 DEF Places
  <2>4. q(x) \in UsedIn(vs) /\ q(x) \in Blocks /\ lvl[q(x)] = lvl[x] - 1 BY <2>1, <2>3, ChildrenAre
  <2>5. lvl[x] \in Nat BY DEF Levels
  <2>6. h[x] = lvl[x] /\ h[q(x)] = lvl[q(x)] BY <2>1, <2>4 DEF Heights
  <2> HIDE DEF h, q, ends
  <2> QED BY <2>1, <2>2, <2>4, <2>5, <2>6
<1>3. Gives(Blocks, V, G)
  <2> SUFFICES ASSUME NEW f \in [Blocks -> V], NEW x \in Blocks PROVE G[<<f, x>>] \in V BY DEF Gives
  <2>1. G[<<f, x>>] = IF ends(x) THEN <<x>> ELSE <<x>> \o f[q(x)] OBVIOUS
  <2>2. ~ends(x) => f[q(x)] \in V BY <1>2
  <2> HIDE DEF G, h, ends, q
  <2> QED BY <2>1, <2>2
<1>4. LooksDown(Blocks, V, h, G)
  <2> SUFFICES ASSUME NEW f \in [Blocks -> V], NEW g \in [Blocks -> V], NEW x \in Blocks,
                      \A y \in Blocks : h[y] < h[x] => f[y] = g[y]
               PROVE  G[<<f, x>>] = G[<<g, x>>] BY DEF LooksDown
  <2>1. /\ G[<<f, x>>] = IF ends(x) THEN <<x>> ELSE <<x>> \o f[q(x)]
        /\ G[<<g, x>>] = IF ends(x) THEN <<x>> ELSE <<x>> \o g[q(x)] OBVIOUS
  <2> HIDE DEF G, h, V, ends, q
  <2>2. ~ends(x) => f[q(x)] = g[q(x)] BY <1>2
  <2> QED BY <2>1, <2>2
<1>5. PICK f \in [Blocks -> V] : \A x \in Blocks : f[x] = G[<<f, x>>]
  <2> HIDE DEF V, G, n, h
  <2>1. PICK f \in [Blocks -> V] : Solves(f, Blocks, G) BY <1>1, <1>3, <1>4, LevelsDefine
  <2> QED BY <2>1 DEF Solves
<1>6. IsDown(f)
  <2>1. \A x \in Blocks : f[x] = ChainAt(f, x) BY <1>5
  <2>2. f = [x \in Blocks |-> f[x]] OBVIOUS
  <2> HIDE DEF ChainAt
  <2>3. f = [x \in Blocks |-> ChainAt(f, x)] BY <2>1, <2>2
  <2> QED BY <2>3 DEF ChainAt
<1>7. IsDown(Down)
  <2> HIDE DEF IsDown
  <2> QED BY <1>6
<1>8. Collapsed(vs, root) = Lowest(vs, Down[root]) BY DEF Collapsed, Lowest
<1> HIDE DEF Down
<1>9. \A x \in Blocks : Down[x] = IF ends(x) THEN <<x>> ELSE <<x>> \o Down[q(x)]
  <2> HIDE DEF ChainAt
  <2>1. Down = [x \in Blocks |-> ChainAt(Down, x)] BY <1>7 DEF ChainAt
  <2>2. \A x \in Blocks : Down[x] = ChainAt(Down, x) BY <2>1
  <2> QED BY <2>2 DEF ChainAt
<1> DEFINE T == {k \in Nat : \A x \in UsedIn(vs) : lvl[x] = k => Lonely(vs, lvl, x, Down[x])}
<1> HIDE DEF G, h, ChainAt, IsDown
<1>10. ASSUME NEW x \in UsedIn(vs), ends(x) PROVE Lonely(vs, lvl, x, Down[x])
  <2>1. x \in Blocks /\ lvl[x] \in Nat BY DEF UsedIn, Levels
  <2>2. Down[x] = <<x>>
    <3> HIDE DEF ends, q
    <3> QED BY <1>9, <1>10, <2>1
  <2>3. <<x>> \in Seq(Blocks) /\ Len(<<x>>) = 1 /\ <<x>>[1] = x BY <2>1
  <2>4. 1 .. 1 = {1} /\ 1 .. 1 - 1 = {} OBVIOUS
  <2>5. PICK s : s = <<x>> OBVIOUS
  <2>6. s \in Seq(Blocks) /\ Len(s) = 1 /\ s[1] = x BY <2>3, <2>5
  <2>7. Lonely(vs, lvl, x, s) BY <1>10, <2>1, <2>4, <2>6 DEF Lonely
  <2> QED BY <2>2, <2>5, <2>7
<1>11. ASSUME NEW x \in UsedIn(vs), ~ends(x), Lonely(vs, lvl, q(x), Down[q(x)]) PROVE Lonely(vs, lvl, x, Down[x])
  <2>1. x \in Blocks BY DEF UsedIn
  <2>2. PICK c, t : c = q(x) /\ t = Down[c] OBVIOUS
  <2>3. Down[x] = <<x>> \o t
    <3> HIDE DEF ends, q
    <3> QED BY <1>9, <1>11, <2>1, <2>2
  <2>4. Lone(vs, x, c) /\ lvl[x] \in Nat /\ lvl[c] = lvl[x] - 1 BY <1>2, <1>11, <2>1, <2>2
  <2>5. Lonely(vs, lvl, c, t) BY <1>11, <2>2
  <2>6. Lonely(vs, lvl, x, <<x>> \o t) BY <2>4, <2>5, LonelyAbove
  <2> QED BY <2>3, <2>6
<1>12. 0 \in T
  <2> SUFFICES ASSUME NEW x \in UsedIn(vs), lvl[x] = 0 PROVE Lonely(vs, lvl, x, Down[x]) OBVIOUS
  <2>1. ends(x) BY DEF Levels
  <2> HIDE DEF ends, q
  <2> QED BY <1>10, <2>1
<1>13. ASSUME NEW k \in Nat, k \in T PROVE k + 1 \in T
  <2> SUFFICES ASSUME NEW x \in UsedIn(vs), lvl[x] = k + 1 PROVE Lonely(vs, lvl, x, Down[x]) OBVIOUS
  <2>1. CASE ends(x)
    <3> HIDE DEF ends, q
    <3> QED BY <1>10, <2>1
  <2>2. CASE ~ends(x)
    <3>1. x \in Blocks BY DEF UsedIn
    <3>2. q(x) \in UsedIn(vs) /\ lvl[q(x)] = lvl[x] - 1 BY <1>2, <2>2, <3>1
    <3>3. lvl[q(x)] = k BY <3>2
    <3> HIDE DEF ends, q
    <3>4. Lonely(vs, lvl, q(x), Down[q(x)]) BY <1>13, <3>2, <3>3
    <3> QED BY <1>11, <2>2, <3>4
  <2> QED BY <2>1, <2>2
<1>14. lvl[root] \in T
  <2>1. lvl[root] \in Nat BY <1>1
  <2> HIDE DEF T
  <2> QED BY <1>12, <1>13, <2>1, NatUpwards
<1>15. root \in UsedIn(vs) BY DEF Levels
<1>16. Lonely(vs, lvl, root, Down[root]) BY <1>14, <1>15
<1> QED BY <1>8, <1>16

-----------------------------------------------------------------------------
(* The tree hangs together below each of the only children.                *)
LEMMA HeadlessIsTree ==
  ASSUME NEW vs, NEW root, NEW lvl, NEW lo, IsTree(vs, root, lvl, lo), NEW s, Lonely(vs, lvl, root, s),
         NEW n \in Nat, n = Len(s)
  PROVE  /\ IsTree(Headless(vs, s, n - 1), s[n], lvl, lo) /\ Kept(Headless(vs, s, n - 1)) = Kept(vs)
         /\ Headless(vs, s, n - 1)[s[n]] = vs[s[n]]
<1>1. /\ s \in Seq(Blocks) /\ n > 0 /\ s[1] = root
      /\ \A i \in 1 .. n : s[i] \in UsedIn(vs) /\ lvl[s[i]] = lvl[root] + 1 - i
      /\ \A i \in 1 .. n - 1 : Lone(vs, s[i], s[i + 1]) BY DEF Lonely
<1>2. Typed(vs) /\ lvl[root] \in Nat BY HeightsAre DEF IsTree
<1>3. \A i, k \in 1 .. n : s[i] = s[k] => i = k
  <2> SUFFICES ASSUME NEW i \in 1 .. n, NEW k \in 1 .. n, s[i] = s[k] PROVE i = k OBVIOUS
  <2>1. lvl[s[i]] = lvl[root] + 1 - i /\ lvl[s[k]] = lvl[root] + 1 - k BY <1>1
  <2>2. lvl[root] + 1 - i = lvl[root] + 1 - k BY <2>1
  <2> QED BY <1>2, <2>2
<1>4. \A m \in 0 .. n - 1 : Headless(vs, s, m)[s[m + 1]] = vs[s[m + 1]]
  <2> SUFFICES ASSUME NEW m \in 0 .. n - 1 PROVE Headless(vs, s, m)[s[m + 1]] = vs[s[m + 1]] OBVIOUS
  <2>1. m + 1 \in 1 .. n /\ \A i \in 1 .. m : i \in 1 .. n /\ i # m + 1 OBVIOUS
  <2>2. s[m + 1] \notin {s[i] : i \in 1 .. m} BY <1>3, <2>1
  <2>3. s[m + 1] \in Blocks BY <1>1, <2>1 DEF UsedIn
  <2> QED BY <2>2, <2>3 DEF Headless
<1> DEFINE T == {m \in Nat : m <= n - 1 =>
                   IsTree(Headless(vs, s, m), s[m + 1], lvl, lo) /\ Kept(Headless(vs, s, m)) = Kept(vs)}
<1>5. 0 \in T
  <2>1. {s[i] : i \in 1 .. 0} = {} OBVIOUS
  <2>2. vs = [x \in Blocks |-> vs[x]] BY <1>2 DEF Typed
  <2>3. Headless(vs, s, 0) = vs BY <2>1, <2>2 DEF Headless
  <2> QED BY <1>1, <2>3
<1>6. ASSUME NEW m \in Nat, m \in T PROVE m + 1 \in T
  <2> SUFFICES ASSUME m + 1 <= n - 1
               PROVE  /\ IsTree(Headless(vs, s, m + 1), s[(m + 1) + 1], lvl, lo)
                      /\ Kept(Headless(vs, s, m + 1)) = Kept(vs) OBVIOUS
  <2>1. m \in 0 .. n - 1 /\ m + 1 \in 1 .. n - 1 /\ m + 1 \in 1 .. n BY <1>1
  <2>2. PICK us, r, c : us = Headless(vs, s, m) /\ r = s[m + 1] /\ c = s[(m + 1) + 1] OBVIOUS
  <2>3. IsTree(us, r, lvl, lo) /\ Kept(us) = Kept(vs) BY <1>6, <2>1, <2>2
  <2>4. us[r] = vs[r] /\ r \in Blocks /\ Lone(vs, r, c) BY <1>1, <1>4, <2>1, <2>2 DEF UsedIn
  <2>5. Lone(us, r, c) BY <2>4 DEF Lone, InnerIn, UsedIn
  <2>6. Lowered(us, Topped(us, r), r, c, lvl, lo) BY <2>3, <2>5, RootGone
  <2>7. Headless(vs, s, m + 1) = Topped(us, r)
    <3>1. 1 .. m + 1 = (1 .. m) \cup {m + 1} BY <2>1
    <3>2. \A x : x \in {s[i] : i \in 1 .. m + 1} <=> x \in {s[i] : i \in 1 .. m} \/ x = r BY <2>2, <3>1
    <3>3. \A x \in Blocks : Headless(vs, s, m + 1)[x] = IF x = r THEN NoNode ELSE us[x]
      BY <2>2, <3>2 DEF Headless
    <3>4. Headless(vs, s, m + 1) = [x \in Blocks |-> Headless(vs, s, m + 1)[x]] BY DEF Headless
    <3>5. us = [x \in Blocks |-> us[x]] BY <2>2 DEF Headless
    <3>6. Topped(us, r) = [x \in Blocks |-> IF x = r THEN NoNode ELSE us[x]] BY <2>4, <3>5 DEF Topped
    <3> QED BY <3>3, <3>4, <3>6
  <2>8. IsTree(Topped(us, r), c, lvl, lo) /\ Kept(Topped(us, r)) = Kept(us) BY <2>6 DEF Lowered
  <2> QED BY <2>2, <2>3, <2>7, <2>8
<1>7. n - 1 \in T
  <2>1. n - 1 \in Nat BY <1>1
  <2> HIDE DEF T
  <2> QED BY <1>5, <1>6, <2>1, NatUpwards
<1>8. n - 1 \in 0 .. n - 1 /\ (n - 1) + 1 = n BY <1>1
<1> QED BY <1>4, <1>7, <1>8

(* internalRemoveRoot: the tree below the only children, with what it held. *)
LEMMA LowestGrows ==
  ASSUME NEW vs, NEW root, NEW lvl, NEW lo, NEW K, Bare(vs, root, lvl, lo, K), Filled(vs, {root}),
         NEW s, Lonely(vs, lvl, root, s)
  PROVE  Grown(Lowest(vs, s).nodes, Lowest(vs, s).root, K)
<1>1. /\ IsTree(vs, root, lvl, lo) /\ Kept(vs) = K /\ Flagged(vs, root) /\ Limited(vs) /\ Typed(vs)
      /\ vs[root].leaf \/ vs[root].inner # <<>> BY DEF Bare, IsTree
<1>2. PICK n \in Nat : n = Len(s) BY DEF Lonely
<1>3. PICK r, ws, us : r = s[n] /\ ws = Headless(vs, s, n - 1) /\ us = Lowest(vs, s).nodes OBVIOUS
<1>4. IsTree(ws, r, lvl, lo) /\ Kept(ws) = K /\ ws[r] = vs[r]
  <2>1. Lonely(vs, lvl, root, s) /\ IsTree(vs, root, lvl, lo) BY <1>1
  <2>2. /\ IsTree(Headless(vs, s, n - 1), s[n], lvl, lo) /\ Kept(Headless(vs, s, n - 1)) = Kept(vs)
        /\ Headless(vs, s, n - 1)[s[n]] = vs[s[n]] BY ONLY <1>2, <2>1, HeadlessIsTree
  <2> QED BY <1>1, <1>3, <2>2
<1>5. /\ s \in Seq(Blocks) /\ n > 0 /\ s[1] = root
      /\ \A i \in 1 .. n : s[i] \in UsedIn(vs) /\ s[i] \in Blocks
      /\ vs[r].leaf \/ Len(vs[r].inner) # 1 BY <1>2, <1>3 DEF Lonely, UsedIn
<1>6. Last(s) = r /\ Lowest(vs, s).root = r BY <1>2, <1>3 DEF Last, Lowest
<1>7. r \in UsedIn(vs) /\ r \in Blocks /\ vs[r] \in TreeNodes
  <2>1. n \in 1 .. n BY <1>5
  <2>2. r \in UsedIn(vs) /\ r \in Blocks BY <1>3, <1>5, <2>1
  <2> QED BY <1>1, <2>2 DEF Typed
<1>8. PICK node : node = [vs[r] EXCEPT !.root = TRUE] OBVIOUS
<1>9. /\ node \in TreeNodes /\ node.root = TRUE /\ node.key = vs[r].key /\ node.leaf = vs[r].leaf
      /\ node.inner = vs[r].inner BY <1>7, <1>8 DEF TreeNodes
<1>10. \A x \in Blocks : x # r => (x \in ToSet(s) <=> x \in {s[i] : i \in 1 .. n - 1})
  <2> SUFFICES ASSUME NEW x \in Blocks, x # r PROVE x \in ToSet(s) <=> x \in {s[i] : i \in 1 .. n - 1} OBVIOUS
  <2>1. ToSet(s) = {s[i] : i \in 1 .. n} BY <1>2, <1>5 DEF ToSet
  <2>2. 1 .. n = (1 .. n - 1) \cup {n} BY <1>5
  <2> QED BY <1>3, <2>1, <2>2
<1>11. us = [x \in Blocks |-> IF x = r THEN node ELSE ws[x]]
  <2>1. us = [x \in Blocks |-> IF x = r THEN [vs[x] EXCEPT !.root = TRUE]
                               ELSE IF x \in ToSet(s) THEN NoNode ELSE vs[x]] BY <1>3, <1>6 DEF Lowest
  <2>2. \A x \in Blocks : us[x] = IF x = r THEN node ELSE IF x \in ToSet(s) THEN NoNode ELSE vs[x]
    BY <1>8, <2>1
  <2>3. \A x \in Blocks : ws[x] = IF x \in {s[i] : i \in 1 .. n - 1} THEN NoNode ELSE vs[x] BY <1>3 DEF Headless
  <2>4. \A x \in Blocks : us[x] = IF x = r THEN node ELSE ws[x] BY <1>10, <2>2, <2>3
  <2>5. us = [x \in Blocks |-> us[x]] BY <2>1
  <2> QED BY <2>4, <2>5
<1>12. us[r] = node /\ \A x \in Blocks : x # r => us[x] = ws[x] BY <1>7, <1>11
<1>13. Typed(us) BY <1>4, <1>9, <1>11 DEF Typed, IsTree
<1>14. vs[r].key # 0 BY <1>1, <1>7 DEF IsTree, Levels
<1>15. UsedIn(us) = UsedIn(ws)
  <2>1. node # NoNode /\ vs[r] # NoNode BY <1>9, <1>14, NoNodeIs
  <2> QED BY <1>4, <1>12, <2>1 DEF UsedIn
<1>16. \A x \in UsedIn(ws) : us[x].key = ws[x].key /\ us[x].leaf = ws[x].leaf /\ us[x].inner = ws[x].inner
  BY <1>4, <1>9, <1>12 DEF UsedIn
<1>17. IsTree(us, r, lvl, lo) /\ Kept(us) = K
  <2>1. Alike(ws, us) BY <1>13, <1>15, <1>16 DEF Alike
  <2> QED BY <1>4, <2>1, AlikeIsTree
<1>18. \A x \in UsedIn(us) : /\ x \in UsedIn(vs) /\ us[x].inner = vs[x].inner /\ us[x].leaf = vs[x].leaf
                             /\ x # r => x # root /\ us[x] = vs[x]
  <2> SUFFICES ASSUME NEW x \in UsedIn(us)
               PROVE  /\ x \in UsedIn(vs) /\ us[x].inner = vs[x].inner /\ us[x].leaf = vs[x].leaf
                      /\ x # r => x # root /\ us[x] = vs[x] OBVIOUS
  <2>1. CASE x = r BY <1>7, <1>9, <1>12, <2>1
  <2>2. CASE x # r
    <3>1. x \in Blocks /\ us[x] # NoNode /\ us[x] = ws[x] BY <1>12, <2>2 DEF UsedIn
    <3>2. x \notin {s[i] : i \in 1 .. n - 1} /\ us[x] = vs[x] BY <1>3, <3>1 DEF Headless
    <3>3. x # root
      <4> SUFFICES ASSUME x = root PROVE FALSE OBVIOUS
      <4>1. x = s[1] BY <1>5
      <4>2. n # 1 BY <1>3, <2>2, <4>1
      <4>3. 1 \in 1 .. n - 1 BY <1>5, <4>2
      <4> QED BY <3>2, <4>1, <4>3
    <3> QED BY <2>2, <3>1, <3>2, <3>3 DEF UsedIn
  <2> QED BY <2>1, <2>2
<1>19. Filled(us, {r}) BY <1>18 DEF Filled
<1>20. us[r].leaf \/ Len(us[r].inner) > 1
  <2> SUFFICES ASSUME ~vs[r].leaf PROVE Len(vs[r].inner) > 1 BY <1>9, <1>12
  <2>1. vs[r].inner # <<>>
    <3>1. CASE r = root BY <1>1, <3>1
    <3>2. CASE r # root BY <1>7, <3>2 DEF Filled
    <3> QED BY <3>1, <3>2
  <2>2. Len(vs[r].inner) # 0 /\ Len(vs[r].inner) \in Nat BY <1>1, <1>7, <2>1, FieldsAre
  <2>3. PICK l \in Nat : l = Len(vs[r].inner) BY <2>2
  <2>4. l # 0 /\ l # 1 BY <1>5, <2>2, <2>3
  <2>5. l > 1 BY <2>4
  <2> QED BY <2>3, <2>5
<1>21. Flagged(us, r)
  <2> SUFFICES ASSUME NEW x \in UsedIn(us) PROVE us[x].root <=> x = r BY DEF Flagged
  <2>1. CASE x = r BY <1>9, <1>12, <2>1
  <2>2. CASE x # r BY <1>1, <1>18, <2>2 DEF Flagged
  <2> QED BY <2>1, <2>2
<1>22. Limited(us) BY <1>1, <1>18 DEF Limited
<1>23. Room(us, r) BY <1>19, <1>20, <1>21, <1>22 DEF Room
<1>24. lvl \in [Blocks -> Nat] /\ lo \in [Blocks -> Nat] BY <1>17 DEF IsTree, Levels, Ordered
<1>25. Grown(us, r, K) BY <1>17, <1>23, <1>24 DEF Grown
<1> QED BY <1>3, <1>6, <1>25

(* Btree.remove keeps the tree and takes off the one key.                  *)
LEMMA RemoveKeeps ==
  ASSUME TreeInv, NEW key \in Keys, RemoveKey(key)
  PROVE  header' \in Blocks /\ Grown(nodes', rootFpos', {f \in Kept(nodes) : f.key # key})
<1>1. header \in Blocks /\ Room(nodes, rootFpos) BY DEF TreeInv, Room
<1>2. \E l, d \in [Blocks -> Nat] : IsTree(nodes, rootFpos, l, d) BY DEF TreeInv
<1>3. PICK lvl, lo : IsTree(nodes, rootFpos, lvl, lo) BY <1>2
<1>4. header' = header /\ Find(Path(key), key) # NoEntry BY DEF RemoveKey
<1>5. PICK ns, c, K : /\ ns = Removed(Path(key), key) /\ c = Collapsed(ns, rootFpos)
                      /\ K = {f \in Kept(nodes) : f.key # key} OBVIOUS
<1>6. nodes' = c.nodes /\ rootFpos' = c.root BY <1>5 DEF RemoveKey
<1>7. Bare(ns, rootFpos, lvl, lo, K) /\ Filled(ns, {rootFpos}) BY <1>1, <1>3, <1>4, <1>5, RemovedIs
<1>8. Typed(ns) /\ Levels(ns, rootFpos, lvl) BY <1>7 DEF Bare, IsTree
<1>9. PICK s : Lonely(ns, lvl, rootFpos, s) /\ Collapsed(ns, rootFpos) = Lowest(ns, s) BY <1>8, CollapsedIs
<1>10. Grown(Lowest(ns, s).nodes, Lowest(ns, s).root, K) BY ONLY <1>7, <1>9, LowestGrows
<1>11. Grown(c.nodes, c.root, K) BY <1>5, <1>9, <1>10
<1> QED BY <1>1, <1>4, <1>5, <1>6, <1>11

-----------------------------------------------------------------------------
(* Btree.create: an empty leaf is the root.                                *)
LEMMA InitTree == Init => TreeInv /\ Kept(nodes) = {}
<1> SUFFICES ASSUME Init PROVE TreeInv /\ Kept(nodes) = {} OBVIOUS
<1>1. /\ nodes = [b \in Blocks |-> IF b = 1 THEN TreeNode(TRUE, TRUE, Infinity, <<>>) ELSE NoNode]
      /\ rootFpos = 1 /\ header = 1 BY DEF Init
<1>2. 1 \in Blocks
  <2>1. MaxBlocks \in Nat \ {0} BY BtreeAssumption
  <2> QED BY <2>1 DEF Blocks
<1>3. PICK n : n = TreeNode(TRUE, TRUE, Infinity, <<>>) OBVIOUS
<1>4. /\ n \in TreeNodes /\ n.root = TRUE /\ n.leaf = TRUE /\ n.key = Infinity /\ n.inner = <<>>
      /\ n.key # 0
  <2>1. n = [root |-> TRUE, saved |-> TRUE, leaf |-> TRUE, key |-> Infinity, inner |-> <<>>] BY <1>3 DEF TreeNode
  <2>2. <<>> \in Seq(Children) OBVIOUS
  <2>3. Infinity \in 0 .. Infinity /\ Infinity # 0 BY NoNodeIs DEF Infinity
  <2> QED BY <2>1, <2>2, <2>3 DEF TreeNodes
<1>5. n # NoNode BY <1>4, NoNodeIs
<1>6. nodes[1] = n /\ \A b \in Blocks : b # 1 => nodes[b] = NoNode BY <1>1, <1>2, <1>3
<1>7. UsedIn(nodes) = {1} /\ InnerIn(nodes) = {} BY <1>2, <1>4, <1>5, <1>6 DEF UsedIn, InnerIn
<1>8. Typed(nodes)
  <2>1. NoNode \in TreeNodes BY NoNodeIs
  <2>2. nodes = [b \in Blocks |-> IF b = 1 THEN n ELSE NoNode] BY <1>1, <1>3
  <2> QED BY <1>4, <2>1, <2>2 DEF Typed
<1>9. Places(nodes, 1) = {}
  <2>1. Len(<<>>) = 0 /\ 1 .. 0 = {} OBVIOUS
  <2> QED BY <1>4, <1>6, <2>1 DEF Places
<1>10. PICK z : z = [b \in Blocks |-> 0] OBVIOUS
<1>11. z \in [Blocks -> Nat] /\ z[1] = 0 BY <1>2, <1>10
<1>12. IsTree(nodes, 1, z, z)
  <2>1. Levels(nodes, 1, z) BY <1>4, <1>6, <1>7, <1>9, <1>11 DEF Levels
  <2>2. Linked(nodes, 1) BY <1>7 DEF Linked
  <2>3. Ordered(nodes, z) BY <1>7, <1>9, <1>11 DEF Ordered
  <2>4. Ends(nodes, {}) BY <1>7 DEF Ends
  <2> QED BY <1>4, <1>6, <1>8, <2>1, <2>2, <2>3, <2>4 DEF IsTree
<1>13. Filled(nodes, {1}) /\ Flagged(nodes, 1) BY <1>4, <1>6, <1>7 DEF Filled, Flagged
<1>14. Limited(nodes)
  <2>1. Len(<<>>) <= NodeNumber BY NoNodeIs
  <2> QED BY <1>4, <1>6, <1>7, <2>1 DEF Limited
<1>15. Kept(nodes) = {} BY <1>7, <1>9 DEF Kept
<1> QED BY <1>1, <1>2, <1>4, <1>6, <1>11, <1>12, <1>13, <1>14, <1>15 DEF TreeInv

(* BtreeStorage.close and open: while the header and the flags on disk     *)
(* are up to date the tree is the one that was closed.                     *)
LEMMA ReopenKeeps == TreeInv /\ SafeReopen /\ Reopen => UNCHANGED vars
<1> SUFFICES ASSUME TreeInv, SafeReopen, Reopen PROVE UNCHANGED vars OBVIOUS
<1>1. /\ header = rootFpos /\ \A b \in Used : nodes[b].saved = nodes[b].root
      /\ nodes' = [b \in Blocks |-> IF b \in Used THEN [nodes[b] EXCEPT !.root = nodes[b].saved] ELSE NoNode]
      /\ rootFpos' = header /\ header' = header /\ scan' = scan BY DEF Reopen
<1>2. Typed(nodes) BY DEF TreeInv, IsTree
<1>3. ASSUME NEW b \in Blocks PROVE nodes'[b] = nodes[b]
  <2>1. nodes'[b] = IF b \in Used THEN [nodes[b] EXCEPT !.root = nodes[b].saved] ELSE NoNode BY <1>1
  <2>2. CASE b \notin Used BY <2>1, <2>2 DEF Used
  <2>3. CASE b \in Used
    <3>1. PICK n \in TreeNodes : n = nodes[b] BY <1>2 DEF Typed
    <3>2. nodes'[b] = [n EXCEPT !.root = n.saved] /\ n.saved = n.root BY <1>1, <2>1, <2>3, <3>1
    <3>3. [n EXCEPT !.root = n.root] = n BY <3>1 DEF TreeNodes
    <3> QED BY <3>1, <3>2, <3>3
  <2> QED BY <2>2, <2>3
<1>4. nodes = [b \in Blocks |-> nodes[b]] BY <1>2 DEF Typed
<1>5. nodes' = [b \in Blocks |-> nodes'[b]] BY <1>1
<1>6. nodes' = nodes BY <1>3, <1>4, <1>5
<1> QED BY <1>1, <1>6 DEF vars

(* The invariant says that the tree has grown, also of the next state.     *)
LEMMA NextGrown ==
  ASSUME NEW K, header' \in Blocks, Grown(nodes', rootFpos', K)
  PROVE  TreeInv' /\ Kept(nodes') = K
BY DEF TreeInv, Grown, Room

(* A step keeps the tree well formed.                                      *)
LEMMA TreeKeeps == TreeInv /\ SafeReopen /\ [Next]_vars => TreeInv'
<1> SUFFICES ASSUME TreeInv, SafeReopen, [Next]_vars PROVE TreeInv' OBVIOUS
<1>1. ASSUME NEW key \in Keys, RemoveKey(key) PROVE TreeInv' BY <1>1, RemoveKeeps, NextGrown
<1>2. ASSUME NEW key \in Keys, NEW val \in Values, PutData(key, val) PROVE TreeInv' BY <1>2, PutKeeps, NextGrown
<1>3. ASSUME UNCHANGED <<nodes, rootFpos, header>> PROVE TreeInv' BY <1>3 DEF TreeInv
<1>4. ASSUME NEW dir, NEW from, Begin(dir, from) PROVE TreeInv' BY <1>3, <1>4 DEF Begin
<1>5. CASE HasNext BY <1>3, <1>5 DEF HasNext
<1>6. CASE Reopen
  <2>1. UNCHANGED vars BY <1>6, ReopenKeeps
  <2> QED BY <1>3, <2>1 DEF vars
<1>7. CASE UNCHANGED vars BY <1>3, <1>7 DEF vars
<1> QED BY <1>1, <1>2, <1>4, <1>5, <1>6, <1>7 DEF Next

(* The tree is well formed in every state.                                 *)
THEOREM TreeStays == ASSUME SafeReopen PROVE Spec => []TreeInv
<1>1. Init => TreeInv BY InitTree
<1>2. TreeInv /\ [Next]_vars => TreeInv' BY TreeKeeps
<1> QED BY <1>1, <1>2, PTL DEF Spec

(* findByKey finds every entry of the tree, and nothing else, after every  *)
(* sequence of insertions and removals.                                    *)
THEOREM SearchIsRight == ASSUME SafeReopen PROVE Spec => []SearchFindsAll
BY TreeStays, TreeSearchFindsAll, PTL

-----------------------------------------------------------------------------
(* The lower bounds rise on the way down.                                  *)
LEMMA LowRises ==
  ASSUME NEW ns, NEW root, NEW lvl, NEW lo, IsTree(ns, root, lvl, lo), NEW key, NEW s, Leads(ns, lvl, root, key, s)
  PROVE  \A m, k \in 1 .. Len(s) : m <= k => lo[s[m]] <= lo[s[k]]
<1>1. Typed(ns) /\ Levels(ns, root, lvl) /\ Ordered(ns, lo) BY DEF IsTree
<1>2. PICK n \in Nat : n = lvl[root] + 1
  <2>1. lvl[root] \in Nat BY <1>1, HeightsAre
  <2> QED BY <2>1
<1>3. Len(s) = n /\ n >= 1 /\ \A i \in 1 .. n : s[i] \in UsedIn(ns) /\ s[i] \in Blocks /\ lo[s[i]] \in Nat
  <2>1. lvl[root] \in Nat BY <1>1, HeightsAre
  <2> QED BY <1>1, <1>2, <2>1 DEF Leads, UsedIn, Ordered
<1>4. ASSUME NEW i \in 1 .. n - 1 PROVE lo[s[i]] <= lo[s[i + 1]]
  <2>1. i + 1 \in 1 .. n /\ i \in 1 .. n BY <1>2
  <2>2. i \in 1 .. Len(s) - 1 /\ i \in 1 .. Len(s) BY <1>3, <2>1
  <2>3. PICK c \in Places(ns, s[i]) : s[i + 1] = ns[s[i]].inner[c] BY <2>2 DEF Leads, Goes
  <2>4. ~ns[s[i]].leaf
    <3>1. lvl[s[i]] = lvl[root] + 1 - i /\ lvl[root] \in Nat BY <1>1, <2>2, HeightsAre DEF Leads
    <3>2. lvl[s[i]] # 0 BY <1>2, <3>1
    <3> QED BY <1>1, <1>3, <2>1, <3>2 DEF Levels
  <2> QED BY <1>1, <1>3, <2>1, <2>3, <2>4 DEF Ordered
<1> DEFINE T == {d \in Nat : \A m \in 1 .. n : m + d <= n => lo[s[m]] <= lo[s[m + d]]}
<1>5. 0 \in T
  <2> SUFFICES ASSUME NEW m \in 1 .. n PROVE lo[s[m]] <= lo[s[m + 0]] OBVIOUS
  <2> QED BY <1>3
<1>6. ASSUME NEW d \in Nat, d \in T PROVE d + 1 \in T
  <2> SUFFICES ASSUME NEW m \in 1 .. n, m + (d + 1) <= n PROVE lo[s[m]] <= lo[s[m + (d + 1)]] OBVIOUS
  <2>1. m + d <= n /\ m + d \in 1 .. n - 1 /\ m + d \in 1 .. n /\ m + (d + 1) = (m + d) + 1 /\ (m + d) + 1 \in 1 .. n BY <1>2
  <2>2. lo[s[m]] <= lo[s[m + d]] BY <1>6, <2>1
  <2>3. lo[s[m + d]] <= lo[s[(m + d) + 1]] BY <1>4, <2>1
  <2> QED BY <1>3, <2>1, <2>2, <2>3
<1>7. Nat \subseteq T
  <2> HIDE DEF T
  <2> QED BY <1>5, <1>6, NatUpwards
<1> QED
  <2> SUFFICES ASSUME NEW m \in 1 .. n, NEW k \in 1 .. n, m <= k PROVE lo[s[m]] <= lo[s[k]] BY <1>3
  <2>1. k - m \in Nat /\ m + (k - m) = k /\ m + (k - m) <= n BY <1>2
  <2>2. k - m \in T BY <1>7, <2>1
  <2> QED BY <2>1, <2>2

(* An entry between a node's bounds is in it or below the child it goes to. *)
LEMMA EntryUnder ==
  ASSUME NEW lvl, NEW lo, IsTree(nodes, rootFpos, lvl, lo), Branching(nodes),
         NEW e \in Kept(nodes), NEW p \in UsedIn(nodes), lo[p] < e.key, e.key <= nodes[p].key
  PROVE  /\ nodes[p].leaf => \E j \in Places(nodes, p) : nodes[p].inner[j] = e /\ KeyAt(nodes, p, j) = e.key
         /\ ~nodes[p].leaf => \E j \in Places(nodes, p) :
                                 Goes(nodes, p, e.key, j) /\ lo[nodes[p].inner[j]] < e.key
<1>1. Typed(nodes) /\ Levels(nodes, rootFpos, lvl) /\ Ordered(nodes, lo) BY DEF IsTree
<1>2. PICK x \in UsedIn(nodes) : \E k \in Places(nodes, x) : HoldsAt(nodes, e, x, k) BY DEF Kept
<1>3. PICK k \in Places(nodes, x) : HoldsAt(nodes, e, x, k) BY <1>2
<1>4. e \in Entries /\ KeyAt(nodes, x, k) = e.key /\ e.key \in Nat /\ nodes[x].leaf /\ nodes[x].inner[k] = e
  BY <1>1, <1>3, ChildrenAre DEF HoldsAt, Kept
<1>5. PICK s : s = Path(e.key) OBVIOUS
<1>6. e.key \in 0 .. Infinity
  <2>1. e.key \in Keys BY <1>4 DEF Entries
  <2> QED BY <2>1, NoNodeIs DEF Keys, Infinity
<1>7. Leads(nodes, lvl, rootFpos, e.key, s) BY <1>5, <1>6, PathIs
<1>8. x = Last(s) BY <1>3, <1>4, <1>7, EntryIs
<1>9. Last(s) = s[Len(s)] /\ Len(s) \in Nat /\ Len(s) > 0 BY <1>1, <1>4, <1>7, LeafOfPath
<1>10. lvl[p] \in 0 .. lvl[rootFpos] /\ s[lvl[rootFpos] + 1 - lvl[p]] = p BY <1>4, <1>7, PathThrough
<1>11. lvl[rootFpos] \in Nat /\ Len(s) = lvl[rootFpos] + 1 BY <1>1, <1>7, HeightsAre DEF Leads
<1>12. CASE nodes[p].leaf
  <2>1. lvl[p] = 0 BY <1>1, <1>12 DEF Levels
  <2>2. lvl[rootFpos] + 1 - lvl[p] = Len(s) BY <1>11, <2>1
  <2>3. p = x BY <1>8, <1>9, <1>10, <2>2
  <2> QED BY <1>3, <1>4, <1>12, <2>3
<1>13. CASE ~nodes[p].leaf
  <2>1. lvl[p] # 0 BY <1>1, <1>13 DEF Levels
  <2>2. PICK m \in 1 .. Len(s) - 1 : m = lvl[rootFpos] + 1 - lvl[p] BY <1>10, <1>11, <2>1
  <2>3. s[m] = p BY <1>10, <2>2
  <2>4. PICK c : c = NextChild(ChildKeys(nodes, p), e.key) OBVIOUS
  <2>5. Goes(nodes, p, e.key, c) /\ s[m + 1] = nodes[p].inner[c] BY <1>7, <2>2, <2>3, <2>4 DEF Leads
  <2>6. m + 1 \in 1 .. Len(s) /\ Len(s) \in 1 .. Len(s) /\ m + 1 <= Len(s) BY <1>9, <2>2
  <2>7. lo[s[m + 1]] <= lo[s[Len(s)]] BY <1>7, <2>6, LowRises
  <2>8. lo[x] < e.key BY <1>1, <1>3, <1>4 DEF Ordered
  <2>9. lo[x] \in Nat /\ lo[nodes[p].inner[c]] \in Nat
    <3>1. c \in Places(nodes, p) BY <2>5 DEF Goes
    <3>2. nodes[p].inner[c] \in Blocks BY <1>1, <1>13, <3>1, ChildrenAre
    <3> QED BY <1>1, <3>2 DEF Ordered, UsedIn
  <2>10. lo[nodes[p].inner[c]] < e.key BY <1>4, <1>8, <1>9, <2>5, <2>7, <2>8, <2>9
  <2>11. c \in Places(nodes, p) BY <2>5 DEF Goes
  <2> QED BY <1>13, <2>5, <2>10, <2>11
<1>14. nodes[p].leaf \in BOOLEAN BY <1>1, FieldsAre DEF UsedIn
<1> QED BY <1>12, <1>13, <1>14

(* The bounds are numbers; a child is above the place before it.           *)
LEMMA BoundIs ==
  ASSUME NEW lvl, NEW lo, IsTree(nodes, rootFpos, lvl, lo), NEW p \in UsedIn(nodes)
  PROVE  /\ lo[p] \in Nat /\ nodes[p].key \in Nat /\ Len(nodes[p].inner) \in Nat
         /\ \A k \in 0 .. Len(nodes[p].inner) : Bound(lo, p, k) \in Nat /\ lo[p] <= Bound(lo, p, k)
         /\ \A k \in Places(nodes, p) : /\ Bound(lo, p, k) = KeyAt(nodes, p, k) /\ KeyAt(nodes, p, k) \in Nat
                                        /\ KeyAt(nodes, p, k) <= nodes[p].key
                                        /\ k - 1 \in 0 .. Len(nodes[p].inner)
                                        /\ Bound(lo, p, k - 1) < KeyAt(nodes, p, k)
                                        /\ ~nodes[p].leaf => Bound(lo, p, k - 1) <= lo[nodes[p].inner[k]]
<1>1. Typed(nodes) /\ Levels(nodes, rootFpos, lvl) /\ Ordered(nodes, lo) BY DEF IsTree
<1>2. p \in Blocks /\ lo[p] \in Nat /\ nodes[p].key \in Nat /\ Len(nodes[p].inner) \in Nat
  BY <1>1, FieldsAre DEF UsedIn, Ordered
<1>3. \A k \in Places(nodes, p) : /\ KeyAt(nodes, p, k) \in Nat /\ KeyAt(nodes, p, k) <= nodes[p].key
                                  /\ lo[p] < KeyAt(nodes, p, k)
  BY <1>1, ChildrenAre DEF Ordered
<1>4. ASSUME NEW k \in 0 .. Len(nodes[p].inner) PROVE Bound(lo, p, k) \in Nat /\ lo[p] <= Bound(lo, p, k)
  <2>1. k # 0 => k \in Places(nodes, p) BY <1>2 DEF Places
  <2> QED BY <1>2, <1>3, <2>1 DEF Bound
<1>5. ASSUME NEW k \in Places(nodes, p)
      PROVE  /\ Bound(lo, p, k) = KeyAt(nodes, p, k) /\ k - 1 \in 0 .. Len(nodes[p].inner)
             /\ Bound(lo, p, k - 1) < KeyAt(nodes, p, k)
             /\ ~nodes[p].leaf => Bound(lo, p, k - 1) <= lo[nodes[p].inner[k]]
  <2>1. k \in 1 .. Len(nodes[p].inner) BY DEF Places
  <2>2. k # 0 /\ k - 1 \in 0 .. Len(nodes[p].inner) /\ (k > 1 <=> k - 1 # 0) BY <1>2, <2>1
  <2>3. k > 1 => k - 1 \in Places(nodes, p) /\ k - 1 < k BY <1>2, <2>1 DEF Places
  <2>4. k > 1 => KeyAt(nodes, p, k - 1) < KeyAt(nodes, p, k) BY <1>1, <2>3 DEF Ordered
  <2>5. ~nodes[p].leaf => lo[p] <= lo[nodes[p].inner[k]] /\ (k > 1 => KeyAt(nodes, p, k - 1) <= lo[nodes[p].inner[k]])
    BY <1>1 DEF Ordered
  <2> QED BY <1>3, <2>2, <2>4, <2>5 DEF Bound
<1> QED BY <1>2, <1>3, <1>4, <1>5

(* The keys of entries.                                                    *)
LEMMA KeptKeys ==
  ASSUME NEW lvl, NEW lo, IsTree(nodes, rootFpos, lvl, lo), NEW e \in Kept(nodes)
  PROVE  /\ e \in Entries /\ e.key \in Keys /\ e.key \in Nat /\ e.key > 0 /\ e.key < Infinity
         /\ lo[rootFpos] < e.key /\ nodes[rootFpos].key = Infinity /\ rootFpos \in UsedIn(nodes)
<1>1. Typed(nodes) /\ Levels(nodes, rootFpos, lvl) /\ Ordered(nodes, lo) /\ nodes[rootFpos].key = Infinity BY DEF IsTree
<1>2. PICK x \in UsedIn(nodes) : \E k \in Places(nodes, x) : HoldsAt(nodes, e, x, k) BY DEF Kept
<1>3. PICK k \in Places(nodes, x) : HoldsAt(nodes, e, x, k) BY <1>2
<1>4. e \in Entries /\ KeyAt(nodes, x, k) = e.key /\ e.key \in Nat /\ nodes[x].leaf
  BY <1>1, <1>3, ChildrenAre DEF HoldsAt, Kept
<1>5. e.key \in Keys BY <1>4 DEF Entries
<1>6. e.key > 0 /\ e.key < Infinity BY <1>5, NoNodeIs DEF Keys, Infinity
<1>7. rootFpos \in UsedIn(nodes) BY <1>1 DEF Levels
<1>8. x \in Below(rootFpos) BY BelowRoot
<1>9. Within(lo, rootFpos) BY <1>7, BelowHolds
<1>10. lo[rootFpos] < KeyAt(nodes, x, k) BY <1>3, <1>4, <1>8, <1>9 DEF Within
<1> QED BY <1>1, <1>4, <1>5, <1>6, <1>7, <1>10

(* No entry is between the child before a child and what is below it.      *)
LEMMA GapBelow ==
  ASSUME NEW lvl, NEW lo, Stands(lvl, lo), NEW p \in InnerIn(nodes), NEW i \in Places(nodes, p), NEW e \in Kept(nodes)
  PROVE  Bound(lo, p, i - 1) < e.key <=> lo[nodes[p].inner[i]] < e.key
<1>1. IsTree(nodes, rootFpos, lvl, lo) /\ Branching(nodes) BY DEF Stands
<1>2. Typed(nodes) /\ Levels(nodes, rootFpos, lvl) /\ Ordered(nodes, lo) BY <1>1 DEF IsTree
<1>3. p \in UsedIn(nodes) /\ ~nodes[p].leaf BY DEF InnerIn
<1>4. PICK q : q = nodes[p].inner[i] OBVIOUS
<1>5. q \in UsedIn(nodes) /\ q # rootFpos /\ KeyAt(nodes, p, i) = nodes[q].key BY <1>2, <1>3, <1>4, ChildrenAre
<1>6. e.key \in Nat BY <1>1, KeptKeys
<1>7. lo[q] \in Nat /\ Len(nodes[q].inner) \in Nat /\ nodes[q].key \in Nat BY <1>1, <1>5, BoundIs
<1>8. /\ Bound(lo, p, i - 1) \in Nat /\ lo[p] <= Bound(lo, p, i - 1) /\ Bound(lo, p, i - 1) <= lo[q] /\ lo[p] \in Nat
      /\ KeyAt(nodes, p, i) <= nodes[p].key /\ nodes[p].key \in Nat
  BY <1>1, <1>3, <1>4, BoundIs
<1>9. lo[q] < nodes[q].key
  <2>1. nodes[q].inner # <<>> BY <1>5 DEF Stands, Filled
  <2>2. q \in Blocks BY <1>5 DEF UsedIn
  <2>3. Len(nodes[q].inner) # 0 BY <1>2, <2>1, <2>2, FieldsAre
  <2>4. 1 \in Places(nodes, q) BY <1>7, <2>3 DEF Places
  <2>5. lo[q] < KeyAt(nodes, q, 1) /\ KeyAt(nodes, q, 1) <= nodes[q].key /\ KeyAt(nodes, q, 1) \in Nat
    BY <1>2, <1>5, <2>4, ChildrenAre DEF Ordered
  <2> QED BY <1>7, <2>5
<1>10. ASSUME Bound(lo, p, i - 1) < e.key, ~(lo[q] < e.key) PROVE FALSE
  <2>1. lo[p] < e.key /\ e.key <= nodes[p].key /\ e.key <= KeyAt(nodes, p, i)
    BY <1>5, <1>6, <1>7, <1>8, <1>9, <1>10
  <2>2. PICK j \in Places(nodes, p) : Goes(nodes, p, e.key, j) /\ lo[nodes[p].inner[j]] < e.key
    BY <1>1, <1>3, <2>1, EntryUnder
  <2>3. Goes(nodes, p, e.key, i)
    <3>1. i > 1 => Bound(lo, p, i - 1) = KeyAt(nodes, p, i - 1) BY DEF Bound, Places
    <3> QED BY <1>10, <2>1, <3>1 DEF Goes
  <2>4. NextChild(ChildKeys(nodes, p), e.key) = i /\ NextChild(ChildKeys(nodes, p), e.key) = j
    BY <1>2, <1>3, <1>6, <2>2, <2>3, NextChildIs
  <2> QED BY <1>4, <1>10, <2>2, <2>4
<1> QED BY <1>4, <1>6, <1>7, <1>8, <1>10

(* No entry is between the last child of a node and the node's key.        *)
LEMMA GapAbove ==
  ASSUME NEW lvl, NEW lo, Stands(lvl, lo), NEW p \in UsedIn(nodes), NEW e \in Kept(nodes)
  PROVE  Bound(lo, p, Len(nodes[p].inner)) < e.key <=> nodes[p].key < e.key
<1>1. IsTree(nodes, rootFpos, lvl, lo) /\ Branching(nodes) BY DEF Stands
<1>2. Typed(nodes) /\ Levels(nodes, rootFpos, lvl) /\ Ordered(nodes, lo) /\ Ends(nodes, {}) BY <1>1 DEF IsTree
<1>3. p \in Blocks BY DEF UsedIn
<1>4. PICK n \in Nat : n = Len(nodes[p].inner) BY <1>2, <1>3, FieldsAre
<1>5. /\ e.key \in Nat /\ e.key < Infinity /\ nodes[rootFpos].key = Infinity /\ Infinity \in Nat
  BY <1>1, KeptKeys, NoNodeIs
<1>6. lo[p] \in Nat /\ nodes[p].key \in Nat /\ Bound(lo, p, n) \in Nat /\ lo[p] <= Bound(lo, p, n)
  <2>1. n \in 0 .. n OBVIOUS
  <2> QED BY <1>1, <1>4, <2>1, BoundIs
<1>7. CASE nodes[p].leaf
  <2>1. Bound(lo, p, n) < e.key /\ ~(nodes[p].key < e.key) => FALSE
    <3> SUFFICES ASSUME Bound(lo, p, n) < e.key, e.key <= nodes[p].key PROVE FALSE BY <1>5, <1>6
    <3>1. lo[p] < e.key BY <1>5, <1>6
    <3>2. PICK j \in Places(nodes, p) : KeyAt(nodes, p, j) = e.key BY <1>1, <1>7, <3>1, EntryUnder
    <3>3. j \in 1 .. n /\ n # 0 /\ n \in Places(nodes, p) BY <1>4 DEF Places
    <3>4. KeyAt(nodes, p, j) <= KeyAt(nodes, p, n)
      <4>1. j = n \/ j < n BY <3>3
      <4>2. KeyAt(nodes, p, n) \in Nat BY <1>2, <3>3, ChildrenAre
      <4> QED BY <1>2, <1>5, <3>2, <3>3, <4>1, <4>2 DEF Ordered
    <3>5. Bound(lo, p, n) = KeyAt(nodes, p, n) BY <3>3 DEF Bound
    <3> QED BY <1>5, <1>6, <3>2, <3>4, <3>5
  <2>2. nodes[p].key < e.key => Bound(lo, p, n) < e.key
    <3>1. CASE n = 0
      <4>0. nodes[p].inner \in Seq(Children) BY <1>2, <1>3, FieldsAre
      <4>3. PICK u \in Seq(Children) : u = nodes[p].inner BY <4>0
      <4>4. Len(u) = 0 BY <1>4, <3>1, <4>3
      <4>5. u = <<>> BY ONLY <4>4, u \in Seq(Children)
      <4>1. nodes[p].inner = <<>> BY <4>3, <4>5
      <4>2. p = rootFpos BY <4>1 DEF Stands, Filled
      <4> QED BY <1>5, <4>2
    <3>2. CASE n # 0
      <4>1. n \in Places(nodes, p) BY <1>4, <3>2 DEF Places
      <4>2. Bound(lo, p, n) <= nodes[p].key BY <1>1, <4>1, BoundIs
      <4> QED BY <1>5, <1>6, <4>2
    <3> QED BY <3>1, <3>2
  <2> QED BY <1>4, <2>1, <2>2
<1>8. CASE ~nodes[p].leaf
  <2>1. p \in InnerIn(nodes) BY <1>8 DEF InnerIn
  <2>2. nodes[p].inner # <<>> BY <1>1, <2>1 DEF Branching
  <2>3. n # 0 BY <1>2, <1>3, <1>4, <2>2, FieldsAre
  <2>4. KeyAt(nodes, p, n) = nodes[p].key BY <1>2, <1>4, <2>1, <2>2 DEF Ends
  <2> QED BY <1>4, <2>3, <2>4 DEF Bound
<1>9. nodes[p].leaf \in BOOLEAN BY <1>2, <1>3, FieldsAre
<1> QED BY <1>7, <1>8, <1>9

(* In a leaf no entry is between a child and the one before.               *)
LEMMA GapIn ==
  ASSUME NEW lvl, NEW lo, Stands(lvl, lo), NEW p \in UsedIn(nodes), nodes[p].leaf, NEW i \in Places(nodes, p),
         NEW e \in Kept(nodes)
  PROVE  Bound(lo, p, i - 1) < e.key <=> KeyAt(nodes, p, i) <= e.key
<1>1. IsTree(nodes, rootFpos, lvl, lo) /\ Branching(nodes) BY DEF Stands
<1>2. Typed(nodes) /\ Levels(nodes, rootFpos, lvl) /\ Ordered(nodes, lo) BY <1>1 DEF IsTree
<1>3. /\ e.key \in Nat BY <1>1, KeptKeys
<1>4. /\ lo[p] \in Nat /\ nodes[p].key \in Nat /\ Bound(lo, p, i - 1) \in Nat /\ lo[p] <= Bound(lo, p, i - 1)
      /\ Bound(lo, p, i - 1) < KeyAt(nodes, p, i) /\ KeyAt(nodes, p, i) <= nodes[p].key /\ KeyAt(nodes, p, i) \in Nat
  BY <1>1, BoundIs
<1>5. ASSUME Bound(lo, p, i - 1) < e.key, e.key < KeyAt(nodes, p, i) PROVE FALSE
  <2>1. lo[p] < e.key /\ e.key <= nodes[p].key BY <1>3, <1>4, <1>5
  <2>2. PICK j \in Places(nodes, p) : KeyAt(nodes, p, j) = e.key BY <1>1, <2>1, EntryUnder
  <2>3. PICK n \in Nat : n = Len(nodes[p].inner) /\ Places(nodes, p) = 1 .. n BY <1>1, BoundIs DEF Places
  <2>4. ~(i <= j)
    <3>1. i < j => KeyAt(nodes, p, i) < KeyAt(nodes, p, j) BY <1>2 DEF Ordered
    <3> QED BY <1>3, <1>4, <1>5, <2>2, <2>3, <3>1
  <2>5. j <= i - 1 /\ i - 1 # 0 /\ i - 1 \in Places(nodes, p) BY <2>3, <2>4
  <2>6. Bound(lo, p, i - 1) = KeyAt(nodes, p, i - 1) BY <2>5 DEF Bound
  <2>7. j < i - 1 => KeyAt(nodes, p, j) < KeyAt(nodes, p, i - 1) BY <1>2, <2>5 DEF Ordered
  <2> QED BY <1>3, <1>4, <1>5, <2>2, <2>3, <2>5, <2>6, <2>7
<1> QED BY <1>3, <1>4, <1>5

-----------------------------------------------------------------------------
(* The stack of a cursor.                                                  *)

(* A list without its last element.                                        *)
LEMMA FrontIs ==
  ASSUME NEW S, NEW s \in Seq(S), Len(s) > 0
  PROVE  Front(s) \in Seq(S) /\ Len(Front(s)) = Len(s) - 1 /\ \A i \in 1 .. Len(s) - 1 : Front(s)[i] = s[i]
<1>1. PICK n \in Nat : n = Len(s) OBVIOUS
<1>2. Front(s) = SubSeq(s, 1, n - 1) BY <1>1 DEF Front
<1>3. n - 1 \in Nat BY <1>1
<1>4. /\ SubSeq(s, 1, n - 1) \in Seq(S) /\ Len(SubSeq(s, 1, n - 1)) = n - 1
      /\ \A i \in 1 .. n - 1 : SubSeq(s, 1, n - 1)[i] = s[i]
  BY <1>1, <1>3
<1> QED BY <1>1, <1>2, <1>4

(* A list whose last element is replaced by others.                        *)
LEMMA ReplacedIs ==
  ASSUME NEW S, NEW s \in Seq(S), Len(s) > 0, NEW x \in S
  PROVE  /\ Append(Front(s), x) \in Seq(S) /\ Len(Append(Front(s), x)) = Len(s) /\ Append(Front(s), x)[Len(s)] = x
         /\ \A i \in 1 .. Len(s) - 1 : Append(Front(s), x)[i] = s[i]
<1>1. PICK n \in Nat, t \in Seq(S) : n = Len(s) /\ t = Front(s) BY FrontIs
<1>2. Len(t) = n - 1 /\ \A i \in 1 .. n - 1 : t[i] = s[i] BY <1>1, FrontIs
<1>3. Append(t, x) \in Seq(S) /\ Len(Append(t, x)) = n BY <1>1, <1>2
<1>4. Append(t, x)[n] = x BY <1>1, <1>2
<1>5. \A i \in 1 .. n - 1 : Append(t, x)[i] = t[i] BY <1>1, <1>2
<1> QED BY <1>1, <1>2, <1>3, <1>4, <1>5

(* A list whose last element is replaced by two.                          *)
LEMMA PushedIs ==
  ASSUME NEW S, NEW s \in Seq(S), Len(s) > 0, NEW x \in S, NEW y \in S
  PROVE  /\ Front(s) \o <<x, y>> \in Seq(S) /\ Len(Front(s) \o <<x, y>>) = Len(s) + 1
         /\ (Front(s) \o <<x, y>>)[Len(s)] = x /\ (Front(s) \o <<x, y>>)[Len(s) + 1] = y
         /\ \A i \in 1 .. Len(s) - 1 : (Front(s) \o <<x, y>>)[i] = s[i]
<1>1. PICK n \in Nat, t \in Seq(S) : n = Len(s) /\ t = Front(s) BY FrontIs
<1>2. Len(t) = n - 1 /\ \A i \in 1 .. n - 1 : t[i] = s[i] BY <1>1, FrontIs
<1>3. t \o <<x, y>> \in Seq(S) /\ Len(t \o <<x, y>>) = n + 1 BY <1>1, <1>2
<1>4. (t \o <<x, y>>)[n] = x /\ (t \o <<x, y>>)[n + 1] = y BY <1>1, <1>2
<1>5. \A i \in 1 .. n - 1 : (t \o <<x, y>>)[i] = t[i] BY <1>1, <1>2
<1> QED BY <1>1, <1>2, <1>3, <1>4, <1>5

(* The last frame.                                                         *)
LEMMA TopIs ==
  ASSUME NEW lvl, NEW lo, Stands(lvl, lo), NEW b \in Backs, NEW s, Strung(lvl, b, s)
  PROVE  /\ Len(s) \in Nat /\ Len(s) \in 1 .. Len(s) /\ Last(s) = s[Len(s)] /\ s # <<>> /\ Last(s) \in Frames
         /\ Last(s).node \in UsedIn(nodes) /\ Last(s).node \in Blocks /\ Last(s).pos \in Int
         /\ lvl[Last(s).node] = lvl[rootFpos] + 1 - Len(s) /\ lvl[rootFpos] \in Nat
         /\ Between(b, Last(s)) \in 0 .. Len(nodes[Last(s).node].inner)
         /\ Spent(b, s) <=> Between(b, Last(s)) = IF b = 0 THEN Len(nodes[Last(s).node].inner) ELSE 0
         /\ Last(s).pos = Between(b, Last(s)) - b
<1>1. Typed(nodes) /\ Levels(nodes, rootFpos, lvl) BY DEF Stands, IsTree
<1>2. PICK n \in Nat : n = Len(s) /\ n > 0 BY DEF Strung
<1>3. Last(s) = s[n] /\ n \in 1 .. n BY <1>2 DEF Last
<1>4. s[n] \in Frames BY <1>2, <1>3 DEF Strung
<1>5. s[n].node \in UsedIn(nodes) /\ lvl[s[n].node] = lvl[rootFpos] + 1 - n
      /\ Between(b, s[n]) \in 0 .. Len(nodes[s[n].node].inner)
  BY <1>2, <1>3 DEF Strung
<1>6. s[n].node \in Blocks BY <1>5 DEF UsedIn
<1>7. s[n].pos \in Int BY <1>4, NoNodeIs DEF Frames
<1>8. Len(nodes[s[n].node].inner) \in Nat BY <1>1, <1>6, FieldsAre
<1>9. b = 0 \/ b = 1 BY DEF Backs
<1>10. s[n].pos = Between(b, s[n]) - b BY <1>7, <1>9 DEF Between
<1>11. Spent(b, s) <=> Between(b, s[n]) = IF b = 0 THEN Len(nodes[s[n].node].inner) ELSE 0
  BY <1>3, <1>5, <1>7, <1>8, <1>9 DEF Spent, Between
<1>12. lvl[rootFpos] \in Nat BY <1>1, HeightsAre
<1>13. s # <<>> BY <1>2
<1> QED BY <1>2, <1>3, <1>4, <1>5, <1>6, <1>7, <1>10, <1>11, <1>12, <1>13

(* Up from a node in which there is none left: nothing that is to come is  *)
(* left out.                                                               *)
LEMMA PopKeeps ==
  ASSUME NEW lvl, NEW lo, Stands(lvl, lo), NEW b \in Backs, NEW s, Strung(lvl, b, s), Spent(b, s), Len(s) > 1
  PROVE  /\ Strung(lvl, b, Front(s)) /\ Len(Front(s)) = Len(s) - 1 /\ ~nodes[Last(s).node].root
         /\ ComingTo(lo, b, Front(s)) = ComingTo(lo, b, s)
<1>1. IsTree(nodes, rootFpos, lvl, lo) /\ Branching(nodes) BY DEF Stands
<1>2. Typed(nodes) /\ Levels(nodes, rootFpos, lvl) BY <1>1 DEF IsTree
<1>3. PICK n \in Nat : n = Len(s) /\ n > 1 BY TopIs
<1>4. PICK t : t = Front(s) OBVIOUS
<1>5. t \in Seq(Frames) /\ Len(t) = n - 1 /\ \A i \in 1 .. n - 1 : t[i] = s[i]
  <2>1. s \in Seq(Frames) BY DEF Strung
  <2> QED BY <1>3, <1>4, <2>1, FrontIs
<1>6. n - 1 \in 1 .. n - 1 /\ n - 1 \in 1 .. n /\ n \in 1 .. n /\ 1 \in 1 .. n - 1 /\ (n - 1) + 1 = n BY <1>3
<1>7. Strung(lvl, b, t)
  <2>1. \A i \in 1 .. Len(t) : i \in 1 .. Len(s) /\ t[i] = s[i] BY <1>3, <1>5
  <2>2. \A i \in 1 .. Len(t) - 1 : i \in 1 .. Len(s) - 1 /\ t[i] = s[i] /\ t[i + 1] = s[i + 1] BY <1>3, <1>5
  <2>3. Len(t) > 0 /\ t[1] = s[1] BY <1>3, <1>5, <1>6
  <2> QED BY <1>5, <2>1, <2>2, <2>3 DEF Strung
<1>8. Last(t) = s[n - 1] /\ Last(s) = s[n] BY <1>3, <1>5, <1>6 DEF Last
<1>9. PICK p, k, q : p = s[n - 1].node /\ k = Between(b, s[n - 1]) /\ q = s[n].node OBVIOUS
<1>10. /\ p \in InnerIn(nodes) /\ k + b \in Places(nodes, p) /\ nodes[p].inner[k + b] = q
  BY <1>3, <1>6, <1>9 DEF Strung
<1>11. q \in UsedIn(nodes) /\ p \in UsedIn(nodes) /\ ~nodes[p].leaf /\ lvl[q] = lvl[rootFpos] + 1 - n /\ lvl[rootFpos] \in Nat
  BY <1>3, <1>8, <1>9, <1>10, TopIs DEF InnerIn
<1>12. q # rootFpos BY <1>3, <1>11
<1>13. ~nodes[q].root BY <1>11, <1>12 DEF Stands, Flagged
<1>14. KeyAt(nodes, p, k + b) = nodes[q].key BY <1>2, <1>10, <1>11, ChildrenAre
<1>15. k \in 0 .. Len(nodes[p].inner) /\ Len(nodes[p].inner) \in Nat
  <2>1. k \in 0 .. Len(nodes[p].inner) BY <1>3, <1>6, <1>9 DEF Strung
  <2> QED BY <1>1, <1>11, <2>1, BoundIs
<1>16. Between(b, s[n]) = IF b = 0 THEN Len(nodes[q].inner) ELSE 0 BY <1>8, <1>9, TopIs
<1>17. ASSUME NEW e \in Kept(nodes)
       PROVE  Bound(lo, p, k) < e.key <=> Bound(lo, q, Between(b, s[n])) < e.key
  <2>1. CASE b = 0
    <3>1. k + b = k /\ k # 0 BY <1>10, <1>15, <2>1 DEF Places
    <3>2. Bound(lo, p, k) = nodes[q].key BY <1>14, <3>1 DEF Bound
    <3>3. Between(b, s[n]) = Len(nodes[q].inner) BY <1>16, <2>1
    <3> QED BY <1>11, <3>2, <3>3, GapAbove
  <2>2. CASE b = 1
    <3>1. (k + b) - 1 = k BY <1>15, <2>2
    <3>2. Bound(lo, p, (k + b) - 1) < e.key <=> lo[nodes[p].inner[k + b]] < e.key BY <1>10, GapBelow
    <3>3. Between(b, s[n]) = 0 BY <1>16, <2>2
    <3>4. Bound(lo, q, 0) = lo[q] BY DEF Bound
    <3> QED BY <1>10, <3>1, <3>2, <3>3, <3>4
  <2> QED BY <2>1, <2>2 DEF Backs
<1>18. ComingTo(lo, b, t) = ComingTo(lo, b, s) BY <1>8, <1>9, <1>17 DEF ComingTo, Coming
<1> QED BY <1>3, <1>4, <1>5, <1>7, <1>8, <1>9, <1>13, <1>18

(* Down to the next child: nothing that is to come is left out, and there  *)
(* is something in the child.                                              *)
LEMMA PushKeeps ==
  ASSUME NEW lvl, NEW lo, Stands(lvl, lo), NEW b \in Backs, NEW s, Strung(lvl, b, s), ~Spent(b, s),
         ~nodes[Last(s).node].leaf
  PROVE  /\ Strung(lvl, b, Pushed(b, s)) /\ ~Spent(b, Pushed(b, s))
         /\ lvl[Last(Pushed(b, s)).node] = lvl[Last(s).node] - 1
         /\ ComingTo(lo, b, Pushed(b, s)) = ComingTo(lo, b, s)
<1>1. IsTree(nodes, rootFpos, lvl, lo) /\ Branching(nodes) BY DEF Stands
<1>2. Typed(nodes) /\ Levels(nodes, rootFpos, lvl) BY <1>1 DEF IsTree
<1>3. PICK n \in Nat, f \in Frames, p \in Blocks : n = Len(s) /\ n > 0 /\ f = Last(s) /\ f = s[n] /\ p = f.node
  BY TopIs DEF Strung
<1>4. PICK k, m \in Nat : k = Between(b, f) /\ m = Len(nodes[p].inner) /\ k <= m
  <2>1. p \in UsedIn(nodes) /\ Between(b, f) \in 0 .. Len(nodes[p].inner) BY <1>3, TopIs
  <2>2. Len(nodes[p].inner) \in Nat BY <1>1, <2>1, BoundIs
  <2> QED BY <2>1, <2>2
<1>5. /\ p \in UsedIn(nodes) /\ p \in Blocks /\ ~nodes[p].leaf /\ f.pos = k - b /\ f.pos \in Int
      /\ lvl[p] = lvl[rootFpos] + 1 - n /\ lvl[rootFpos] \in Nat
  BY <1>3, <1>4, TopIs
<1>6. b = 0 \/ b = 1 BY DEF Backs
<1>7. k # IF b = 0 THEN m ELSE 0 BY <1>3, <1>4, TopIs
<1>8. PICK j \in 1 .. m : j = f.pos + 1 BY <1>4, <1>5, <1>6, <1>7
<1>9. PICK c : c = nodes[p].inner[j] OBVIOUS
<1>10. p \in InnerIn(nodes) /\ j \in Places(nodes, p) BY <1>4, <1>5 DEF InnerIn, Places
<1>11. /\ c \in UsedIn(nodes) /\ c \in Blocks /\ c # rootFpos /\ KeyAt(nodes, p, j) = nodes[c].key
       /\ lvl[c] = lvl[p] - 1
  BY <1>2, <1>5, <1>9, <1>10, ChildrenAre
<1>12. PICK w \in Nat : w = Len(nodes[c].inner) BY <1>2, <1>11, FieldsAre
<1>13. w > 0
  <2>1. nodes[c].inner # <<>> BY <1>11 DEF Stands, Filled
  <2>2. nodes[c].inner \in Seq(Children) BY <1>2, <1>11, FieldsAre
  <2>3. Len(nodes[c].inner) # 0 BY <2>1, <2>2
  <2> QED BY <1>12, <2>3
<1>14. m <= NodeNumber /\ w <= NodeNumber /\ NodeNumber \in Nat BY <1>4, <1>5, <1>11, <1>12, NoNodeIs DEF Stands, Limited
<1>15. PICK x : x = Passed(b, s) OBVIOUS
<1>16. PICK y : y = Entered(b, c) OBVIOUS
<1>17. x = [node |-> p, pos |-> j - (b + b)]
  <2>1. x = [node |-> f.node, pos |-> f.pos + 1 - (b + b)] BY <1>3, <1>15 DEF Passed, Frame
  <2>2. f.pos + 1 - (b + b) = j - (b + b) BY <1>4, <1>5, <1>6, <1>8
  <2> QED BY <1>3, <2>1, <2>2
<1>18. y = [node |-> c, pos |-> IF b = 0 THEN 0 ELSE w - 1] BY <1>12, <1>16 DEF Entered, Frame
<1>19. x \in Frames
  <2>1. j - (b + b) \in -1 .. NodeNumber BY <1>4, <1>6, <1>14
  <2> QED BY <1>5, <1>17, <2>1 DEF Frames
<1>20. y \in Frames
  <2>1. (IF b = 0 THEN 0 ELSE w - 1) \in -1 .. NodeNumber BY <1>6, <1>14
  <2> QED BY <1>11, <1>18, <2>1 DEF Frames
<1>21. PICK u : u = Front(s) \o <<x, y>> OBVIOUS
<1>22. Pushed(b, s) = u BY <1>3, <1>8, <1>9, <1>15, <1>16, <1>21 DEF Pushed, NextDown
<1>23. u \in Seq(Frames) /\ Len(u) = n + 1 /\ u[n] = x /\ u[n + 1] = y /\ \A i \in 1 .. n - 1 : u[i] = s[i]
  <2>1. s \in Seq(Frames) BY DEF Strung
  <2> QED BY <1>3, <1>19, <1>20, <1>21, <2>1, PushedIs
<1>24. x.node = p /\ Between(b, x) = j - b /\ Between(b, x) + b = j /\ j - b \in 0 .. m
  BY <1>6, <1>17 DEF Between
<1>25. y.node = c /\ Between(b, y) = IF b = 0 THEN 0 ELSE w
  BY <1>6, <1>18 DEF Between
<1>26. Between(b, y) \in 0 .. w BY <1>25
<1>27. Strung(lvl, b, u)
  <2>1. u[1].node = rootFpos
    <3>1. CASE n = 1
      <4>1. u[1] = x /\ s[1].node = p BY <1>3, <1>23, <3>1
      <4> QED BY <1>24, <4>1 DEF Strung
    <3>2. CASE n > 1
      <4>1. u[1] = s[1] BY <1>23, <3>2
      <4> QED BY <4>1 DEF Strung
    <3> QED BY <1>3, <3>1, <3>2
  <2>2. ASSUME NEW i \in 1 .. Len(u)
        PROVE  /\ u[i].node \in UsedIn(nodes) /\ lvl[u[i].node] = lvl[rootFpos] + 1 - i
               /\ Between(b, u[i]) \in 0 .. Len(nodes[u[i].node].inner)
    <3>1. CASE i \in 1 .. n - 1
      <4>1. u[i] = s[i] /\ i \in 1 .. Len(s) BY <1>3, <1>23, <3>1
      <4> QED BY <4>1 DEF Strung
    <3>2. CASE i = n BY <1>4, <1>5, <1>23, <1>24, <3>2
    <3>3. CASE i = n + 1
      <4>1. lvl[c] = lvl[rootFpos] + 1 - (n + 1) BY <1>5, <1>11
      <4> QED BY <1>11, <1>12, <1>23, <1>25, <1>26, <3>3, <4>1
    <3> QED BY <1>23, <3>1, <3>2, <3>3
  <2>3. ASSUME NEW i \in 1 .. Len(u) - 1
        PROVE  /\ u[i].node \in InnerIn(nodes)
               /\ Between(b, u[i]) + b \in Places(nodes, u[i].node)
               /\ nodes[u[i].node].inner[Between(b, u[i]) + b] = u[i + 1].node
    <3>1. CASE i < n
      <4>1. u[i] = s[i] /\ i \in 1 .. Len(s) - 1 BY <1>3, <1>23, <3>1
      <4>2. u[i + 1].node = s[i + 1].node
        <5>1. i + 1 < n => u[i + 1] = s[i + 1] BY <1>23, <3>1
        <5>2. i + 1 = n => u[i + 1].node = s[i + 1].node BY <1>3, <1>23, <1>24
        <5> QED BY <3>1, <5>1, <5>2
      <4> QED BY <4>1, <4>2 DEF Strung
    <3>2. CASE i = n BY <1>9, <1>10, <1>23, <1>24, <1>25, <3>2
    <3> QED BY <1>23, <3>1, <3>2
  <2>4. Len(u) > 0 BY <1>23
  <2> QED BY <1>23, <2>1, <2>2, <2>3, <2>4 DEF Strung
<1>28. Last(u) = y BY <1>23 DEF Last
<1>29. ~Spent(b, u)
  <2>1. Spent(b, u) <=> Between(b, y) = IF b = 0 THEN w ELSE 0 BY <1>12, <1>25, <1>27, <1>28, TopIs
  <2> QED BY <1>6, <1>13, <1>25, <2>1
<1>30. ASSUME NEW e \in Kept(nodes) PROVE Bound(lo, c, Between(b, y)) < e.key <=> Bound(lo, p, k) < e.key
  <2>1. CASE b = 0
    <3>1. j - 1 = k BY <1>5, <1>8, <2>1
    <3>2. Bound(lo, p, j - 1) < e.key <=> lo[c] < e.key BY <1>9, <1>10, GapBelow
    <3>3. Bound(lo, c, 0) = lo[c] BY DEF Bound
    <3> QED BY <1>25, <2>1, <3>1, <3>2, <3>3
  <2>2. CASE b = 1
    <3>1. j = k BY <1>5, <1>8, <2>2
    <3>2. Bound(lo, p, k) = nodes[c].key BY <1>11, <3>1 DEF Bound
    <3>3. Bound(lo, c, w) < e.key <=> nodes[c].key < e.key BY <1>11, <1>12, GapAbove
    <3> QED BY <1>25, <2>2, <3>2, <3>3
  <2> QED BY <1>6, <2>1, <2>2
<1>31. ComingTo(lo, b, u) = ComingTo(lo, b, s) BY <1>3, <1>4, <1>25, <1>28, <1>30 DEF ComingTo, Coming
<1>32. lvl[Last(u).node] = lvl[Last(s).node] - 1 BY <1>3, <1>11, <1>25, <1>28
<1> QED BY <1>22, <1>27, <1>29, <1>31, <1>32

(* At the end of the root no entry is to come.                             *)
LEMMA NoneLeft ==
  ASSUME NEW lvl, NEW lo, Stands(lvl, lo), NEW b \in Backs, NEW s, Strung(lvl, b, s), Spent(b, s), Len(s) = 1
  PROVE  ComingTo(lo, b, s) = {}
<1>1. IsTree(nodes, rootFpos, lvl, lo) BY DEF Stands
<1>2. Last(s).node = rootFpos
  <2>1. Last(s) = s[1] BY DEF Last
  <2> QED BY <2>1 DEF Strung
<1>3. Between(b, Last(s)) = IF b = 0 THEN Len(nodes[rootFpos].inner) ELSE 0 BY <1>2, TopIs
<1>4. ASSUME NEW e \in Kept(nodes) PROVE IF b = 0 THEN ~(Bound(lo, rootFpos, Between(b, Last(s))) < e.key)
                                         ELSE Bound(lo, rootFpos, Between(b, Last(s))) < e.key
  <2>1. /\ lo[rootFpos] < e.key /\ e.key < Infinity /\ nodes[rootFpos].key = Infinity /\ rootFpos \in UsedIn(nodes)
        /\ e.key \in Nat /\ Infinity \in Nat
    BY <1>1, KeptKeys, NoNodeIs
  <2>2. Bound(lo, rootFpos, Len(nodes[rootFpos].inner)) < e.key <=> nodes[rootFpos].key < e.key BY <2>1, GapAbove
  <2>3. Bound(lo, rootFpos, 0) = lo[rootFpos] BY DEF Bound
  <2> QED BY <1>3, <2>1, <2>2, <2>3
<1> QED BY <1>2, <1>4 DEF ComingTo, Coming

-----------------------------------------------------------------------------
(* A cursor's loop, up (b = 0) or down.                                    *)

(* A stack that goes down from the root is one the loop is defined for.    *)
LEMMA StrungIsStack ==
  ASSUME NEW lvl, NEW b \in Backs, NEW s, Strung(lvl, b, s)
  PROVE  s \in Stacks(b)
<1>1. s \in Seq(Frames) /\ Len(s) > 0 /\ DOMAIN s = 1 .. Len(s) BY DEF Strung
<1>2. s # <<>> BY <1>1
<1>3. ASSUME NEW i \in DOMAIN s
      PROVE nodes[s[i].node] # NoNode /\ s[i].pos + b \in 0 .. Len(nodes[s[i].node].inner)
  BY <1>1 DEF Strung, Between, UsedIn
<1> QED BY <1>1, <1>2, <1>3 DEF Stacks

(* The last frame of such a stack.                                         *)
LEMMA StackTop ==
  ASSUME NEW lvl, NEW lo, Stands(lvl, lo), NEW b \in Backs, NEW s \in Stacks(b)
  PROVE  /\ s \in Seq(Frames) /\ Len(s) \in Nat /\ Len(s) > 0 /\ Last(s) \in Frames
         /\ Last(s).node \in UsedIn(nodes) /\ Last(s).node \in Blocks /\ Last(s).pos \in Int
         /\ Last(s).pos + b \in 0 .. Len(nodes[Last(s).node].inner)
         /\ Len(nodes[Last(s).node].inner) \in 0 .. NodeNumber /\ NodeNumber \in Nat
         /\ ~Spent(b, s) => Last(s).pos + 1 \in Places(nodes, Last(s).node)
<1>1. Typed(nodes) BY DEF Stands, IsTree
<1>2. s \in Seq(Frames) /\ s # <<>> BY DEF Stacks
<1>3. Len(s) \in Nat /\ Len(s) > 0 BY <1>2
<1>4. Len(s) \in DOMAIN s BY <1>2, <1>3
<1>5. Last(s) = s[Len(s)] /\ s[Len(s)] \in Frames BY <1>2, <1>4 DEF Last
<1>6. nodes[Last(s).node] # NoNode /\ Last(s).pos + b \in 0 .. Len(nodes[Last(s).node].inner) BY <1>4, <1>5 DEF Stacks
<1>7. Last(s).node \in Blocks /\ Last(s).pos \in Int BY <1>5, NoNodeIs DEF Frames
<1>8. Last(s).node \in UsedIn(nodes) BY <1>6, <1>7 DEF UsedIn
<1>9. Len(nodes[Last(s).node].inner) \in Nat /\ Len(nodes[Last(s).node].inner) <= NodeNumber /\ NodeNumber \in Nat
  BY <1>1, <1>7, <1>8, FieldsAre, NoNodeIs DEF Stands, Limited
<1>10. b = 0 \/ b = 1 BY DEF Backs
<1>11. ~Spent(b, s) => Last(s).pos + 1 \in 1 .. Len(nodes[Last(s).node].inner)
  BY <1>6, <1>7, <1>9, <1>10 DEF Spent
<1> QED BY <1>2, <1>3, <1>5, <1>6, <1>7, <1>8, <1>9, <1>11 DEF Places

(* The frames that come on a stack are frames of it.                       *)
LEMMA PushedStack ==
  ASSUME NEW lvl, NEW lo, Stands(lvl, lo), NEW b \in Backs, NEW s \in Stacks(b), ~Spent(b, s),
         ~nodes[Last(s).node].leaf
  PROVE  Pushed(b, s) \in Stacks(b)
<1>1. Typed(nodes) /\ Levels(nodes, rootFpos, lvl) BY DEF Stands, IsTree
<1>2. b = 0 \/ b = 1 BY DEF Backs
<1>3. PICK p, j, m : p = Last(s).node /\ j = Last(s).pos + 1 /\ m = Len(nodes[p].inner) OBVIOUS
<1>4. /\ s \in Seq(Frames) /\ Len(s) \in Nat /\ Len(s) > 0 /\ p \in UsedIn(nodes) /\ p \in Blocks /\ Last(s).pos \in Int
      /\ m \in 0 .. NodeNumber /\ NodeNumber \in Nat /\ j \in Places(nodes, p) /\ ~nodes[p].leaf
  BY <1>3, StackTop
<1>5. j \in 1 .. m /\ Last(s).pos = j - 1 BY <1>3, <1>4 DEF Places
<1>6. PICK c : c = nodes[p].inner[j] OBVIOUS
<1>7. c \in UsedIn(nodes) /\ c \in Blocks /\ c # rootFpos BY <1>1, <1>4, <1>6, ChildrenAre
<1>8. PICK w \in Nat : w = Len(nodes[c].inner) /\ w <= NodeNumber BY <1>1, <1>7, FieldsAre DEF Stands, Limited
<1>9. PICK x : x = Passed(b, s) OBVIOUS
<1>10. PICK y : y = Entered(b, c) OBVIOUS
<1>11. PICK g : g = Last(s).pos + 1 - (b + b) OBVIOUS
<1>12. g = j - (b + b) /\ g \in -1 .. NodeNumber /\ g + b \in 0 .. m BY <1>2, <1>4, <1>5, <1>11
<1>13. x = [node |-> p, pos |-> g] BY <1>3, <1>9, <1>11 DEF Passed, Frame
<1>14. PICK h : h = IF b = 0 THEN 0 ELSE w - 1 OBVIOUS
<1>15. h \in -1 .. NodeNumber /\ h + b \in 0 .. w BY <1>2, <1>4, <1>8, <1>14
<1>16. y = [node |-> c, pos |-> h] BY <1>8, <1>10, <1>14 DEF Entered, Frame
<1>17. x \in Frames /\ y \in Frames BY <1>4, <1>7, <1>12, <1>13, <1>15, <1>16 DEF Frames
<1>18. PICK u : u = Front(s) \o <<x, y>> OBVIOUS
<1>19. Pushed(b, s) = u BY <1>3, <1>6, <1>9, <1>10, <1>18 DEF Pushed, NextDown
<1>20. PICK n \in Nat : n = Len(s) /\ n > 0 BY <1>4
<1>21. u \in Seq(Frames) /\ Len(u) = n + 1 /\ u[n] = x /\ u[n + 1] = y /\ \A i \in 1 .. n - 1 : u[i] = s[i]
  BY <1>4, <1>17, <1>18, <1>20, PushedIs
<1>22. ASSUME NEW i \in DOMAIN u
       PROVE  nodes[u[i].node] # NoNode /\ u[i].pos + b \in 0 .. Len(nodes[u[i].node].inner)
  <2>1. i \in 1 .. n + 1 BY <1>21
  <2>2. CASE i \in 1 .. n - 1
    <3>1. u[i] = s[i] /\ i \in DOMAIN s BY <1>4, <1>20, <1>21, <2>2
    <3> QED BY <3>1 DEF Stacks
  <2>3. CASE i = n BY <1>3, <1>4, <1>12, <1>13, <1>21, <2>3 DEF UsedIn
  <2>4. CASE i = n + 1 BY <1>7, <1>8, <1>15, <1>16, <1>21, <2>4 DEF UsedIn
  <2> QED BY <1>20, <2>1, <2>2, <2>3, <2>4
<1>23. u # <<>> BY <1>20, <1>21
<1> QED BY <1>19, <1>21, <1>22, <1>23 DEF Stacks

(* Without its last frame it is one, too.                                  *)
LEMMA FrontStack ==
  ASSUME NEW b \in Backs, NEW s \in Stacks(b), Len(s) # 1
  PROVE  Front(s) \in Stacks(b)
<1>1. s \in Seq(Frames) /\ s # <<>> BY DEF Stacks
<1>2. PICK n \in Nat : n = Len(s) /\ n > 1
  <2>1. Len(s) \in Nat /\ Len(s) # 0 BY <1>1
  <2> QED BY <2>1
<1>3. PICK t : t = Front(s) OBVIOUS
<1>4. t \in Seq(Frames) /\ Len(t) = n - 1 /\ \A i \in 1 .. n - 1 : t[i] = s[i] BY <1>1, <1>2, <1>3, FrontIs
<1>5. t # <<>> BY <1>2, <1>4
<1>6. ASSUME NEW i \in DOMAIN t
      PROVE  nodes[t[i].node] # NoNode /\ t[i].pos + b \in 0 .. Len(nodes[t[i].node].inner)
  <2>1. i \in 1 .. n - 1 /\ i \in 1 .. n BY <1>2, <1>4
  <2>2. i \in DOMAIN s /\ t[i] = s[i] BY <1>1, <1>2, <1>4, <2>1
  <2> QED BY <2>2 DEF Stacks
<1> QED BY <1>3, <1>4, <1>5, <1>6 DEF Stacks

(* There is a function that the loop computes.                             *)
LEMMA LoopIs ==
  ASSUME NEW lvl, NEW lo, Stands(lvl, lo), NEW b \in Backs
  PROVE  \E M : Moves(b, M)
<1>1. PICK D : D = Stacks(b) OBVIOUS
<1>2. PICK done : done = {s \in D : Stops(b, s)} OBVIOUS
<1>3. PICK R : R = [s \in D |-> IF Spent(b, s) THEN <<>> ELSE s] OBVIOUS
<1>4. PICK step : step = [s \in D |-> IF Stops(b, s) THEN s ELSE IF Spent(b, s) THEN Front(s) ELSE Pushed(b, s)] OBVIOUS
<1>5. step \in [D -> D]
  <2>1. ASSUME NEW s \in D, ~Stops(b, s)
        PROVE  (IF Spent(b, s) THEN Front(s) ELSE Pushed(b, s)) \in D
    <3>1. CASE Spent(b, s)
      <4>1. Len(s) # 1 BY <2>1, <3>1 DEF Stops
      <4> QED BY <1>1, <3>1, <4>1, FrontStack
    <3>2. CASE ~Spent(b, s)
      <4>1. ~nodes[Last(s).node].leaf BY <2>1, <3>2 DEF Stops
      <4> QED BY <1>1, <3>2, <4>1, PushedStack
    <3> QED BY <3>1, <3>2
  <2> QED BY <1>4, <2>1
<1>60. \E f : Loops(f, D, done, R, step) BY ONLY <1>5, LoopDefines
<1>6. PICK f : f = [s \in D |-> f[s]] /\ \A s \in D : f[s] = IF s \in done THEN R[s] ELSE f[step[s]]
  BY <1>60 DEF Loops
<1>7. ASSUME NEW s \in D PROVE (IF s \in done THEN R[s] ELSE f[step[s]]) = Turn(b, f, s)
  <2>1. CASE Stops(b, s)
    <3>1. s \in done /\ R[s] = IF Spent(b, s) THEN <<>> ELSE s BY <1>2, <1>3, <2>1
    <3> QED BY <2>1, <3>1 DEF Turn, Stops
  <2>2. CASE ~Stops(b, s)
    <3>1. s \notin done /\ step[s] = IF Spent(b, s) THEN Front(s) ELSE Pushed(b, s) BY <1>2, <1>4, <2>2
    <3> QED BY <2>2, <3>1 DEF Turn, Stops
  <2> QED BY <2>1, <2>2
<1>8. f = [s \in D |-> Turn(b, f, s)] BY <1>6, <1>7
<1> QED BY <1>1, <1>8 DEF Moves

(* getNext is such a loop.                                                 *)
LEMMA NextLoops ==
  ASSUME NEW lvl, NEW lo, Stands(lvl, lo)
  PROVE  \E M : Moves(0, M) /\ \A stack : GetNext(stack) = M[stack]
<1> DEFINE turn(M, s) ==
             LET f == Last(s)
                 n == nodes[f.node]
             IN  IF f.pos >= Len(n.inner) THEN IF n.root \/ Len(s) = 1 THEN <<>> ELSE M[Front(s)]
                 ELSE IF n.leaf THEN s
                 ELSE M[Front(s) \o <<Frame(f.node, f.pos + 1), Frame(n.inner[f.pos + 1], 0)>>]
           IsMove(M) == M = [s \in Stacks(0) |-> turn(M, s)]
           Move == CHOOSE M : IsMove(M)
<1>1. ASSUME NEW M, NEW s \in Stacks(0) PROVE turn(M, s) = Turn(0, M, s)
  <2>1. Last(s).pos \in Int BY StackTop DEF Backs
  <2>2. Last(s).pos + 1 - (0 + 0) = Last(s).pos + 1 BY <2>1
  <2>3. Passed(0, s) = Frame(Last(s).node, Last(s).pos + 1) BY <2>2 DEF Passed
  <2>4. Entered(0, NextDown(s)) = Frame(nodes[Last(s).node].inner[Last(s).pos + 1], 0) BY DEF Entered, NextDown
  <2>5. Pushed(0, s) = Front(s) \o <<Frame(Last(s).node, Last(s).pos + 1),
                                     Frame(nodes[Last(s).node].inner[Last(s).pos + 1], 0)>>
    BY <2>3, <2>4 DEF Pushed
  <2>6. Spent(0, s) <=> Last(s).pos >= Len(nodes[Last(s).node].inner) BY DEF Spent
  <2> QED BY <2>5, <2>6 DEF Turn
<1>2. ASSUME NEW M PROVE [s \in Stacks(0) |-> turn(M, s)] = [s \in Stacks(0) |-> Turn(0, M, s)]
  <2> HIDE DEF turn
  <2> QED BY <1>1
<1>3. \A M : IsMove(M) <=> Moves(0, M)
  <2> HIDE DEF turn
  <2> QED BY <1>2 DEF Moves
<1>4. \E M : Moves(0, M) BY LoopIs DEF Backs
<1>5. \E M : IsMove(M) BY <1>3, <1>4
<1>6. IsMove(Move)
  <2> HIDE DEF IsMove
  <2> QED BY <1>5
<1>7. \A stack : GetNext(stack) = Move[stack] BY DEF GetNext
<1>8. Moves(0, Move) BY <1>3, <1>6
<1> HIDE DEF Move
<1> QED BY <1>7, <1>8

(* getPrevious is one, too.                                                *)
LEMMA PreviousLoops ==
  ASSUME NEW lvl, NEW lo, Stands(lvl, lo)
  PROVE  \E M : Moves(1, M) /\ \A stack : GetPrevious(stack) = M[stack]
<1> DEFINE turn(M, s) ==
             LET f == Last(s)
                 n == nodes[f.node]
             IN  IF f.pos < 0 THEN IF n.root \/ Len(s) = 1 THEN <<>> ELSE M[Front(s)]
                 ELSE IF n.leaf THEN s
                 ELSE M[Front(s) \o <<Frame(f.node, f.pos - 1),
                                      Frame(n.inner[f.pos + 1],
                                            Len(nodes[n.inner[f.pos + 1]].inner) - 1)>>]
           IsMove(M) == M = [s \in Stacks(1) |-> turn(M, s)]
           Move == CHOOSE M : IsMove(M)
<1>1. ASSUME NEW M, NEW s \in Stacks(1) PROVE turn(M, s) = Turn(1, M, s)
  <2>1. Last(s).pos \in Int BY StackTop DEF Backs
  <2>2. Last(s).pos + 1 - (1 + 1) = Last(s).pos - 1 BY <2>1
  <2>3. Passed(1, s) = Frame(Last(s).node, Last(s).pos - 1) BY <2>2 DEF Passed
  <2>4. Entered(1, NextDown(s)) = Frame(nodes[Last(s).node].inner[Last(s).pos + 1],
                                        Len(nodes[nodes[Last(s).node].inner[Last(s).pos + 1]].inner) - 1)
    BY DEF Entered, NextDown
  <2>5. Pushed(1, s) = Front(s) \o <<Frame(Last(s).node, Last(s).pos - 1),
                                     Frame(nodes[Last(s).node].inner[Last(s).pos + 1],
                                           Len(nodes[nodes[Last(s).node].inner[Last(s).pos + 1]].inner) - 1)>>
    BY <2>3, <2>4 DEF Pushed
  <2>6. Spent(1, s) <=> Last(s).pos < 0 BY DEF Spent
  <2> QED BY <2>5, <2>6 DEF Turn
<1>2. ASSUME NEW M PROVE [s \in Stacks(1) |-> turn(M, s)] = [s \in Stacks(1) |-> Turn(1, M, s)]
  <2> HIDE DEF turn
  <2> QED BY <1>1
<1>3. \A M : IsMove(M) <=> Moves(1, M)
  <2> HIDE DEF turn
  <2> QED BY <1>2 DEF Moves
<1>4. \E M : Moves(1, M) BY LoopIs DEF Backs
<1>5. \E M : IsMove(M) BY <1>3, <1>4
<1>6. IsMove(Move)
  <2> HIDE DEF IsMove
  <2> QED BY <1>5
<1>7. \A stack : GetPrevious(stack) = Move[stack] BY DEF GetPrevious
<1>8. Moves(1, Move) BY <1>3, <1>6
<1> HIDE DEF Move
<1> QED BY <1>7, <1>8

(* The function that the loop computes, at a stack.                        *)
LEMMA MoveTurns ==
  ASSUME NEW b \in Backs, NEW M, Moves(b, M), NEW s \in Stacks(b)
  PROVE  M[s] = Turn(b, M, s)
BY DEF Moves

(* From a node that has children left the loop goes down to a leaf.        *)
LEMMA DownReaches ==
  ASSUME NEW lvl, NEW lo, Stands(lvl, lo), NEW b \in Backs, NEW M, Moves(b, M),
         NEW s, Strung(lvl, b, s), ~Spent(b, s)
  PROVE  Reached(lvl, lo, b, s, M[s])
<1> DEFINE Good(u) == Strung(lvl, b, u) /\ ~Spent(b, u)
           T == {k \in Nat : \A u \in Seq(Frames) :
                   Good(u) /\ lvl[Last(u).node] = k => Reached(lvl, lo, b, u, M[u])}
<1>1. Typed(nodes) /\ Levels(nodes, rootFpos, lvl) BY DEF Stands, IsTree
<1>2. ASSUME NEW u, Good(u)
      PROVE  /\ u \in Stacks(b) /\ u \in Seq(Frames) /\ lvl[Last(u).node] \in Nat
             /\ (nodes[Last(u).node].leaf <=> lvl[Last(u).node] = 0)
  <2>1. u \in Stacks(b) BY <1>2, StrungIsStack
  <2>2. Last(u).node \in UsedIn(nodes) BY <1>2, TopIs
  <2>3. lvl[Last(u).node] \in Nat /\ (nodes[Last(u).node].leaf <=> lvl[Last(u).node] = 0)
    <3>1. PICK q \in UsedIn(nodes) : q = Last(u).node BY <2>2
    <3>2. lvl[q] \in Nat BY <1>1, <3>1 DEF Levels, UsedIn
    <3>3. nodes[q].leaf <=> lvl[q] = 0 BY <1>1, <3>1 DEF Levels
    <3> QED BY <3>1, <3>2, <3>3
  <2>4. u \in Seq(Frames) BY <1>2 DEF Strung
  <2> QED BY <2>1, <2>3, <2>4
<1>3. ASSUME NEW u, Good(u), nodes[Last(u).node].leaf PROVE Reached(lvl, lo, b, u, M[u])
  <2>1. M[u] = u
    <3>1. M[u] = Turn(b, M, u) BY <1>2, <1>3, MoveTurns
    <3> QED BY <1>3, <3>1 DEF Turn
  <2> QED BY <1>3, <2>1 DEF Reached
<1>4. 0 \in T
  <2> SUFFICES ASSUME NEW u \in Seq(Frames), Good(u), lvl[Last(u).node] = 0 PROVE Reached(lvl, lo, b, u, M[u]) OBVIOUS
  <2> HIDE DEF Good
  <2> QED BY <1>2, <1>3
<1>5. ASSUME NEW k \in Nat, k \in T PROVE k + 1 \in T
  <2> SUFFICES ASSUME NEW u \in Seq(Frames), Good(u), lvl[Last(u).node] = k + 1 PROVE Reached(lvl, lo, b, u, M[u])
    OBVIOUS
  <2>1. ~nodes[Last(u).node].leaf BY <1>2
  <2>2. PICK v : v = Pushed(b, u) OBVIOUS
  <2>3. Good(v) /\ lvl[Last(v).node] = lvl[Last(u).node] - 1 /\ ComingTo(lo, b, v) = ComingTo(lo, b, u)
    BY <2>1, <2>2, PushKeeps
  <2>4. M[u] = M[v]
    <3>1. M[u] = Turn(b, M, u) BY <1>2, MoveTurns
    <3> QED BY <2>1, <2>2, <3>1 DEF Turn
  <2>5. v \in Seq(Frames) BY <1>2, <2>3
  <2>6. lvl[Last(v).node] = k BY <2>3
  <2>7. Reached(lvl, lo, b, v, M[v]) BY <1>5, <2>3, <2>5, <2>6
  <2> QED BY <2>3, <2>4, <2>7 DEF Reached
<1>6. Nat \subseteq T
  <2> HIDE DEF T
  <2> QED BY <1>4, <1>5, NatUpwards
<1>7. Good(s) OBVIOUS
<1>8. lvl[Last(s).node] \in T /\ s \in Seq(Frames)
  <2> HIDE DEF Good, T
  <2> QED BY <1>2, <1>6, <1>7
<1> HIDE DEF Good
<1> QED BY <1>7, <1>8

(* The loop ends, wherever it begins.                                      *)
LEMMA LoopReaches ==
  ASSUME NEW lvl, NEW lo, Stands(lvl, lo), NEW b \in Backs, NEW M, Moves(b, M), NEW s, Strung(lvl, b, s)
  PROVE  Reached(lvl, lo, b, s, M[s])
<1> DEFINE T == {k \in Nat : \A u \in Seq(Frames) :
                   Strung(lvl, b, u) /\ Len(u) = k + 1 => Reached(lvl, lo, b, u, M[u])}
<1>1. 0 \in T
  <2> SUFFICES ASSUME NEW u \in Seq(Frames), Strung(lvl, b, u), Len(u) = 1 PROVE Reached(lvl, lo, b, u, M[u]) OBVIOUS
  <2>1. CASE Spent(b, u)
    <3>1. u \in Stacks(b) BY StrungIsStack
    <3>2. M[u] = Turn(b, M, u) BY <3>1, MoveTurns
    <3>3. M[u] = <<>> BY <2>1, <3>2 DEF Turn
    <3>4. ComingTo(lo, b, u) = {} BY <2>1, NoneLeft
    <3> QED BY <3>3, <3>4 DEF Reached
  <2>2. CASE ~Spent(b, u) BY <2>2, DownReaches
  <2> QED BY <2>1, <2>2
<1>2. ASSUME NEW k \in Nat, k \in T PROVE k + 1 \in T
  <2> SUFFICES ASSUME NEW u \in Seq(Frames), Strung(lvl, b, u), Len(u) = (k + 1) + 1 PROVE Reached(lvl, lo, b, u, M[u])
    OBVIOUS
  <2>1. CASE Spent(b, u)
    <3>1. u \in Stacks(b) BY StrungIsStack
    <3>2. M[u] = Turn(b, M, u) BY <3>1, MoveTurns
    <3>3. Len(u) > 1 /\ Len(u) # 1 OBVIOUS
    <3>4. PICK v : v = Front(u) OBVIOUS
    <3>5. /\ Strung(lvl, b, v) /\ Len(v) = Len(u) - 1 /\ ~nodes[Last(u).node].root
          /\ ComingTo(lo, b, v) = ComingTo(lo, b, u)
      BY <2>1, <3>3, <3>4, PopKeeps
    <3>6. M[u] = M[v] BY <2>1, <3>2, <3>3, <3>4, <3>5 DEF Turn
    <3>7. v \in Seq(Frames) BY <3>5 DEF Strung
    <3>8. Len(v) = k + 1 BY <3>5
    <3>9. Reached(lvl, lo, b, v, M[v]) BY <1>2, <3>5, <3>7, <3>8
    <3> QED BY <3>5, <3>6, <3>9 DEF Reached
  <2>2. CASE ~Spent(b, u) BY <2>2, DownReaches
  <2> QED BY <2>1, <2>2
<1>3. Nat \subseteq T
  <2> HIDE DEF T
  <2> QED BY <1>1, <1>2, NatUpwards
<1>4. Len(s) - 1 \in Nat /\ (Len(s) - 1) + 1 = Len(s) /\ s \in Seq(Frames)
  <2>1. s \in Seq(Frames) /\ Len(s) > 0 BY DEF Strung
  <2> QED BY <2>1
<1>5. Len(s) - 1 \in T BY <1>3, <1>4
<1> QED BY <1>4, <1>5

-----------------------------------------------------------------------------
(* Where a cursor begins.                                                  *)

(* gotoEqLessThanKey finds the last child whose key is not greater.        *)
LEMMA LastUpToIs ==
  ASSUME NEW ns, NEW root, NEW lvl, NEW lo, Typed(ns), Levels(ns, root, lvl), Ordered(ns, lo),
         NEW p \in UsedIn(ns), NEW key \in Nat
  PROVE  LET c == LastUpTo(ChildKeys(ns, p), key)
         IN  \/ c = 0 /\ \A i \in Places(ns, p) : key < KeyAt(ns, p, i)
             \/ /\ c \in Places(ns, p) /\ KeyAt(ns, p, c) <= key
                /\ \A i \in Places(ns, p) : KeyAt(ns, p, i) <= key => i <= c
<1> DEFINE I == {i \in 1..Len(ChildKeys(ns, p)) : ChildKeys(ns, p)[i] <= key}
           J == {i \in Places(ns, p) : KeyAt(ns, p, i) <= key}
           c == LastUpTo(ChildKeys(ns, p), key)
<1>1. I = J BY ChildKeysAre DEF Places
<1>2. c = IF J # {} THEN Max(J) ELSE 0 BY <1>1 DEF LastUpTo, SelectLastInSeq
<1>3. \A i \in Places(ns, p) : KeyAt(ns, p, i) \in Nat /\ i \in Nat BY ChildrenAre DEF Places
<1>4. J # {} => Max(J) \in J /\ \A k \in J : k <= Max(J)
  <2>1. J \subseteq 1..Len(ns[p].inner) BY DEF Places
  <2>2. Len(ns[p].inner) \in Nat BY FieldsAre DEF UsedIn
  <2> HIDE DEF J
  <2> QED BY <2>1, <2>2, FirstPlace
<1>5. CASE J = {} BY <1>2, <1>3, <1>5
<1>6. CASE J # {} BY <1>2, <1>4, <1>6
<1> QED BY <1>5, <1>6

(* getNextChildPrevious goes to the child that getNextChild goes to.       *)
LEMMA PreviousChildIs ==
  ASSUME NEW lvl, NEW lo, Stands(lvl, lo), NEW p \in InnerIn(nodes), NEW key \in Nat
  PROVE  /\ NextChildPrevious(ChildKeys(nodes, p), key) \in Places(nodes, p)
         /\ key <= nodes[p].key => Goes(nodes, p, key, NextChildPrevious(ChildKeys(nodes, p), key))
<1>1. IsTree(nodes, rootFpos, lvl, lo) /\ Branching(nodes) BY DEF Stands
<1>2. Typed(nodes) /\ Levels(nodes, rootFpos, lvl) /\ Ordered(nodes, lo) /\ Ends(nodes, {}) BY <1>1 DEF IsTree
<1>3. p \in UsedIn(nodes) /\ p \in Blocks /\ ~nodes[p].leaf BY DEF InnerIn, UsedIn
<1>4. PICK K : K = ChildKeys(nodes, p) OBVIOUS
<1>5. PICK m \in Nat : m = Len(nodes[p].inner) /\ m > 0
  <2>1. nodes[p].inner # <<>> BY <1>1 DEF Branching
  <2>2. nodes[p].inner \in Seq(Children) BY <1>2, <1>3, FieldsAre
  <2> QED BY <2>1, <2>2
<1>6. Places(nodes, p) = 1 .. m /\ Len(K) = m BY <1>2, <1>3, <1>4, <1>5, ChildKeysAre DEF Places
<1>7. \A i \in 1 .. m : KeyAt(nodes, p, i) \in Nat BY <1>2, <1>3, <1>6, ChildrenAre
<1>8. KeyAt(nodes, p, m) = nodes[p].key
  <2>1. nodes[p].inner # <<>> BY <1>1 DEF Branching
  <2> QED BY <1>2, <1>5, <2>1 DEF Ends
<1>9. PICK a : a = IndexOf(K, key) OBVIOUS
<1>10. a = 0 \/ (a \in 1 .. m /\ KeyAt(nodes, p, a) = key) BY <1>2, <1>3, <1>4, <1>6, <1>9, IndexOfIs
<1>11. PICK d : d = LastUpTo(K, key) OBVIOUS
<1>12. \/ d = 0 /\ \A i \in 1 .. m : key < KeyAt(nodes, p, i)
       \/ d \in 1 .. m /\ KeyAt(nodes, p, d) <= key /\ \A i \in 1 .. m : KeyAt(nodes, p, i) <= key => i <= d
  BY <1>2, <1>3, <1>4, <1>6, <1>11, LastUpToIs
<1>13. PICK c : c = NextChildPrevious(K, key) OBVIOUS
<1>14. CASE a # 0
  <2>1. c = a BY <1>9, <1>13, <1>14 DEF NextChildPrevious
  <2>2. c \in 1 .. m /\ KeyAt(nodes, p, c) = key BY <1>10, <1>14, <2>1
  <2>3. c > 1 => KeyAt(nodes, p, c - 1) < key
    <3> SUFFICES ASSUME c > 1 PROVE KeyAt(nodes, p, c - 1) < key OBVIOUS
    <3>1. c - 1 \in 1 .. m /\ c - 1 < c BY <2>2
    <3>2. KeyAt(nodes, p, c - 1) < KeyAt(nodes, p, c) BY <1>2, <1>3, <1>6, <2>2, <3>1 DEF Ordered
    <3> QED BY <2>2, <3>2
  <2>4. Goes(nodes, p, key, c) BY <1>6, <2>2, <2>3 DEF Goes
  <2> QED BY <1>4, <1>6, <1>13, <2>2, <2>4
<1>15. CASE a = 0
  <2>1. c = Min({d + 1, m}) BY <1>6, <1>9, <1>11, <1>13, <1>15 DEF NextChildPrevious
  <2>2. d \in 0 .. m BY <1>12
  <2>3. c \in {d + 1, m} /\ c <= d + 1 /\ c <= m
    <3>1. {d + 1, m} \subseteq 1 .. m + 1 /\ m + 1 \in Nat BY <1>5, <2>2
    <3>2. PICK I : I = {d + 1, m} OBVIOUS
    <3>3. I # {} /\ I \subseteq 1 .. m + 1 BY <3>1, <3>2
    <3>4. Min(I) \in I /\ \A k \in I : Min(I) <= k BY <3>1, <3>3, FirstPlace
    <3> QED BY <2>1, <3>2, <3>4
  <2>4. c \in 1 .. m BY <1>5, <2>2, <2>3
  <2>5. ASSUME key <= nodes[p].key PROVE Goes(nodes, p, key, c)
    <3>1. d < m
      <4> SUFFICES ASSUME d = m PROVE FALSE BY <1>5, <2>2
      <4>1. KeyAt(nodes, p, m) <= key BY <1>5, <1>12
      <4>2. KeyAt(nodes, p, m) = key BY <1>5, <1>7, <1>8, <2>5, <4>1
      <4>3. m \in Places(nodes, p) BY <1>5, <1>6
      <4>4. a = m BY <1>2, <1>3, <1>4, <1>9, <4>2, <4>3, IndexOfIs
      <4> QED BY <1>5, <1>15, <4>4
    <3>2. c = d + 1 BY <1>5, <2>2, <2>3, <3>1
    <3>3. key < KeyAt(nodes, p, c) BY <1>7, <1>12, <2>4, <3>2
    <3>4. c > 1 => KeyAt(nodes, p, c - 1) < key
      <4> SUFFICES ASSUME c > 1 PROVE KeyAt(nodes, p, c - 1) < key OBVIOUS
      <4>1. d # 0 /\ c - 1 = d BY <2>2, <3>2
      <4>2. d \in 1 .. m /\ KeyAt(nodes, p, d) <= key BY <1>12, <4>1
      <4>3. KeyAt(nodes, p, d) # key
        <5>1. \A i \in Places(nodes, p) : KeyAt(nodes, p, i) = key => a = i
          BY <1>2, <1>3, <1>4, <1>9, IndexOfIs
        <5> QED BY <1>6, <1>15, <4>2, <5>1
      <4> QED BY <1>7, <4>1, <4>2, <4>3
    <3> QED BY <1>6, <1>7, <2>4, <3>3, <3>4 DEF Goes
  <2> QED BY <1>4, <1>6, <1>13, <2>4, <2>5
<1> QED BY <1>14, <1>15

(* The place in a leaf is before its first child, or one of them.          *)
LEMMA StartIs ==
  ASSUME NEW lvl, NEW lo, Stands(lvl, lo), NEW b \in Backs, NEW p \in UsedIn(nodes), NEW key \in Nat
  PROVE  StartAt(b, p, key) \in -1 .. Len(nodes[p].inner) - 1 /\ StartAt(b, p, key) \in -1 .. NodeNumber
<1>1. Typed(nodes) /\ Levels(nodes, rootFpos, lvl) /\ Ordered(nodes, lo) BY DEF Stands, IsTree
<1>2. p \in Blocks BY DEF UsedIn
<1>3. PICK m \in Nat : m = Len(nodes[p].inner) BY <1>1, <1>2, FieldsAre
<1>4. m <= NodeNumber /\ NodeNumber \in Nat BY <1>3, NoNodeIs DEF Stands, Limited
<1>5. PICK c : c = NextChild(ChildKeys(nodes, p), key) OBVIOUS
<1>6. c \in 0 .. m
  <2>1. c = 0 \/ c \in Places(nodes, p) BY <1>1, <1>5, NextChildIs DEF Goes
  <2> QED BY <1>3, <2>1 DEF Places
<1>7. PICK d : d = LastUpTo(ChildKeys(nodes, p), key) OBVIOUS
<1>8. d \in 0 .. m
  <2>1. d = 0 \/ d \in Places(nodes, p) BY <1>1, <1>7, LastUpToIs
  <2> QED BY <1>3, <2>1 DEF Places
<1>9. StartAt(b, p, key) = IF b = 0 THEN c - 1 ELSE d - 1 BY <1>5, <1>7 DEF StartAt
<1> QED BY <1>3, <1>4, <1>6, <1>8, <1>9

(* gotoKey leaves such a stack.                                            *)
LEMMA GotoKeyIs ==
  ASSUME NEW lvl, NEW lo, Stands(lvl, lo), NEW key \in 0 .. Infinity
  PROVE  Trail(lvl, 0, key, rootFpos, GotoKey(Path(key), key))
<1>1. IsTree(nodes, rootFpos, lvl, lo) /\ Branching(nodes) BY DEF Stands
<1>2. Typed(nodes) /\ Levels(nodes, rootFpos, lvl) /\ Ordered(nodes, lo) BY <1>1 DEF IsTree
<1>3. key \in Nat BY NoNodeIs
<1>4. PICK s : s = Path(key) OBVIOUS
<1>5. Leads(nodes, lvl, rootFpos, key, s) BY <1>1, <1>4, PathIs
<1>6. PICK n \in Nat : n = Len(s) /\ n = lvl[rootFpos] + 1
  <2>1. lvl[rootFpos] \in Nat BY <1>2, HeightsAre
  <2>2. Len(s) = lvl[rootFpos] + 1 BY <1>5 DEF Leads
  <2> QED BY <2>1, <2>2
<1>7. DOMAIN s = 1 .. n
  <2>1. s \in Seq(Blocks) BY <1>5 DEF Leads
  <2>2. DOMAIN s = 1 .. Len(s) BY <2>1
  <2>3. n = Len(s) BY <1>6
  <2> QED BY ONLY <2>2, <2>3
<1> DEFINE c(i) == NextChild(ChildKeys(nodes, s[i]), key)
           f(i) == Frame(s[i], IF nodes[s[i]].leaf THEN c(i) - 1 ELSE c(i))
<1>8. PICK t : t = [i \in 1 .. n |-> f(i)] OBVIOUS
<1>9. GotoKey(Path(key), key) = t BY <1>4, <1>7, <1>8 DEF GotoKey
<1>10. ASSUME NEW i \in 1 .. n
       PROVE  /\ s[i] \in UsedIn(nodes) /\ s[i] \in Blocks /\ lvl[s[i]] = lvl[rootFpos] + 1 - i /\ key <= nodes[s[i]].key
              /\ f(i).node = s[i] /\ (nodes[s[i]].leaf <=> i = n) /\ (i = n => f(i).pos = c(i) - 1)
              /\ i # n => f(i).pos = c(i) /\ Goes(nodes, s[i], key, c(i)) /\ s[i + 1] = nodes[s[i]].inner[c(i)]
  <2>1. s[i] \in UsedIn(nodes) /\ lvl[s[i]] = lvl[rootFpos] + 1 - i /\ key <= nodes[s[i]].key BY <1>5, <1>6 DEF Leads
  <2>2. nodes[s[i]].leaf <=> i = n
    <3>1. nodes[s[i]].leaf <=> lvl[s[i]] = 0 BY <1>2, <2>1 DEF Levels
    <3>2. lvl[s[i]] = 0 <=> i = n
      <4>0. lvl[rootFpos] \in Nat BY <1>2, HeightsAre
      <4>1. lvl[s[i]] = n - i BY <1>6, <2>1, <4>0
      <4> QED BY <4>1
    <3> QED BY <3>1, <3>2
  <2>3. i # n => Goes(nodes, s[i], key, c(i)) /\ s[i + 1] = nodes[s[i]].inner[c(i)]
    <3>1. i # n => i \in 1 .. Len(s) - 1 BY <1>6
    <3> QED BY <1>5, <3>1 DEF Leads
  <2>4. f(i).node = s[i] /\ f(i).pos = IF nodes[s[i]].leaf THEN c(i) - 1 ELSE c(i) BY DEF Frame
  <2>5. s[i] \in Blocks BY <2>1 DEF UsedIn
  <2> HIDE DEF f, c
  <2> QED BY <2>1, <2>2, <2>3, <2>4, <2>5
<1>11. ASSUME NEW i \in 1 .. n PROVE f(i) \in Frames
  <2>1. f(i) = [node |-> s[i], pos |-> IF nodes[s[i]].leaf THEN c(i) - 1 ELSE c(i)] BY DEF Frame
  <2>2. CASE i = n
    <3>1. c(i) - 1 = StartAt(0, s[i], key) BY DEF StartAt
    <3>2. StartAt(0, s[i], key) \in -1 .. NodeNumber BY <1>3, <1>10, StartIs DEF Backs
    <3> HIDE DEF f, c
    <3> QED BY <1>10, <2>1, <2>2, <3>1, <3>2 DEF Frames
  <2>3. CASE i # n
    <3>1. c(i) \in Places(nodes, s[i]) BY <1>10, <2>3 DEF Goes
    <3>2. Len(nodes[s[i]].inner) \in Nat /\ Len(nodes[s[i]].inner) <= NodeNumber /\ NodeNumber \in Nat
      BY <1>2, <1>10, FieldsAre, NoNodeIs DEF Stands, Limited
    <3>3. c(i) \in -1 .. NodeNumber BY <3>1, <3>2 DEF Places
    <3> HIDE DEF f, c
    <3> QED BY <1>10, <2>1, <2>3, <3>3 DEF Frames
  <2> QED BY <2>2, <2>3
<1> HIDE DEF f, c
<1>12. t \in Seq(Frames) /\ Len(t) = n /\ \A i \in 1 .. n : t[i] = f(i) BY <1>8, <1>11
<1>13. n \in 1 .. n
  <2>1. lvl[rootFpos] \in Nat BY <1>2, HeightsAre
  <2> QED BY <1>6, <2>1
<1>14. t[1].node = rootFpos
  <2>1. 1 \in 1 .. n BY <1>13
  <2>2. s[1] = rootFpos BY <1>5 DEF Leads
  <2> QED BY <1>10, <1>12, <2>1, <2>2
<1>15. ASSUME NEW i \in 1 .. n PROVE /\ t[i].node \in UsedIn(nodes) /\ lvl[t[i].node] = lvl[rootFpos] + 1 - i
                                    /\ key <= nodes[t[i].node].key
  BY <1>10, <1>12
<1>16. ASSUME NEW i \in 1 .. n - 1 PROVE /\ Goes(nodes, t[i].node, key, Between(0, t[i]) + 0)
                                        /\ t[i + 1].node = nodes[t[i].node].inner[Between(0, t[i]) + 0]
  <2>1. i \in 1 .. n /\ i + 1 \in 1 .. n /\ i # n BY <1>13
  <2>2. t[i].node = s[i] /\ t[i + 1].node = s[i + 1] /\ t[i].pos = c(i) BY <1>10, <1>12, <2>1
  <2>3. Goes(nodes, s[i], key, c(i)) /\ s[i + 1] = nodes[s[i]].inner[c(i)] BY <1>10, <2>1
  <2>4. c(i) \in Nat BY <2>3 DEF Goes, Places
  <2>5. Between(0, t[i]) + 0 = c(i) BY <2>2, <2>4 DEF Between
  <2> QED BY <2>2, <2>3, <2>5
<1>17. t[n].pos = StartAt(0, t[n].node, key)
  <2>1. t[n].node = s[n] /\ t[n].pos = c(n) - 1 BY <1>10, <1>12, <1>13
  <2> QED BY <2>1 DEF StartAt, c
<1>18. Trail(lvl, 0, key, rootFpos, t) BY <1>6, <1>12, <1>14, <1>15, <1>16, <1>17 DEF Trail
<1> QED BY <1>9, <1>18

(* gotoKeyPrevious leaves one, too.                                        *)
LEMMA GotoKeyPreviousIs ==
  ASSUME NEW lvl, NEW lo, Stands(lvl, lo), NEW key \in 0 .. Infinity
  PROVE  Trail(lvl, 1, key, rootFpos, GotoKeyPrevious(rootFpos, key))
<1> DEFINE c(p) == NextChildPrevious(ChildKeys(nodes, p), key)
           q(p) == nodes[p].inner[c(p)]
           low(p) == Frame(p, LastUpTo(ChildKeys(nodes, p), key) - 1)
           up(p) == Frame(p, c(p) - 2)
           V == Seq({low(p) : p \in Blocks} \cup {up(p) : p \in Blocks})
           DownAt(f, p) == IF nodes[p].leaf THEN <<low(p)>> ELSE <<up(p)>> \o f[q(p)]
           G == [r \in [Blocks -> V] \X Blocks |-> DownAt(r[1], r[2])]
           IsDown(f) == f = [p \in Blocks |-> DownAt(f, p)]
           Down == CHOOSE f : IsDown(f)
           n == lvl[rootFpos]
           h == Heights(nodes, lvl)
<1>1. IsTree(nodes, rootFpos, lvl, lo) /\ Branching(nodes) BY DEF Stands
<1>2. Typed(nodes) /\ Levels(nodes, rootFpos, lvl) /\ Ordered(nodes, lo) BY <1>1 DEF IsTree
<1>3. key \in Nat BY NoNodeIs
<1>4. GotoKeyPrevious(rootFpos, key) = Down[rootFpos] BY DEF GotoKeyPrevious
<1>5. ASSUME NEW p \in Blocks, ~nodes[p].leaf
      PROVE  /\ p \in InnerIn(nodes) /\ p \in UsedIn(nodes) /\ c(p) \in Places(nodes, p)
             /\ q(p) \in UsedIn(nodes) /\ q(p) \in Blocks /\ lvl[q(p)] = lvl[p] - 1 /\ lvl[p] \in Nat
             /\ h[q(p)] < h[p] /\ KeyAt(nodes, p, c(p)) = nodes[q(p)].key
             /\ key <= nodes[p].key => Goes(nodes, p, key, c(p))
  <2>1. p \in InnerIn(nodes) /\ p \in UsedIn(nodes) BY <1>5, NoNodeIs DEF InnerIn, UsedIn
  <2>2. c(p) \in Places(nodes, p) /\ (key <= nodes[p].key => Goes(nodes, p, key, c(p)))
    BY <1>3, <2>1, PreviousChildIs
  <2> HIDE DEF c
  <2>3. q(p) \in UsedIn(nodes) /\ q(p) \in Blocks /\ lvl[q(p)] = lvl[p] - 1 /\ KeyAt(nodes, p, c(p)) = nodes[q(p)].key
    BY <1>2, <1>5, <2>1, <2>2, ChildrenAre
  <2>4. lvl[p] \in Nat BY <1>2 DEF Levels
  <2>5. h[p] = lvl[p] /\ h[q(p)] = lvl[q(p)] BY <2>1, <2>3 DEF Heights
  <2> HIDE DEF q, h
  <2> QED BY <2>1, <2>2, <2>3, <2>4, <2>5
<1>6. n \in Nat /\ h \in [Blocks -> 0 .. n] /\ V # {}
  <2>1. <<>> \in V OBVIOUS
  <2>2. V # {} BY <2>1
  <2> QED BY <1>2, <2>2, HeightsAre
<1>7. Gives(Blocks, V, G)
  <2> SUFFICES ASSUME NEW f \in [Blocks -> V], NEW p \in Blocks PROVE G[<<f, p>>] \in V BY DEF Gives
  <2>1. G[<<f, p>>] = IF nodes[p].leaf THEN <<low(p)>> ELSE <<up(p)>> \o f[q(p)] OBVIOUS
  <2>2. ~nodes[p].leaf => f[q(p)] \in V BY <1>5
  <2> HIDE DEF G, h, c, q, low, up
  <2> QED BY <2>1, <2>2
<1>8. LooksDown(Blocks, V, h, G)
  <2> SUFFICES ASSUME NEW f \in [Blocks -> V], NEW g \in [Blocks -> V], NEW p \in Blocks,
                      \A y \in Blocks : h[y] < h[p] => f[y] = g[y]
               PROVE  G[<<f, p>>] = G[<<g, p>>] BY DEF LooksDown
  <2>1. /\ G[<<f, p>>] = IF nodes[p].leaf THEN <<low(p)>> ELSE <<up(p)>> \o f[q(p)]
        /\ G[<<g, p>>] = IF nodes[p].leaf THEN <<low(p)>> ELSE <<up(p)>> \o g[q(p)] OBVIOUS
  <2> HIDE DEF G, h, V, c, q, low, up
  <2>2. ~nodes[p].leaf => f[q(p)] = g[q(p)] BY <1>5
  <2> QED BY <2>1, <2>2
<1>9. PICK f \in [Blocks -> V] : \A p \in Blocks : f[p] = G[<<f, p>>]
  <2> HIDE DEF V, G, n, h
  <2>1. PICK f \in [Blocks -> V] : Solves(f, Blocks, G) BY <1>6, <1>7, <1>8, LevelsDefine
  <2> QED BY <2>1 DEF Solves
<1>10. IsDown(f)
  <2>1. \A p \in Blocks : f[p] = DownAt(f, p) BY <1>9
  <2>2. f = [p \in Blocks |-> f[p]] OBVIOUS
  <2> HIDE DEF DownAt
  <2>3. f = [p \in Blocks |-> DownAt(f, p)] BY <2>1, <2>2
  <2> QED BY <2>3
<1>11. IsDown(Down)
  <2> HIDE DEF IsDown
  <2> QED BY <1>10
<1> HIDE DEF Down
<1>12. \A p \in Blocks : Down[p] = DownAt(Down, p)
  <2> HIDE DEF DownAt
  <2>1. Down = [p \in Blocks |-> DownAt(Down, p)] BY <1>11
  <2> QED BY <2>1
<1> HIDE DEF G, h, IsDown, V
<1> DEFINE T == {k \in Nat : \A p \in UsedIn(nodes) :
                   lvl[p] = k /\ key <= nodes[p].key => Trail(lvl, 1, key, p, Down[p])}
<1>13. 0 \in T
  <2> SUFFICES ASSUME NEW p \in UsedIn(nodes), lvl[p] = 0, key <= nodes[p].key PROVE Trail(lvl, 1, key, p, Down[p])
    OBVIOUS
  <2>1. nodes[p].leaf /\ p \in Blocks BY <1>2 DEF Levels, UsedIn
  <2>2. Down[p] = <<low(p)>> BY <1>12, <2>1
  <2>3. LastUpTo(ChildKeys(nodes, p), key) - 1 = StartAt(1, p, key) BY DEF StartAt
  <2>4. low(p) = [node |-> p, pos |-> StartAt(1, p, key)] BY <2>3 DEF Frame
  <2>5. StartAt(1, p, key) \in -1 .. NodeNumber BY <1>3, StartIs DEF Backs
  <2>6. PICK x \in Frames : x = low(p) /\ x.node = p /\ x.pos = StartAt(1, p, key) BY <2>1, <2>4, <2>5 DEF Frames
  <2>7. Down[p] = <<x>> /\ <<x>> \in Seq(Frames) /\ Len(<<x>>) = 1 /\ <<x>>[1] = x BY <2>2, <2>6
  <2> HIDE DEF low, DownAt
  <2> QED BY <2>6, <2>7 DEF Trail
<1>14. ASSUME NEW k \in Nat, k \in T PROVE k + 1 \in T
  <2> SUFFICES ASSUME NEW p \in UsedIn(nodes), lvl[p] = k + 1, key <= nodes[p].key
               PROVE  Trail(lvl, 1, key, p, Down[p]) OBVIOUS
  <2>1. ~nodes[p].leaf /\ p \in Blocks
    <3>1. lvl[p] # 0 BY <1>2
    <3> QED BY <1>2, <3>1 DEF Levels, UsedIn
  <2>2. PICK j \in Places(nodes, p) : j = c(p) BY <1>5, <2>1
  <2>3. PICK y \in UsedIn(nodes) : y = q(p) BY <1>5, <2>1
  <2>4. /\ Goes(nodes, p, key, j) /\ lvl[y] = k /\ KeyAt(nodes, p, j) = nodes[y].key /\ y = nodes[p].inner[j]
    <3>1. lvl[y] = lvl[p] - 1 /\ KeyAt(nodes, p, j) = nodes[y].key BY <1>5, <2>1, <2>2, <2>3
    <3>2. Goes(nodes, p, key, j) BY <1>5, <2>1, <2>2
    <3>3. y = nodes[p].inner[j] BY <2>2, <2>3
    <3> QED BY <3>1, <3>2, <3>3
  <2>5. key <= nodes[y].key BY <2>4 DEF Goes
  <2>6. Trail(lvl, 1, key, y, Down[y]) BY <1>14, <2>4, <2>5
  <2>7. PICK u \in Seq(Frames) : u = Down[y] BY <2>6 DEF Trail
  <2>8. /\ Len(u) = k + 1 /\ u[1].node = y
        /\ \A i \in 1 .. k + 1 : /\ u[i].node \in UsedIn(nodes) /\ lvl[u[i].node] = k + 1 - i
                                 /\ key <= nodes[u[i].node].key
        /\ \A i \in 1 .. k : /\ Goes(nodes, u[i].node, key, Between(1, u[i]) + 1)
                             /\ u[i + 1].node = nodes[u[i].node].inner[Between(1, u[i]) + 1]
        /\ u[k + 1].pos = StartAt(1, u[k + 1].node, key)
    <3>1. Trail(lvl, 1, key, y, u) BY <2>6, <2>7
    <3>2. Len(u) = k + 1 BY <2>4, <3>1 DEF Trail
    <3>3. (k + 1) - 1 = k OBVIOUS
    <3>4. \A i \in 1 .. Len(u) - 1 : /\ Goes(nodes, u[i].node, key, Between(1, u[i]) + 1)
                             /\ u[i + 1].node = nodes[u[i].node].inner[Between(1, u[i]) + 1] BY <3>1 DEF Trail
    <3>5. 1 .. Len(u) - 1 = 1 .. k BY <3>2, <3>3
    <3>6. u[Len(u)].pos = StartAt(1, u[Len(u)].node, key) BY <3>1 DEF Trail
    <3>7. u[1].node = y BY <3>1 DEF Trail
    <3>8. \A i \in 1 .. Len(u) : /\ u[i].node \in UsedIn(nodes) /\ lvl[u[i].node] = lvl[y] + 1 - i
                                 /\ key <= nodes[u[i].node].key BY <3>1 DEF Trail
    <3> QED BY <2>4, <3>2, <3>4, <3>5, <3>6, <3>7, <3>8
  <2>9. PICK g : g = j - 2 OBVIOUS
  <2>10. g \in -1 .. NodeNumber /\ (g + 1) + 1 = j
    <3>1. Len(nodes[p].inner) \in Nat /\ Len(nodes[p].inner) <= NodeNumber /\ NodeNumber \in Nat
      BY <1>2, <2>1, FieldsAre, NoNodeIs DEF Stands, Limited
    <3>2. j \in 1 .. Len(nodes[p].inner) BY DEF Places
    <3> QED BY <2>9, <3>1, <3>2
  <2>11. PICK x : x = up(p) OBVIOUS
  <2>12. x = [node |-> p, pos |-> g] BY <2>2, <2>9, <2>11 DEF Frame
  <2>13. x \in Frames /\ x.node = p /\ Between(1, x) + 1 = j BY <2>1, <2>10, <2>12 DEF Frames, Between
  <2>14. Down[p] = <<x>> \o u BY <1>12, <2>1, <2>3, <2>7, <2>11
  <2> HIDE DEF low, up, c, q, DownAt
  <2>15. PICK t : t = <<x>> \o u OBVIOUS
  <2>16. /\ t \in Seq(Frames) /\ Len(t) = k + 2 /\ t[1] = x /\ \A i \in 2 .. k + 2 : t[i] = u[i - 1]
    <3>1. <<x>> \in Seq(Frames) /\ Len(<<x>>) = 1 /\ <<x>>[1] = x BY <2>13
    <3> QED BY <2>7, <2>8, <2>15, <3>1, ConcatProperties
  <2>17. ASSUME NEW i \in 1 .. k + 2
         PROVE  /\ t[i].node \in UsedIn(nodes) /\ lvl[t[i].node] = k + 2 - i /\ key <= nodes[t[i].node].key
    <3>1. CASE i = 1 BY <2>13, <2>16, <3>1
    <3>2. CASE i # 1
      <4>1. i - 1 \in 1 .. k + 1 /\ i \in 2 .. k + 2 /\ k + 1 - (i - 1) = k + 2 - i BY <3>2
      <4> QED BY <2>8, <2>16, <4>1
    <3> QED BY <3>1, <3>2
  <2>18. ASSUME NEW i \in 1 .. k + 1
         PROVE  /\ Goes(nodes, t[i].node, key, Between(1, t[i]) + 1)
                /\ t[i + 1].node = nodes[t[i].node].inner[Between(1, t[i]) + 1]
    <3>1. CASE i = 1
      <4>1. t[2] = u[1] BY <2>16
      <4> QED BY <2>4, <2>8, <2>13, <2>16, <3>1, <4>1
    <3>2. CASE i # 1
      <4>1. i - 1 \in 1 .. k /\ i \in 2 .. k + 2 /\ i + 1 \in 2 .. k + 2 /\ (i + 1) - 1 = (i - 1) + 1 BY <3>2
      <4>2. t[i] = u[i - 1] /\ t[i + 1] = u[(i - 1) + 1] BY <2>16, <4>1
      <4> QED BY <2>8, <4>1, <4>2
    <3> QED BY <3>1, <3>2
  <2>19. t[k + 2].pos = StartAt(1, t[k + 2].node, key)
    <3>1. k + 2 \in 2 .. k + 2 /\ (k + 2) - 1 = k + 1 OBVIOUS
    <3>2. t[k + 2] = u[k + 1] BY <2>16, <3>1
    <3> QED BY <2>8, <3>2
  <2>20. Trail(lvl, 1, key, p, t)
    <3>1. (k + 1) + 1 = k + 2 /\ (k + 2) - 1 = k + 1 OBVIOUS
    <3>2. Len(t) = lvl[p] + 1 /\ t[1].node = p BY <2>13, <2>16, <3>1
    <3>3. \A i \in 1 .. Len(t) : /\ t[i].node \in UsedIn(nodes) /\ lvl[t[i].node] = lvl[p] + 1 - i
                                 /\ key <= nodes[t[i].node].key BY <2>16, <2>17, <3>1
    <3>4. 1 .. Len(t) - 1 = 1 .. k + 1 BY <2>16, <3>1
    <3>5. t[Len(t)].pos = StartAt(1, t[Len(t)].node, key) BY <2>16, <2>19
    <3> QED BY <2>16, <2>18, <3>2, <3>3, <3>4, <3>5 DEF Trail
  <2> QED BY <2>14, <2>15, <2>20
<1>15. Nat \subseteq T
  <2> HIDE DEF T
  <2> QED BY <1>13, <1>14, NatUpwards
<1>16. lvl[rootFpos] \in T BY <1>2, <1>15, HeightsAre
<1>17. rootFpos \in UsedIn(nodes) /\ key <= nodes[rootFpos].key BY <1>1, <1>2 DEF IsTree, Levels
<1> QED BY <1>4, <1>16, <1>17

(* A stack that goto leaves with a place of the leaf on top.               *)
LEMMA TrailStrung ==
  ASSUME NEW lvl, NEW lo, Stands(lvl, lo), NEW b \in Backs, NEW from \in 0 .. Infinity, NEW t,
         Trail(lvl, b, from, rootFpos, t)
  PROVE  /\ t # <<>> /\ Last(t) \in Frames /\ Last(t).node \in UsedIn(nodes) /\ nodes[Last(t).node].leaf
         /\ Last(t).pos = StartAt(b, Last(t).node, from) /\ from <= nodes[Last(t).node].key
         /\ Last(t).pos + 1 \in Places(nodes, Last(t).node) => Strung(lvl, b, t) /\ ~Spent(b, t)
<1>1. IsTree(nodes, rootFpos, lvl, lo) BY DEF Stands
<1>2. Typed(nodes) /\ Levels(nodes, rootFpos, lvl) BY <1>1 DEF IsTree
<1>3. PICK n \in Nat : n = lvl[rootFpos] + 1 /\ lvl[rootFpos] \in Nat /\ n \in 1 .. n
  <2>1. lvl[rootFpos] \in Nat BY <1>2, HeightsAre
  <2> QED BY <2>1
<1>4. t \in Seq(Frames) /\ Len(t) = n /\ t[1].node = rootFpos BY <1>3 DEF Trail
<1>5. \A i \in 1 .. n : /\ t[i].node \in UsedIn(nodes) /\ lvl[t[i].node] = lvl[rootFpos] + 1 - i
                        /\ from <= nodes[t[i].node].key
  BY <1>4 DEF Trail
<1>6. \A i \in 1 .. n - 1 : /\ Goes(nodes, t[i].node, from, Between(b, t[i]) + b)
                            /\ t[i + 1].node = nodes[t[i].node].inner[Between(b, t[i]) + b]
  BY <1>4 DEF Trail
<1>7. t[n].pos = StartAt(b, t[n].node, from) BY <1>4 DEF Trail
<1>8. Last(t) = t[n] /\ t[n] \in Frames /\ t # <<>> BY <1>3, <1>4 DEF Last
<1>9. \A i \in 1 .. n : t[i] \in Frames /\ t[i].pos \in Int
  <2>1. \A i \in 1 .. n : t[i] \in Frames BY <1>4
  <2> QED BY <2>1, NoNodeIs DEF Frames
<1>10. \A i \in 1 .. n : lvl[t[i].node] = n - i BY <1>3, <1>5
<1>11. nodes[t[n].node].leaf
  <2>1. lvl[t[n].node] = 0 BY <1>3, <1>10
  <2>2. PICK q \in UsedIn(nodes) : q = t[n].node BY <1>3, <1>5
  <2> QED BY <1>2, <2>1, <2>2 DEF Levels
<1>12. b = 0 \/ b = 1 BY DEF Backs
<1>13. ASSUME t[n].pos + 1 \in Places(nodes, t[n].node) PROVE Strung(lvl, b, t) /\ ~Spent(b, t)
  <2>1. PICK m \in Nat : m = Len(nodes[t[n].node].inner)
    <3>1. t[n].node \in Blocks BY <1>3, <1>5 DEF UsedIn
    <3> QED BY <1>2, <3>1, FieldsAre
  <2>2. t[n].pos \in 0 .. m - 1 BY <1>3, <1>9, <1>13, <2>1 DEF Places
  <2>3. Between(b, t[n]) \in 0 .. m BY <1>12, <2>1, <2>2 DEF Between
  <2>4. ASSUME NEW i \in 1 .. n - 1
        PROVE  /\ t[i].node \in InnerIn(nodes) /\ Between(b, t[i]) + b \in Places(nodes, t[i].node)
               /\ Between(b, t[i]) \in 0 .. Len(nodes[t[i].node].inner)
    <3>1. i \in 1 .. n /\ n - i # 0 BY <1>3
    <3>2. PICK q \in UsedIn(nodes) : q = t[i].node /\ lvl[q] # 0 BY <1>5, <1>10, <3>1
    <3>3. q \in InnerIn(nodes) BY <1>2, <3>2 DEF Levels, InnerIn
    <3>4. Between(b, t[i]) + b \in Places(nodes, q) BY <1>6, <3>2 DEF Goes
    <3>5. PICK k \in Int : k = Between(b, t[i]) BY <1>9, <1>12, <3>1 DEF Between
    <3>6. PICK w \in Nat : w = Len(nodes[q].inner)
      <4>1. q \in Blocks BY <3>2 DEF UsedIn
      <4> QED BY <1>2, <4>1, FieldsAre
    <3>7. k + b \in 1 .. w BY <3>4, <3>5, <3>6 DEF Places
    <3>8. k \in 0 .. w BY <1>12, <3>7
    <3> QED BY <3>2, <3>3, <3>4, <3>5, <3>6, <3>8
  <2>5. \A i \in 1 .. n : Between(b, t[i]) \in 0 .. Len(nodes[t[i].node].inner)
    <3>1. \A i \in 1 .. n : i = n \/ i \in 1 .. n - 1 BY <1>3
    <3> QED BY <2>1, <2>3, <2>4, <3>1
  <2>6. Strung(lvl, b, t)
    <3>1. \A i \in 1 .. Len(t) : /\ t[i].node \in UsedIn(nodes) /\ lvl[t[i].node] = lvl[rootFpos] + 1 - i
                                 /\ Between(b, t[i]) \in 0 .. Len(nodes[t[i].node].inner)
      BY <1>4, <1>5, <2>5
    <3>2. \A i \in 1 .. Len(t) - 1 : /\ t[i].node \in InnerIn(nodes)
                                     /\ Between(b, t[i]) + b \in Places(nodes, t[i].node)
                                     /\ nodes[t[i].node].inner[Between(b, t[i]) + b] = t[i + 1].node
      BY <1>4, <1>6, <2>4
    <3>3. Len(t) > 0 BY <1>3, <1>4
    <3> QED BY <1>4, <3>1, <3>2, <3>3 DEF Strung
  <2>7. ~Spent(b, t) BY <1>8, <2>1, <2>2 DEF Spent
  <2> QED BY <2>6, <2>7
<1> QED BY <1>3, <1>5, <1>7, <1>8, <1>11, <1>13

(* What is not below where the scan begins is below the last node, or      *)
(* after it.                                                               *)
LEMMA TrailAbove ==
  ASSUME NEW lvl, NEW lo, Stands(lvl, lo), NEW b \in Backs, NEW from \in 0 .. Infinity, NEW t,
         Trail(lvl, b, from, rootFpos, t), NEW e \in Kept(nodes), from <= e.key
  PROVE  lo[Last(t).node] < e.key
<1>1. IsTree(nodes, rootFpos, lvl, lo) BY DEF Stands
<1>2. Typed(nodes) /\ Levels(nodes, rootFpos, lvl) BY <1>1 DEF IsTree
<1>3. PICK n \in Nat : n = lvl[rootFpos] + 1 /\ lvl[rootFpos] \in Nat /\ n \in 1 .. n
  <2>1. lvl[rootFpos] \in Nat BY <1>2, HeightsAre
  <2> QED BY <2>1
<1>4. Len(t) = n /\ t[1].node = rootFpos BY <1>3 DEF Trail
<1> DEFINE T == {k \in Nat : k + 1 <= n => lo[t[k + 1].node] < e.key}
<1>5. 0 \in T
  <2>1. lo[rootFpos] < e.key BY <1>1, KeptKeys
  <2> QED BY <1>4, <2>1
<1>6. ASSUME NEW k \in Nat, k \in T PROVE k + 1 \in T
  <2> SUFFICES ASSUME (k + 1) + 1 <= n PROVE lo[t[(k + 1) + 1].node] < e.key OBVIOUS
  <2>1. PICK i \in 1 .. n - 1 : i = k + 1 BY <1>3
  <2>2. lo[t[i].node] < e.key BY <1>3, <1>6, <2>1
  <2>3. PICK q, j : q = t[i].node /\ j = Between(b, t[i]) + b OBVIOUS
  <2>4. Goes(nodes, q, from, j) /\ t[i + 1].node = nodes[q].inner[j] BY <1>4, <2>1, <2>3 DEF Trail
  <2>5. q \in InnerIn(nodes)
    <3>1. i \in 1 .. n /\ lvl[rootFpos] + 1 - i # 0 BY <1>3
    <3>2. q \in UsedIn(nodes) /\ lvl[q] # 0 BY <1>3, <1>4, <2>3, <3>1 DEF Trail
    <3> QED BY <1>2, <3>2 DEF Levels, InnerIn
  <2>6. j \in Places(nodes, q) BY <2>4 DEF Goes
  <2>7. Bound(lo, q, j - 1) < e.key
    <3>1. CASE j = 1
      <4>1. j - 1 = 0 BY <3>1
      <4> QED BY <2>2, <2>3, <4>1 DEF Bound
    <3>2. CASE j # 1
      <4>1. PICK w \in Nat : w = Len(nodes[q].inner)
        <5>1. q \in Blocks BY <2>5 DEF InnerIn, UsedIn
        <5> QED BY <1>2, <5>1, FieldsAre
      <4>2. j \in 1 .. w BY <2>6, <4>1 DEF Places
      <4>3. j > 1 /\ j - 1 # 0 /\ j - 1 \in 1 .. w BY <3>2, <4>2
      <4>4. KeyAt(nodes, q, j - 1) < from BY <2>4, <4>3 DEF Goes
      <4>5. KeyAt(nodes, q, j - 1) \in Nat
        <5>1. j - 1 \in Places(nodes, q) BY <4>1, <4>3 DEF Places
        <5>2. q \in UsedIn(nodes) BY <2>5 DEF InnerIn
        <5> QED BY <1>2, <5>1, <5>2, ChildrenAre
      <4>6. e.key \in Nat /\ from \in Nat BY <1>1, KeptKeys, NoNodeIs
      <4> QED BY <4>3, <4>4, <4>5, <4>6 DEF Bound
    <3> QED BY <3>1, <3>2
  <2>8. lo[nodes[q].inner[j]] < e.key BY <2>5, <2>6, <2>7, GapBelow
  <2> QED BY <2>1, <2>4, <2>8
<1>7. Nat \subseteq T
  <2> HIDE DEF T
  <2> QED BY <1>5, <1>6, NatUpwards
<1>8. n - 1 \in Nat /\ (n - 1) + 1 = n BY <1>3
<1>9. n - 1 \in T BY <1>7, <1>8
<1>10. Last(t) = t[n] BY <1>4 DEF Last
<1> QED BY <1>3, <1>8, <1>9, <1>10

(* Only a tree without entries has a leaf without one.                     *)
LEMMA LeafEmpty ==
  ASSUME NEW lvl, NEW lo, Stands(lvl, lo), NEW q \in UsedIn(nodes), nodes[q].leaf, Places(nodes, q) = {}
  PROVE  Kept(nodes) = {}
<1>1. IsTree(nodes, rootFpos, lvl, lo) /\ Branching(nodes) BY DEF Stands
<1>2. Typed(nodes) BY <1>1 DEF IsTree
<1>3. q = rootFpos
  <2>1. q \in Blocks BY DEF UsedIn
  <2>2. PICK s \in Seq(Children) : s = nodes[q].inner BY <1>2, <2>1, FieldsAre
  <2>3. Len(s) = 0
    <3>1. PICK w \in Nat : w = Len(s) BY <2>2
    <3>2. 1 .. w = {} BY <2>2, <3>1 DEF Places
    <3>3. w # 0 => 1 \in 1 .. w OBVIOUS
    <3> QED BY <3>1, <3>2, <3>3
  <2>4. s = <<>> BY ONLY <2>3, s \in Seq(Children)
  <2> QED BY <2>2, <2>4 DEF Stands, Filled
<1>4. ASSUME NEW e \in Kept(nodes) PROVE FALSE
  <2>1. /\ lo[rootFpos] < e.key /\ e.key < Infinity /\ nodes[rootFpos].key = Infinity /\ rootFpos \in UsedIn(nodes)
        /\ e.key \in Nat /\ Infinity \in Nat
    BY <1>1, KeptKeys, NoNodeIs
  <2>2. e.key <= nodes[rootFpos].key BY <2>1
  <2>3. \E j \in Places(nodes, rootFpos) : nodes[rootFpos].inner[j] = e BY <1>1, <1>3, <2>1, <2>2, EntryUnder
  <2> QED BY <1>3, <2>3
<1> QED BY <1>4

(* An entry whose key a scan begins at is in the leaf it begins in.        *)
LEMMA StartHeld ==
  ASSUME NEW lvl, NEW lo, Stands(lvl, lo), NEW b \in Backs, NEW from \in 0 .. Infinity, NEW t,
         Trail(lvl, b, from, rootFpos, t), Known(from), Kept(nodes) # {}, from > 0, from < Infinity
  PROVE  \E j \in Places(nodes, Last(t).node) : KeyAt(nodes, Last(t).node, j) = from
<1>1. IsTree(nodes, rootFpos, lvl, lo) /\ Branching(nodes) BY DEF Stands
<1>2. from # 0 /\ from # Infinity BY NoNodeIs
<1>3. PICK e \in Kept(nodes) : e.key = from BY <1>2 DEF Known
<1>4. PICK q \in UsedIn(nodes) : q = Last(t).node /\ nodes[q].leaf /\ from <= nodes[q].key BY TrailStrung
<1>5. e.key \in Nat /\ from <= e.key BY <1>1, <1>3, KeptKeys
<1>6. lo[q] < e.key BY <1>4, <1>5, TrailAbove
<1>7. e.key <= nodes[q].key BY <1>3, <1>4
<1> QED BY <1>1, <1>3, <1>4, <1>6, <1>7, EntryUnder

(* gotoKey: the leaf has the entry the scan begins with, or none is left.  *)
LEMMA UpBegun ==
  ASSUME NEW lvl, NEW lo, Stands(lvl, lo), NEW from \in 0 .. Infinity, NEW t, Trail(lvl, 0, from, rootFpos, t)
  PROVE  IF Last(t).pos + 1 \in Places(nodes, Last(t).node) THEN ComingTo(lo, 0, t) = From(0, from)
         ELSE Known(from) => From(0, from) = {}
<1>1. IsTree(nodes, rootFpos, lvl, lo) /\ Branching(nodes) BY DEF Stands
<1>2. Typed(nodes) /\ Levels(nodes, rootFpos, lvl) /\ Ordered(nodes, lo) BY <1>1 DEF IsTree
<1>3. from \in Nat /\ Infinity \in Nat /\ 0 \in Backs BY NoNodeIs DEF Backs
<1>4. PICK q \in UsedIn(nodes) : q = Last(t).node /\ nodes[q].leaf /\ Last(t).pos = StartAt(0, q, from)
  BY <1>3, TrailStrung
<1>5. PICK c : c = NextChild(ChildKeys(nodes, q), from) OBVIOUS
<1>6. Last(t).pos = c - 1 BY <1>4, <1>5 DEF StartAt
<1>7. \/ c = 0 /\ \A i \in Places(nodes, q) : KeyAt(nodes, q, i) < from
      \/ Goes(nodes, q, from, c)
  BY <1>2, <1>3, <1>5, NextChildIs
<1>8. \A i \in Places(nodes, q) : i \in Nat /\ i # 0 /\ KeyAt(nodes, q, i) \in Nat /\ KeyAt(nodes, q, i) # 0
  BY <1>2, ChildrenAre DEF Places
<1>9. \A e \in Kept(nodes) : e.key \in Nat /\ e.key < Infinity /\ e.key > 0 BY <1>1, KeptKeys
<1>10. CASE Goes(nodes, q, from, c)
  <2>1. c \in Places(nodes, q) /\ from <= KeyAt(nodes, q, c) /\ (c > 1 => KeyAt(nodes, q, c - 1) < from) BY <1>10 DEF Goes
  <2>2. c \in Nat /\ c # 0 /\ Last(t).pos \in Int /\ Last(t).pos + 1 = c /\ Between(0, Last(t)) = c - 1
    BY <1>6, <1>8, <2>1 DEF Between
  <2>3. ASSUME NEW e \in Kept(nodes) PROVE Bound(lo, q, c - 1) < e.key <=> from <= e.key
    <3>1. Bound(lo, q, c - 1) < e.key <=> KeyAt(nodes, q, c) <= e.key BY <1>4, <2>1, GapIn
    <3>2. KeyAt(nodes, q, c) <= e.key => from <= e.key BY <1>3, <1>8, <1>9, <2>1
    <3>3. ASSUME from <= e.key PROVE Bound(lo, q, c - 1) < e.key
      <4>1. lo[q] < e.key BY <1>3, <1>4, <3>3, TrailAbove
      <4>2. CASE c = 1
        <5>1. c - 1 = 0 BY <4>2
        <5> QED BY <4>1, <5>1 DEF Bound
      <4>3. CASE c # 1
        <5>1. c > 1 /\ c - 1 # 0 BY <2>2, <4>3
        <5>2. Bound(lo, q, c - 1) = KeyAt(nodes, q, c - 1) BY <5>1 DEF Bound
        <5>3. Bound(lo, q, c - 1) \in Nat BY <1>1, <2>1, BoundIs
        <5> QED BY <1>3, <1>9, <2>1, <3>3, <5>1, <5>2, <5>3
      <4> QED BY <4>2, <4>3
    <3> QED BY <3>1, <3>2, <3>3
  <2>4. ComingTo(lo, 0, t) = {e \in Kept(nodes) : Bound(lo, q, c - 1) < e.key} BY <1>4, <2>2 DEF ComingTo, Coming
  <2>5. ComingTo(lo, 0, t) = From(0, from) BY <2>3, <2>4 DEF From
  <2> QED BY <1>4, <2>1, <2>2, <2>5
<1>11. CASE c = 0 /\ \A i \in Places(nodes, q) : KeyAt(nodes, q, i) < from
  <2>1. ~(Last(t).pos + 1 \in Places(nodes, q))
    <3>1. Last(t).pos + 1 = 0 BY <1>6, <1>11
    <3> QED BY <1>8, <3>1
  <2>2. ASSUME Known(from), NEW e \in Kept(nodes), from <= e.key PROVE FALSE
    <3>1. CASE from = 0
      <4>1. Places(nodes, q) = {} BY <1>3, <1>8, <1>11, <3>1
      <4> QED BY <1>4, <2>2, <4>1, LeafEmpty
    <3>2. CASE from # 0
      <4>1. from > 0 /\ from < Infinity BY <1>3, <1>9, <2>2, <3>2
      <4>2. PICK j \in Places(nodes, q) : KeyAt(nodes, q, j) = from
        <5>1. Kept(nodes) # {} BY <2>2
        <5> QED BY <1>3, <1>4, <2>2, <4>1, <5>1, StartHeld
      <4> QED BY <1>3, <1>11, <4>2
    <3> QED BY <3>1, <3>2
  <2>3. Known(from) => From(0, from) = {} BY <2>2 DEF From
  <2> QED BY <1>4, <2>1, <2>3
<1> QED BY <1>7, <1>10, <1>11

(* gotoKeyPrevious: the same, the other way.                               *)
LEMMA DownBegun ==
  ASSUME NEW lvl, NEW lo, Stands(lvl, lo), NEW from \in 0 .. Infinity, NEW t, Trail(lvl, 1, from, rootFpos, t)
  PROVE  IF Last(t).pos + 1 \in Places(nodes, Last(t).node) THEN ComingTo(lo, 1, t) = From(1, from)
         ELSE Known(from) => From(1, from) = {}
<1>1. IsTree(nodes, rootFpos, lvl, lo) /\ Branching(nodes) BY DEF Stands
<1>2. Typed(nodes) /\ Levels(nodes, rootFpos, lvl) /\ Ordered(nodes, lo) BY <1>1 DEF IsTree
<1>3. from \in Nat /\ Infinity \in Nat /\ 1 \in Backs BY NoNodeIs DEF Backs
<1>4. PICK q \in UsedIn(nodes) : /\ q = Last(t).node /\ nodes[q].leaf /\ Last(t).pos = StartAt(1, q, from)
                                 /\ from <= nodes[q].key
  BY <1>3, TrailStrung
<1>5. PICK d : d = LastUpTo(ChildKeys(nodes, q), from) OBVIOUS
<1>6. Last(t).pos = d - 1 BY <1>4, <1>5 DEF StartAt
<1>7. \/ d = 0 /\ \A i \in Places(nodes, q) : from < KeyAt(nodes, q, i)
      \/ /\ d \in Places(nodes, q) /\ KeyAt(nodes, q, d) <= from
         /\ \A i \in Places(nodes, q) : KeyAt(nodes, q, i) <= from => i <= d
  BY <1>2, <1>3, <1>5, LastUpToIs
<1>8. \A i \in Places(nodes, q) : /\ i \in Nat /\ i # 0 /\ KeyAt(nodes, q, i) \in Nat
                                  /\ KeyAt(nodes, q, i) <= nodes[q].key
  BY <1>2, ChildrenAre DEF Places, Ordered
<1>9. \A e \in Kept(nodes) : e.key \in Nat /\ e.key < Infinity /\ e.key > 0 BY <1>1, KeptKeys
<1>10. nodes[q].key \in Nat /\ nodes[q].key <= Infinity /\ lo[q] \in Nat
  <2>1. q \in Blocks BY DEF UsedIn
  <2>2. nodes[q].key \in 0 .. Infinity BY <1>2, <2>1, FieldsAre
  <2> QED BY <1>1, <1>3, <2>2, BoundIs
<1>11. CASE /\ d \in Places(nodes, q) /\ KeyAt(nodes, q, d) <= from
            /\ \A i \in Places(nodes, q) : KeyAt(nodes, q, i) <= from => i <= d
  <2>1. d \in Nat /\ d # 0 /\ Last(t).pos \in Int /\ Last(t).pos + 1 = d /\ Between(1, Last(t)) = d
    BY <1>6, <1>8, <1>11 DEF Between
  <2>2. Bound(lo, q, d) = KeyAt(nodes, q, d) /\ KeyAt(nodes, q, d) \in Nat BY <1>8, <1>11, <2>1 DEF Bound
  <2>3. ASSUME NEW e \in Kept(nodes) PROVE ~(Bound(lo, q, d) < e.key) <=> e.key <= from
    <3>1. ~(Bound(lo, q, d) < e.key) => e.key <= from BY <1>3, <1>9, <1>11, <2>2
    <3>2. ASSUME e.key <= from, KeyAt(nodes, q, d) < e.key PROVE FALSE
      <4>1. lo[q] < KeyAt(nodes, q, d) BY <1>2, <1>11 DEF Ordered
      <4>2. lo[q] < e.key BY <1>9, <1>10, <2>2, <3>2, <4>1
      <4>3. e.key <= nodes[q].key BY <1>3, <1>4, <1>9, <1>10, <3>2
      <4>4. PICK j \in Places(nodes, q) : KeyAt(nodes, q, j) = e.key BY <1>1, <1>4, <4>2, <4>3, EntryUnder
      <4>5. j <= d BY <1>11, <3>2, <4>4
      <4>6. j = d \/ j < d BY <1>8, <2>1, <4>4, <4>5
      <4>7. j < d => KeyAt(nodes, q, j) < KeyAt(nodes, q, d) BY <1>2, <1>11 DEF Ordered
      <4> QED BY <1>9, <2>2, <3>2, <4>4, <4>6, <4>7
    <3> QED BY <2>2, <3>1, <3>2
  <2>4. ComingTo(lo, 1, t) = {e \in Kept(nodes) : ~(Bound(lo, q, d) < e.key)} BY <1>4, <2>1 DEF ComingTo, Coming
  <2>5. ComingTo(lo, 1, t) = From(1, from) BY <2>3, <2>4 DEF From
  <2> QED BY <1>4, <1>11, <2>1, <2>5
<1>12. CASE d = 0 /\ \A i \in Places(nodes, q) : from < KeyAt(nodes, q, i)
  <2>1. ~(Last(t).pos + 1 \in Places(nodes, q))
    <3>1. Last(t).pos + 1 = 0 BY <1>6, <1>12
    <3> QED BY <1>8, <3>1
  <2>2. ASSUME Known(from), NEW e \in Kept(nodes), e.key <= from PROVE FALSE
    <3>1. from > 0 BY <1>3, <1>9, <2>2
    <3>2. CASE from = Infinity
      <4>1. Places(nodes, q) = {}
        <5>1. ASSUME NEW i \in Places(nodes, q) PROVE FALSE BY <1>3, <1>8, <1>10, <1>12, <3>2
        <5> QED BY <5>1
      <4> QED BY <1>4, <2>2, <4>1, LeafEmpty
    <3>3. CASE from # Infinity
      <4>1. from < Infinity BY <1>3, <3>3
      <4>2. PICK j \in Places(nodes, q) : KeyAt(nodes, q, j) = from
        <5>1. Kept(nodes) # {} BY <2>2
        <5> QED BY <1>3, <1>4, <2>2, <3>1, <4>1, <5>1, StartHeld
      <4> QED BY <1>3, <1>12, <4>2
    <3> QED BY <3>2, <3>3
  <2>3. Known(from) => From(1, from) = {} BY <2>2 DEF From
  <2> QED BY <1>4, <2>1, <2>3
<1> QED BY <1>7, <1>11, <1>12

(* The first entry of a scan.                                              *)
LEMMA TrailBegun ==
  ASSUME NEW lvl, NEW lo, Stands(lvl, lo), NEW b \in Backs, NEW from \in 0 .. Infinity, NEW t,
         Trail(lvl, b, from, rootFpos, t)
  PROVE  /\ t # <<>> /\ Last(t) \in Frames /\ Last(t).node \in UsedIn(nodes)
         /\ IF Last(t).pos + 1 \in Places(nodes, Last(t).node)
            THEN Strung(lvl, b, t) /\ ~Spent(b, t) /\ nodes[Last(t).node].leaf /\ ComingTo(lo, b, t) = From(b, from)
            ELSE Known(from) => From(b, from) = {}
<1>1. CASE b = 0 BY <1>1, TrailStrung, UpBegun
<1>2. CASE b = 1 BY <1>2, TrailStrung, DownBegun
<1> QED BY <1>1, <1>2 DEF Backs

-----------------------------------------------------------------------------
(* What a scan gives.                                                      *)

(* The children of a leaf are entries.                                     *)
LEMMA LeafHolds ==
  ASSUME NEW lvl, NEW lo, IsTree(nodes, rootFpos, lvl, lo), NEW p \in UsedIn(nodes), nodes[p].leaf,
         NEW k \in Places(nodes, p)
  PROVE  /\ nodes[p].inner[k] \in Kept(nodes) /\ nodes[p].inner[k].key = KeyAt(nodes, p, k)
         /\ KeyAt(nodes, p, k) \in Nat /\ k \in Nat /\ Len(nodes[p].inner) \in Nat
<1>1. Typed(nodes) /\ Levels(nodes, rootFpos, lvl) BY DEF IsTree
<1>2. nodes[p].inner[k] \in Entries /\ KeyAt(nodes, p, k) = nodes[p].inner[k].key /\ KeyAt(nodes, p, k) \in Nat
  BY <1>1, ChildrenAre
<1>3. nodes[p].inner[k] \in Kept(nodes) BY <1>2 DEF Kept, HoldsAt
<1>4. p \in Blocks BY DEF UsedIn
<1>5. Len(nodes[p].inner) \in Nat /\ k \in Nat BY <1>1, <1>4, FieldsAre
<1> QED BY <1>2, <1>3, <1>5

(* What is to come after an entry was given: the entries after it.         *)
LEMMA GivenComing ==
  ASSUME NEW lvl, NEW lo, Stands(lvl, lo), NEW b \in Backs, NEW s, NEW e, Given(lvl, b, s, e)
  PROVE  e \in Kept(nodes) /\ ComingTo(lo, b, s) = Past(b, e)
<1>1. IsTree(nodes, rootFpos, lvl, lo) BY DEF Stands
<1>2. Strung(lvl, b, s) BY DEF Given
<1>3. PICK p \in UsedIn(nodes), k \in Int : p = Last(s).node /\ k = Between(b, Last(s))
  <2>1. Last(s).node \in UsedIn(nodes) /\ Last(s).pos \in Int /\ Last(s).pos = Between(b, Last(s)) - b BY <1>2, TopIs
  <2>2. Between(b, Last(s)) \in Int BY <2>1 DEF Between, Backs
  <2> QED BY <2>1, <2>2
<1>4. nodes[p].leaf /\ k + b \in Places(nodes, p) /\ e = nodes[p].inner[k + b] BY <1>3 DEF Given
<1>5. e \in Kept(nodes) /\ e.key = KeyAt(nodes, p, k + b) /\ e.key \in Nat BY <1>1, <1>4, LeafHolds
<1>6. ASSUME NEW f \in Kept(nodes)
      PROVE  (IF b = 0 THEN Bound(lo, p, k) < f.key ELSE ~(Bound(lo, p, k) < f.key))
             <=> IF b = 0 THEN e.key < f.key ELSE f.key < e.key
  <2>1. CASE b = 0
    <3>1. k + b = k BY <2>1
    <3>2. Bound(lo, p, k) = KeyAt(nodes, p, k) BY <1>1, <1>4, <3>1, BoundIs
    <3> QED BY <1>5, <2>1, <3>1, <3>2
  <2>2. CASE b = 1
    <3>1. (k + b) - 1 = k BY <2>2
    <3>2. Bound(lo, p, (k + b) - 1) < f.key <=> KeyAt(nodes, p, k + b) <= f.key BY <1>4, GapIn
    <3>3. f.key \in Nat BY <1>1, KeptKeys
    <3>4. ~(e.key <= f.key) <=> f.key < e.key BY <1>5, <3>3
    <3> QED BY <1>5, <2>2, <3>1, <3>2, <3>4
  <2> QED BY <2>1, <2>2 DEF Backs
<1>7. ComingTo(lo, b, s) = Past(b, e) BY <1>3, <1>6 DEF ComingTo, Coming, Past
<1> QED BY <1>5, <1>7

(* The cursor gives the nearest of the entries to come.                    *)
LEMMA GiveIs ==
  ASSUME NEW lvl, NEW lo, Stands(lvl, lo), NEW b \in Backs, NEW t, Strung(lvl, b, t), ~Spent(b, t),
         nodes[Last(t).node].leaf, NEW e, e = nodes[Last(t).node].inner[Last(t).pos + 1]
  PROVE  /\ Last(t).pos \in 0 .. Len(nodes[Last(t).node].inner) - 1
         /\ Given(lvl, b, Append(Front(t), Passed(b, t)), e)
         /\ e \in ComingTo(lo, b, t)
         /\ \A f \in ComingTo(lo, b, t) : IF b = 0 THEN e.key <= f.key ELSE f.key <= e.key
<1>1. IsTree(nodes, rootFpos, lvl, lo) BY DEF Stands
<1>2. PICK n \in Nat, p \in UsedIn(nodes) : n = Len(t) /\ n > 0 /\ p = Last(t).node /\ Last(t) = t[n]
  <2>1. Len(t) > 0 BY DEF Strung
  <2> QED BY <2>1, TopIs
<1>3. PICK k \in Places(nodes, p) : k = Last(t).pos + 1
  <2>1. t \in Stacks(b) BY StrungIsStack
  <2> QED BY <1>2, <2>1, StackTop
<1>4. e = nodes[p].inner[k] /\ nodes[p].leaf BY <1>2, <1>3
<1>5. e \in Kept(nodes) /\ e.key = KeyAt(nodes, p, k) /\ e.key \in Nat /\ k \in Nat BY <1>1, <1>4, LeafHolds
<1>6. PICK m \in Nat : m = Len(nodes[p].inner) /\ m <= NodeNumber /\ NodeNumber \in Nat
  <2>1. Len(nodes[p].inner) \in Nat BY <1>1, <1>4, LeafHolds
  <2> QED BY <2>1, NoNodeIs DEF Stands, Limited
<1>7. k \in 1 .. m BY <1>3, <1>6 DEF Places
<1>8. Last(t).pos \in Int /\ Last(t).pos = k - 1 BY <1>3, <1>5, TopIs
<1>9. b = 0 \/ b = 1 BY DEF Backs
<1>10. PICK g : g = Last(t).pos + 1 - (b + b) OBVIOUS
<1>11. g \in -1 .. NodeNumber /\ g + b \in 0 .. m /\ (g + b) + b = k BY <1>6, <1>7, <1>8, <1>9, <1>10
<1>12. PICK x : x = Passed(b, t) OBVIOUS
<1>13. x = [node |-> p, pos |-> g] BY <1>2, <1>10, <1>12 DEF Passed, Frame
<1>14. p \in Blocks BY DEF UsedIn
<1>15. x \in Frames /\ x.node = p /\ Between(b, x) = g + b BY <1>11, <1>13, <1>14 DEF Frames, Between
<1>16. PICK u : u = Append(Front(t), x) OBVIOUS
<1>17. u \in Seq(Frames) /\ Len(u) = n /\ u[n] = x /\ \A i \in 1 .. n - 1 : u[i] = t[i]
  <2>1. t \in Seq(Frames) BY DEF Strung
  <2> QED BY <1>2, <1>15, <1>16, <2>1, ReplacedIs
<1>18. Last(u) = x BY <1>17 DEF Last
<1>19. \A i \in 1 .. n : u[i].node = t[i].node
  <2>1. \A i \in 1 .. n : i = n \/ i \in 1 .. n - 1 BY <1>2
  <2>2. u[n].node = t[n].node BY <1>2, <1>15, <1>17
  <2> QED BY <1>17, <2>1, <2>2
<1>20. Strung(lvl, b, u)
  <2>1. u[1].node = rootFpos
    <3>1. 1 \in 1 .. n BY <1>2
    <3> QED BY <1>19, <3>1 DEF Strung
  <2>2. ASSUME NEW i \in 1 .. Len(u)
        PROVE  /\ u[i].node \in UsedIn(nodes) /\ lvl[u[i].node] = lvl[rootFpos] + 1 - i
               /\ Between(b, u[i]) \in 0 .. Len(nodes[u[i].node].inner)
    <3>1. i \in 1 .. n /\ i \in 1 .. Len(t) BY <1>2, <1>17
    <3>2. /\ t[i].node \in UsedIn(nodes) /\ lvl[t[i].node] = lvl[rootFpos] + 1 - i
          /\ Between(b, t[i]) \in 0 .. Len(nodes[t[i].node].inner) BY <3>1 DEF Strung
    <3>3. CASE i = n
      <4>1. Between(b, u[i]) \in 0 .. Len(nodes[u[i].node].inner) BY <1>6, <1>11, <1>15, <1>17, <3>3
      <4> QED BY <1>19, <3>1, <3>2, <4>1
    <3>4. CASE i # n
      <4>1. u[i] = t[i] BY <1>17, <3>1, <3>4
      <4> QED BY <3>2, <4>1
    <3> QED BY <3>3, <3>4
  <2>3. ASSUME NEW i \in 1 .. Len(u) - 1
        PROVE  /\ u[i].node \in InnerIn(nodes)
               /\ Between(b, u[i]) + b \in Places(nodes, u[i].node)
               /\ nodes[u[i].node].inner[Between(b, u[i]) + b] = u[i + 1].node
    <3>1. i \in 1 .. n - 1 /\ i \in 1 .. Len(t) - 1 /\ i + 1 \in 1 .. n BY <1>2, <1>17
    <3>2. u[i] = t[i] /\ u[i + 1].node = t[i + 1].node BY <1>17, <1>19, <3>1
    <3> QED BY <3>1, <3>2 DEF Strung
  <2>4. Len(u) > 0 BY <1>2, <1>17
  <2> QED BY <1>17, <2>1, <2>2, <2>3, <2>4 DEF Strung
<1>21. Given(lvl, b, u, e) BY <1>3, <1>4, <1>11, <1>15, <1>18, <1>20 DEF Given
<1>22. PICK j \in Int : j = Between(b, Last(t)) /\ j = k - 1 + b BY <1>8, <1>9 DEF Between
<1>23. ASSUME NEW f \in Kept(nodes)
       PROVE  (IF b = 0 THEN Bound(lo, p, j) < f.key ELSE ~(Bound(lo, p, j) < f.key))
              <=> IF b = 0 THEN e.key <= f.key ELSE f.key <= e.key
  <2>1. CASE b = 0
    <3>1. j = k - 1 BY <1>5, <1>22, <2>1
    <3>2. Bound(lo, p, k - 1) < f.key <=> KeyAt(nodes, p, k) <= f.key BY <1>4, GapIn
    <3> QED BY <1>5, <2>1, <3>1, <3>2
  <2>2. CASE b = 1
    <3>1. j = k BY <1>5, <1>22, <2>2
    <3>2. Bound(lo, p, k) = KeyAt(nodes, p, k) BY <1>1, BoundIs
    <3>3. f.key \in Nat BY <1>1, KeptKeys
    <3>4. ~(e.key < f.key) <=> f.key <= e.key BY <1>5, <3>3
    <3> QED BY <1>5, <2>2, <3>1, <3>2, <3>4
  <2> QED BY <1>9, <2>1, <2>2
<1>24. ComingTo(lo, b, t) = {f \in Kept(nodes) : IF b = 0 THEN e.key <= f.key ELSE f.key <= e.key}
  BY <1>2, <1>22, <1>23 DEF ComingTo, Coming
<1>25. e \in ComingTo(lo, b, t) BY <1>5, <1>24
<1>26. \A f \in ComingTo(lo, b, t) : IF b = 0 THEN e.key <= f.key ELSE f.key <= e.key BY <1>24
<1>27. Last(t).pos \in 0 .. Len(nodes[Last(t).node].inner) - 1 BY <1>2, <1>6, <1>7, <1>8
<1> QED BY <1>12, <1>16, <1>21, <1>25, <1>26, <1>27

-----------------------------------------------------------------------------
(* What the invariant says of a tree that is scanned.                      *)
LEMMA InvStands == TreeInv => \E lvl, lo : Stands(lvl, lo)
<1> SUFFICES ASSUME TreeInv PROVE \E lvl, lo : Stands(lvl, lo) OBVIOUS
<1>1. PICK lvl, lo \in [Blocks -> Nat] : IsTree(nodes, rootFpos, lvl, lo) BY InvBranching
<1>2. Branching(nodes) BY InvBranching
<1>3. Filled(nodes, {rootFpos}) /\ Flagged(nodes, rootFpos) /\ Limited(nodes) BY DEF TreeInv
<1>4. Stands(lvl, lo) BY <1>1, <1>2, <1>3 DEF Stands
<1> QED BY <1>4

(* What getNext and getPrevious find is under the cursor.                  *)
LEMMA ReachedCursor ==
  ASSUME NEW lvl, NEW lo, Stands(lvl, lo), NEW b \in Backs, NEW M, Moves(b, M), NEW s, Strung(lvl, b, s)
  PROVE  Cursor(lvl, lo, b, ComingTo(lo, b, s), M[s])
<1>1. PICK t : t = M[s] OBVIOUS
<1>2. Reached(lvl, lo, b, s, t) BY <1>1, LoopReaches
<1>3. CASE t = <<>> /\ ComingTo(lo, b, s) = {} BY <1>1, <1>3 DEF Cursor
<1>4. CASE /\ Strung(lvl, b, t) /\ ~Spent(b, t) /\ nodes[Last(t).node].leaf
           /\ ComingTo(lo, b, t) = ComingTo(lo, b, s)
  <2>1. t # <<>> /\ Last(t) \in Frames /\ Last(t).node \in UsedIn(nodes) BY <1>4, TopIs
  <2>2. t \in Stacks(b) BY <1>4, StrungIsStack
  <2>3. Last(t).pos + 1 \in Places(nodes, Last(t).node) BY <1>4, <2>2, StackTop
  <2> QED BY <1>1, <1>4, <2>1, <2>3 DEF Cursor
<1> QED BY <1>2, <1>3, <1>4 DEF Reached

(* The cursor before the first entry.                                      *)
LEMMA BegunCursor ==
  ASSUME NEW lvl, NEW lo, Stands(lvl, lo), NEW b \in Backs, NEW from \in 0 .. Infinity, NEW t,
         Trail(lvl, b, from, rootFpos, t), KnownStart => Known(from)
  PROVE  Cursor(lvl, lo, b, From(b, from), t)
<1>1. /\ t # <<>> /\ Last(t) \in Frames /\ Last(t).node \in UsedIn(nodes)
      /\ IF Last(t).pos + 1 \in Places(nodes, Last(t).node)
         THEN Strung(lvl, b, t) /\ ~Spent(b, t) /\ nodes[Last(t).node].leaf /\ ComingTo(lo, b, t) = From(b, from)
         ELSE Known(from) => From(b, from) = {}
  BY TrailBegun
<1> QED BY <1>1 DEF Cursor

(* hasNext and hasPrevious move the cursor to what is to come.             *)
LEMMA MovedIs ==
  ASSUME TreeInv, ScanInv, scan # NoScan
  PROVE  \E lvl, lo : Stands(lvl, lo) /\ Cursor(lvl, lo, Back(scan.dir), Left(scan), Moved(scan))
<1>1. scan \in Scans /\ scan.from \in 0 .. Infinity /\ Back(scan.dir) \in Backs
  BY DEF ScanInv, Scans, Starts, Back, Backs
<1>2. scan.dir = "up" \/ scan.dir = "down" BY <1>1 DEF Scans
<1>3. CASE scan.at = NoEntry
  <2>1. PICK lvl, lo : Stands(lvl, lo) BY InvStands
  <2>2. scan.stack = <<Frame(rootFpos, 0)>> /\ (KnownStart => Known(scan.from)) BY <1>3 DEF ScanInv, Begun
  <2>3. Left(scan) = From(Back(scan.dir), scan.from) BY <1>3 DEF Left
  <2>4. CASE scan.dir = "up"
    <3>1. Moved(scan) = GotoKey(Path(scan.from), scan.from) /\ Back(scan.dir) = 0 BY <1>3, <2>4 DEF Moved, Back
    <3>2. Trail(lvl, 0, scan.from, rootFpos, Moved(scan)) BY <1>1, <2>1, <3>1, GotoKeyIs
    <3>3. Cursor(lvl, lo, 0, From(0, scan.from), Moved(scan)) BY <1>1, <2>1, <2>2, <3>1, <3>2, BegunCursor
    <3> QED BY <2>1, <2>3, <3>1, <3>3
  <2>5. CASE scan.dir = "down"
    <3>1. scan.stack[1].node = rootFpos
      <4>1. scan.stack[1] = Frame(rootFpos, 0) BY <2>2
      <4> QED BY <4>1 DEF Frame
    <3>2. Moved(scan) = GotoKeyPrevious(rootFpos, scan.from) /\ Back(scan.dir) = 1
      BY <1>3, <2>5, <3>1 DEF Moved, Back
    <3>3. Trail(lvl, 1, scan.from, rootFpos, Moved(scan)) BY <1>1, <2>1, <3>2, GotoKeyPreviousIs
    <3>4. Cursor(lvl, lo, 1, From(1, scan.from), Moved(scan)) BY <1>1, <2>1, <2>2, <3>2, <3>3, BegunCursor
    <3> QED BY <2>1, <2>3, <3>2, <3>4
  <2> QED BY <1>2, <2>4, <2>5
<1>4. CASE scan.at # NoEntry
  <2>1. PICK lvl, lo : Stands(lvl, lo) /\ Given(lvl, Back(scan.dir), scan.stack, scan.at) BY <1>4 DEF ScanInv, Under
  <2>2. Strung(lvl, Back(scan.dir), scan.stack) BY <2>1 DEF Given
  <2>3. ComingTo(lo, Back(scan.dir), scan.stack) = Left(scan)
    <3>1. ComingTo(lo, Back(scan.dir), scan.stack) = Past(Back(scan.dir), scan.at) BY <1>1, <2>1, GivenComing
    <3> QED BY <1>4, <3>1 DEF Left
  <2>4. CASE scan.dir = "up"
    <3>1. PICK M : Moves(0, M) /\ \A stack : GetNext(stack) = M[stack] BY <2>1, NextLoops
    <3>2. Moved(scan) = M[scan.stack] /\ Back(scan.dir) = 0 BY <1>4, <2>4, <3>1 DEF Moved, Back
    <3>3. Cursor(lvl, lo, 0, ComingTo(lo, 0, scan.stack), M[scan.stack])
      BY <1>1, <2>1, <2>2, <3>1, <3>2, ReachedCursor
    <3> QED BY <2>1, <2>3, <3>2, <3>3
  <2>5. CASE scan.dir = "down"
    <3>1. PICK M : Moves(1, M) /\ \A stack : GetPrevious(stack) = M[stack] BY <2>1, PreviousLoops
    <3>2. Moved(scan) = M[scan.stack] /\ Back(scan.dir) = 1 BY <1>4, <2>5, <3>1 DEF Moved, Back
    <3>3. Cursor(lvl, lo, 1, ComingTo(lo, 1, scan.stack), M[scan.stack])
      BY <1>1, <2>1, <2>2, <3>1, <3>2, ReachedCursor
    <3> QED BY <2>1, <2>3, <3>2, <3>3
  <2> QED BY <1>2, <2>4, <2>5
<1> QED BY <1>3, <1>4

(* A step of a scan gives the nearest entry, or ends it.                   *)
LEMMA ScanGives ==
  ASSUME TreeInv, ScanInv, HasNext
  PROVE  Gave
<1>1. scan # NoScan BY DEF HasNext
<1>2. PICK lvl, lo : Stands(lvl, lo) /\ Cursor(lvl, lo, Back(scan.dir), Left(scan), Moved(scan)) BY <1>1, MovedIs
<1>3. PICK b, L : b = Back(scan.dir) /\ L = Left(scan) OBVIOUS
<1>4. scan \in Scans /\ b \in Backs /\ (scan.dir = "up" <=> b = 0) BY <1>1, <1>3 DEF ScanInv, Scans, Back, Backs
<1>5. PICK t : t = Moved(scan) OBVIOUS
<1>6. IF t = <<>> THEN scan' = NoScan ELSE Give(t, Last(t)) BY <1>5 DEF HasNext
<1>7. Cursor(lvl, lo, b, L, t) BY <1>2, <1>3, <1>5
<1>8. CASE t = <<>>
  <2>1. L = {} BY <1>7, <1>8 DEF Cursor
  <2> QED BY <1>3, <1>6, <1>8, <2>1 DEF Gave
<1>9. CASE t # <<>>
  <2>1. PICK p, k : p = Last(t).node /\ k = Last(t).pos OBVIOUS
  <2>2. /\ p \in UsedIn(nodes) /\ Last(t) \in Frames /\ k \in Int
        /\ IF k + 1 \in Places(nodes, p)
           THEN Strung(lvl, b, t) /\ ~Spent(b, t) /\ nodes[p].leaf /\ ComingTo(lo, b, t) = L
           ELSE KnownStart => L = {}
    BY <1>7, <1>9, <2>1, NoNodeIs DEF Cursor, Frames
  <2>3. PICK m \in Nat : m = Len(nodes[p].inner)
    <3>1. IsTree(nodes, rootFpos, lvl, lo) BY <1>2 DEF Stands
    <3> QED BY <2>2, <3>1, BoundIs
  <2>4. k \in 0 .. m - 1 <=> k + 1 \in Places(nodes, p) BY <2>2, <2>3 DEF Places
  <2>5. PICK step : step = IF scan.dir = "up" THEN 1 ELSE -1 OBVIOUS
  <2>6. scan' = IF k \in 0 .. m - 1
                THEN [scan EXCEPT !.at = nodes[p].inner[k + 1], !.stack = Append(Front(t), Frame(p, k + step))]
                ELSE NoScan
    BY <1>6, <1>9, <2>1, <2>3, <2>5 DEF Give
  <2>7. CASE k + 1 \in Places(nodes, p)
    <3>1. PICK e, u : e = nodes[p].inner[k + 1] /\ u = Append(Front(t), Passed(b, t)) OBVIOUS
    <3>2. /\ Given(lvl, b, u, e) /\ e \in L
          /\ \A f \in L : IF b = 0 THEN e.key <= f.key ELSE f.key <= e.key
      BY <1>2, <1>4, <2>1, <2>2, <2>7, <3>1, GiveIs
    <3>3. Passed(b, t) = Frame(p, k + step)
      <4>1. k + 1 - (b + b) = k + step BY <1>4, <2>2, <2>5 DEF Backs
      <4> QED BY <2>1, <4>1 DEF Passed
    <3>4. scan' = [scan EXCEPT !.at = e, !.stack = u] BY <2>4, <2>6, <2>7, <3>1, <3>3
    <3> QED BY <1>2, <1>3, <3>2, <3>4 DEF Gave
  <2>8. CASE ~(k + 1 \in Places(nodes, p))
    <3>1. scan' = NoScan BY <2>4, <2>6, <2>8
    <3> QED BY <1>3, <2>2, <2>8, <3>1 DEF Gave
  <2> QED BY <2>7, <2>8
<1> QED BY <1>8, <1>9

(* A step of a scan keeps its invariant, and the tree.                     *)
LEMMA GaveKeeps ==
  ASSUME TreeInv, ScanInv, HasNext
  PROVE  ScanInv'
<1>1. UNCHANGED <<nodes, rootFpos>> /\ scan # NoScan BY DEF HasNext
<1>2. Gave BY ScanGives
<1>3. CASE scan' = NoScan BY <1>3 DEF ScanInv, NoScan
<1>4. CASE scan' # NoScan
  <2>1. PICK e, lvl, lo, u : /\ Stands(lvl, lo) /\ Given(lvl, Back(scan.dir), u, e)
                             /\ scan' = [scan EXCEPT !.at = e, !.stack = u]
    BY <1>2, <1>4 DEF Gave
  <2>2. PICK s \in Scans : s = scan BY <1>1 DEF ScanInv
  <2>3. Back(s.dir) \in Backs BY DEF Back, Backs
  <2>4. e \in Kept(nodes) BY <2>1, <2>2, <2>3, GivenComing
  <2>5. e \in Entries /\ e # NoEntry
    <3>1. IsTree(nodes, rootFpos, lvl, lo) BY <2>1 DEF Stands
    <3>2. e \in Entries /\ e.key > 0 /\ e.key \in Nat BY <2>4, <3>1, KeptKeys
    <3> QED BY <3>2 DEF NoEntry
  <2>6. u \in Seq(Frames) BY <2>1 DEF Given, Strung
  <2>7. PICK z : z = [s EXCEPT !.at = e, !.stack = u] OBVIOUS
  <2>8. z \in Scans /\ z.at = e /\ z.stack = u /\ z.dir = s.dir BY <2>5, <2>6, <2>7 DEF Scans
  <2>9. Given(lvl, Back(z.dir), z.stack, z.at) BY <2>1, <2>2, <2>8
  <2>10. scan' = z BY <2>1, <2>2, <2>7
  <2>11. Stands(lvl, lo)' BY <1>1, <2>1 DEF Stands, Branching, Filled, Flagged, Limited
  <2>12. scan' \in Scans /\ (scan').at # NoEntry BY <2>5, <2>8, <2>10
  <2>13. Under(scan)'
    <3>1. Given(lvl, Back(z.dir), z.stack, z.at)' BY <1>1, <2>9 DEF Given, Strung
    <3> QED BY <2>10, <2>11, <3>1 DEF Under
  <2> QED BY <2>12, <2>13 DEF ScanInv
<1> QED BY <1>3, <1>4

(* A scan begins at a key of the tree, or without one.                     *)
LEMMA BeginKeeps ==
  ASSUME TreeInv, NEW dir \in {"up", "down"}, NEW from \in Starts, Begin(dir, from)
  PROVE  ScanInv'
<1>1. UNCHANGED <<nodes, rootFpos>> BY DEF Begin
<1>2. scan' = [dir |-> dir, from |-> from, at |-> NoEntry, stack |-> <<Frame(rootFpos, 0)>>] BY DEF Begin
<1>3. PICK lvl, lo \in [Blocks -> Nat] : IsTree(nodes, rootFpos, lvl, lo) BY InvBranching
<1>4. Branching(nodes) BY InvBranching
<1>5. rootFpos \in Blocks BY <1>3 DEF IsTree, Levels, UsedIn
<1>6. Frame(rootFpos, 0) \in Frames
  <2>1. 0 \in -1 .. NodeNumber BY NoNodeIs
  <2> QED BY <1>5, <2>1 DEF Frame, Frames
<1>7. scan' \in Scans
  <2>1. <<Frame(rootFpos, 0)>> \in Seq(Frames) BY <1>6
  <2> QED BY <1>2, <2>1 DEF Scans
<1>8. KnownStart => Known(from)
  <2> SUFFICES ASSUME KnownStart, from \notin {0, Infinity} PROVE \E e \in Kept(nodes) : e.key = from BY DEF Known
  <2>1. Find(Path(from), from) # NoEntry BY DEF Begin
  <2>2. from \in Keys
    <3>1. from \in 0 .. MaxKey + 1 /\ from # 0 /\ from # MaxKey + 1 BY DEF Starts, Infinity
    <3>2. MaxKey \in Nat BY NoNodeIs
    <3> QED BY <3>1, <3>2 DEF Keys
  <2> QED BY <1>3, <1>4, <2>1, <2>2, FindIs
<1>9. (scan').at = NoEntry /\ (scan').from = from /\ (scan').stack = <<Frame(rootFpos, 0)>> BY <1>2
<1>10. Begun(scan)' BY <1>1, <1>8, <1>9 DEF Begun, Known, Frame
<1> QED BY <1>7, <1>9, <1>10 DEF ScanInv

(* A step keeps the invariant of the scan.                                 *)
LEMMA ScanKeeps == TreeInv /\ ScanInv /\ SafeReopen /\ [Next]_vars => ScanInv'
<1> SUFFICES ASSUME TreeInv, ScanInv, SafeReopen, [Next]_vars PROVE ScanInv' OBVIOUS
<1>1. ASSUME scan = NoScan, scan' = scan PROVE ScanInv' BY <1>1 DEF ScanInv, NoScan
<1>2. ASSUME NEW key \in Keys, RemoveKey(key) PROVE ScanInv' BY <1>1, <1>2 DEF RemoveKey, Idle
<1>3. ASSUME NEW key \in Keys, NEW val \in Values, PutData(key, val) PROVE ScanInv'
  <2>1. scan = NoScan BY <1>3 DEF PutData, Idle
  <2>2. scan' = scan BY <1>3 DEF PutData, Replace, Insert
  <2> QED BY <1>1, <2>1, <2>2
<1>4. ASSUME NEW dir \in {"up", "down"}, NEW from \in Starts, Begin(dir, from) PROVE ScanInv' BY <1>4, BeginKeeps
<1>5. CASE HasNext BY <1>5, GaveKeeps
<1>6. CASE Reopen BY <1>1, <1>6 DEF Reopen, Idle
<1>7. CASE UNCHANGED vars
  <2>1. UNCHANGED <<nodes, rootFpos, scan>> BY <1>7 DEF vars
  <2>2. CASE scan = NoScan BY <1>1, <2>1, <2>2
  <2>3. CASE scan \in Scans /\ scan.at = NoEntry /\ Begun(scan)
    <3>1. Begun(scan)' BY <2>1, <2>3 DEF Begun, Known, Frame
    <3> QED BY <2>1, <2>3, <3>1 DEF ScanInv
  <2>4. CASE scan \in Scans /\ scan.at # NoEntry /\ Under(scan)
    <3>1. PICK lvl, lo : Stands(lvl, lo) /\ Given(lvl, Back(scan.dir), scan.stack, scan.at) BY <2>4 DEF Under
    <3>2. Stands(lvl, lo)' BY <2>1, <3>1 DEF Stands, Branching, Filled, Flagged, Limited
    <3>3. Given(lvl, Back(scan.dir), scan.stack, scan.at)' BY <2>1, <3>1 DEF Given, Strung
    <3>4. Under(scan)' BY <3>2, <3>3 DEF Under
    <3> QED BY <2>1, <2>4, <3>4 DEF ScanInv
  <2> QED BY <2>2, <2>3, <2>4 DEF ScanInv
<1> QED BY <1>2, <1>3, <1>4, <1>5, <1>6, <1>7 DEF Next

(* The scanner's stack is one of frames.                                   *)
LEMMA InvWellFormed == TreeInv /\ ScanInv => WellFormed
<1> SUFFICES ASSUME TreeInv, ScanInv PROVE WellFormed OBVIOUS
<1>1. scan = NoScan \/ ToSet(scan.stack) \subseteq Frames
  <2>1. scan # NoScan => scan.stack \in Seq(Frames) BY DEF ScanInv, Scans
  <2>2. \A s \in Seq(Frames) : ToSet(s) \subseteq Frames BY DEF ToSet
  <2> QED BY <2>1, <2>2
<1> QED BY <1>1, TreeWellFormed

(* The tree is well formed and a scanner's stack keeps to it, after every  *)
(* sequence of calls.                                                      *)
THEOREM WellFormedStays == ASSUME SafeReopen PROVE Spec => []WellFormed
<1>1. Init => TreeInv /\ ScanInv BY InitTree DEF Init, ScanInv
<1>2. TreeInv /\ ScanInv /\ [Next]_vars => TreeInv' /\ ScanInv' BY TreeKeeps, ScanKeeps
<1> QED BY <1>1, <1>2, InvWellFormed, PTL DEF Spec

-----------------------------------------------------------------------------
(* The tree implements the ordered map.                                    *)

(* The map the tree stands for has the entries of the tree.                *)
LEMMA ContentHolds == TreeInv => Holds(Content, Kept(nodes))
<1> SUFFICES ASSUME TreeInv PROVE Holds(Content, Kept(nodes)) OBVIOUS
<1>1. PICK lvl, lo \in [Blocks -> Nat] : IsTree(nodes, rootFpos, lvl, lo) BY InvBranching
<1>2. Branching(nodes) BY InvBranching
<1>3. PICK K : K = Kept(nodes) OBVIOUS
<1>4. EntriesIn(Below(rootFpos)) = K BY <1>1, <1>3, EntriesAre
<1> DEFINE P(k, e) == e \in K /\ e.key = k
           one(k) == CHOOSE e \in K : e.key = k
<1>5. PICK M : M = [k \in {e.key : e \in K} |-> one(k).val] OBVIOUS
<1>6. Content = M BY <1>4, <1>5 DEF Content
<1>7. \A e, f \in K : e.key = f.key => e = f BY <1>1, <1>2, <1>3, KeptIsMap
<1>8. ASSUME NEW e \in K PROVE one(e.key) = e
  <2>1. one(e.key) \in K /\ one(e.key).key = e.key OBVIOUS
  <2> HIDE DEF one
  <2> QED BY <1>7, <2>1
<1> HIDE DEF one
<1>9. DOMAIN M = {e.key : e \in K} BY <1>5
<1>10. \A e \in K : M[e.key] = e.val BY <1>5, <1>8
<1>11. M = [k \in DOMAIN M |-> M[k]] BY <1>5
<1> QED BY <1>3, <1>6, <1>9, <1>10, <1>11 DEF Holds

(* An entry comes in, in place of the one with its key.                    *)
LEMMA HoldsPut ==
  ASSUME NEW M, NEW N, NEW K, NEW key, NEW val, Holds(M, K), Holds(N, Stored(K, key, val))
  PROVE  PutIn(M, N, key, val)
<1>1. PICK L : L = Stored(K, key, val) OBVIOUS
<1>2. Entry(key, val).key = key /\ Entry(key, val).val = val BY DEF Entry
<1>3. \A e : e \in L <=> (e \in K /\ e.key # key) \/ e = Entry(key, val) BY <1>1 DEF Stored
<1>4. DOMAIN M = {e.key : e \in K} /\ DOMAIN N = {e.key : e \in L} BY <1>1 DEF Holds
<1>5. DOMAIN N = DOMAIN M \cup {key}
  <2>1. ASSUME NEW j \in DOMAIN N PROVE j \in DOMAIN M \cup {key}
    <3>1. PICK e \in L : e.key = j BY <1>4
    <3> QED BY <1>2, <1>3, <1>4, <3>1
  <2>2. ASSUME NEW j \in DOMAIN M, j # key PROVE j \in DOMAIN N
    <3>1. PICK e \in K : e.key = j BY <1>4
    <3>2. e \in L BY <1>3, <2>2, <3>1
    <3> QED BY <1>4, <3>1, <3>2
  <2>3. key \in DOMAIN N
    <3>1. Entry(key, val) \in L BY <1>3
    <3> QED BY <1>2, <1>4, <3>1
  <2> QED BY <2>1, <2>2, <2>3
<1>6. ASSUME NEW j \in DOMAIN N PROVE N[j] = IF j = key THEN val ELSE M[j]
  <2>1. PICK e \in L : e.key = j BY <1>4
  <2>2. N[j] = e.val BY <1>1, <2>1 DEF Holds
  <2>3. CASE j = key
    <3>1. e = Entry(key, val) BY <1>3, <2>1, <2>3
    <3> QED BY <1>2, <2>2, <2>3, <3>1
  <2>4. CASE j # key
    <3>1. e \in K BY <1>2, <1>3, <2>1, <2>4
    <3>2. M[j] = e.val BY <2>1, <3>1 DEF Holds
    <3> QED BY <2>2, <2>4, <3>2
  <2> QED BY <2>3, <2>4
<1>7. N = [j \in DOMAIN N |-> N[j]] BY DEF Holds
<1> QED BY <1>5, <1>6, <1>7 DEF PutIn

(* The entry with a key goes.                                              *)
LEMMA HoldsRemove ==
  ASSUME NEW M, NEW N, NEW K, NEW key, Holds(M, K), Holds(N, {f \in K : f.key # key})
  PROVE  TakenOut(M, N, key)
<1>1. PICK L : L = {f \in K : f.key # key} OBVIOUS
<1>2. DOMAIN M = {e.key : e \in K} /\ DOMAIN N = {e.key : e \in L} BY <1>1 DEF Holds
<1>3. DOMAIN N = DOMAIN M \ {key}
  <2>1. ASSUME NEW j \in DOMAIN N PROVE j \in DOMAIN M \ {key}
    <3>1. PICK e \in L : e.key = j BY <1>2
    <3> QED BY <1>1, <1>2, <3>1
  <2>2. ASSUME NEW j \in DOMAIN M \ {key} PROVE j \in DOMAIN N
    <3>1. PICK e \in K : e.key = j BY <1>2
    <3>2. e \in L BY <1>1, <2>2, <3>1
    <3> QED BY <1>2, <3>1, <3>2
  <2> QED BY <2>1, <2>2
<1>4. ASSUME NEW j \in DOMAIN N PROVE N[j] = M[j]
  <2>1. PICK e \in L : e.key = j BY <1>2
  <2>2. e \in K BY <1>1, <2>1
  <2>3. N[j] = e.val BY <1>1, <2>1 DEF Holds
  <2>4. M[j] = e.val BY <2>1, <2>2 DEF Holds
  <2> QED BY <2>3, <2>4
<1>5. N = [j \in DOMAIN N |-> N[j]] BY DEF Holds
<1> QED BY <1>3, <1>4, <1>5 DEF TakenOut

(* What is still to come, for the map.                                     *)
LEMMA LeftAhead ==
  ASSUME TreeInv, scan \in Scans, ScanInv
  PROVE  Map!Ahead(AbstractScan) = {e.key : e \in Left(scan)}
<1>1. PICK K, A : K = Kept(nodes) /\ A = Map!Ahead(AbstractScan) OBVIOUS
<1>2. DOMAIN Content = {e.key : e \in K} BY <1>1, ContentHolds DEF Holds
<1>3. PICK s \in Scans : s = scan OBVIOUS
<1>4. scan # NoScan
  <2>1. s.dir # "none" BY DEF Scans
  <2> QED BY <1>3, <2>1 DEF NoScan
<1>5. AbstractScan = [dir |-> s.dir, from |-> s.from, at |-> s.at] BY <1>3, <1>4 DEF AbstractScan
<1>6. AbstractScan.dir = s.dir /\ AbstractScan.from = s.from /\ AbstractScan.at = s.at BY <1>5
<1>7. s.dir = "up" \/ s.dir = "down" BY DEF Scans
<1>8. A = {k \in DOMAIN Content : IF s.dir = "up" THEN IF s.at = NoEntry THEN k >= s.from ELSE k > s.at.key
                                  ELSE IF s.at = NoEntry THEN k <= s.from ELSE k < s.at.key}
  BY <1>1, <1>6 DEF Map!Ahead, Map!NoEntry, NoEntry
<1>9. Left(scan) = {e \in K : IF s.dir = "up" THEN IF s.at = NoEntry THEN e.key >= s.from ELSE e.key > s.at.key
                              ELSE IF s.at = NoEntry THEN e.key <= s.from ELSE e.key < s.at.key}
  BY <1>1, <1>3, <1>7 DEF Left, Back, From, Past
<1> QED BY <1>1, <1>2, <1>8, <1>9

(* An empty tree is the empty map.                                         *)
LEMMA MapInit == Init => Map!Init
<1> SUFFICES ASSUME Init PROVE Map!Init OBVIOUS
<1>1. TreeInv /\ Kept(nodes) = {} BY InitTree
<1>2. Holds(Content, {}) BY <1>1, ContentHolds
<1>3. PICK M : M = Content OBVIOUS
<1>4. M = [k \in DOMAIN M |-> M[k]] /\ DOMAIN M = {} BY <1>2, <1>3 DEF Holds
<1>5. M = <<>>
  <2>1. <<>> = [k \in {} |-> M[k]] OBVIOUS
  <2> QED BY <1>4, <2>1
<1>6. AbstractScan = NoScan BY DEF Init, AbstractScan
<1> QED BY <1>3, <1>5, <1>6 DEF Map!Init, Map!NoScan, NoScan

(* What a call changes, for the map.                                       *)
LEMMA MapPut ==
  ASSUME TreeInv, NEW key \in Keys, NEW val \in Values, PutData(key, val)
  PROVE  Map!Put(key, val)
<1>1. header' \in Blocks /\ Grown(nodes', rootFpos', Stored(Kept(nodes), key, val)) BY PutKeeps
<1>2. TreeInv' /\ Kept(nodes') = Stored(Kept(nodes), key, val) BY <1>1, NextGrown
<1>3. (TreeInv => Holds(Content, Kept(nodes)))' BY ContentHolds, PTL
<1>4. Holds(Content', Stored(Kept(nodes), key, val)) BY <1>2, <1>3
<1>5. Holds(Content, Kept(nodes)) BY ContentHolds
<1>6. Content' = [j \in DOMAIN Content \cup {key} |-> IF j = key THEN val ELSE Content[j]]
  <2>1. PICK M, N, K : M = Content /\ N = Content' /\ K = Kept(nodes) OBVIOUS
  <2>2. Holds(M, K) /\ Holds(N, Stored(K, key, val)) BY <1>4, <1>5, <2>1
  <2>3. PutIn(M, N, key, val) BY <2>2, HoldsPut
  <2> QED BY <2>1, <2>3 DEF PutIn
<1>7. scan' = scan BY DEF PutData, Replace, Insert
<1>8. AbstractScan' = AbstractScan BY <1>7 DEF AbstractScan
<1> QED BY <1>6, <1>8 DEF Map!Put

(* Removal takes the key out of the map.                                   *)
LEMMA MapRemove ==
  ASSUME TreeInv, NEW key \in Keys, RemoveKey(key)
  PROVE  Map!Remove(key)
<1>1. header' \in Blocks /\ Grown(nodes', rootFpos', {f \in Kept(nodes) : f.key # key}) BY RemoveKeeps
<1>2. TreeInv' /\ Kept(nodes') = {f \in Kept(nodes) : f.key # key} BY <1>1, NextGrown
<1>3. (TreeInv => Holds(Content, Kept(nodes)))' BY ContentHolds, PTL
<1>4. Holds(Content', {f \in Kept(nodes) : f.key # key}) BY <1>2, <1>3
<1>5. Holds(Content, Kept(nodes)) BY ContentHolds
<1>6. Content' = [j \in DOMAIN Content \ {key} |-> Content[j]]
  <2>1. PICK M, N, K : M = Content /\ N = Content' /\ K = Kept(nodes) OBVIOUS
  <2>2. Holds(M, K) /\ Holds(N, {f \in K : f.key # key}) BY <1>4, <1>5, <2>1
  <2>3. TakenOut(M, N, key) BY <2>2, HoldsRemove
  <2> QED BY <2>1, <2>3 DEF TakenOut
<1>7. scan' = scan BY DEF RemoveKey
<1>8. AbstractScan' = AbstractScan BY <1>7 DEF AbstractScan
<1> QED BY <1>6, <1>8 DEF Map!Remove

(* The entries are in the nodes: what changes neither them nor the root    *)
(* leaves the map as it is.                                                *)
LEMMA SameContent == UNCHANGED <<nodes, rootFpos>> => Content' = Content
BY DEF Content, EntriesIn, Below

(* A step of a scan gives the nearest entry of the map.                    *)
LEMMA MapHasNext ==
  ASSUME TreeInv, ScanInv, KnownStart, HasNext
  PROVE  Map!HasNext
<1>1. UNCHANGED <<nodes, rootFpos>> /\ scan # NoScan BY DEF HasNext
<1>2. Content' = Content BY <1>1, SameContent
<1>3. PICK s \in Scans : s = scan BY <1>1 DEF ScanInv
<1>4. PICK A : A = {e.key : e \in Left(scan)} OBVIOUS
<1>5. Map!Ahead(AbstractScan) = A BY <1>3, <1>4, LeftAhead
<1>6. AbstractScan = [dir |-> s.dir, from |-> s.from, at |-> s.at] BY <1>1, <1>3 DEF AbstractScan
<1>7. AbstractScan.dir = s.dir /\ (s.dir = "up" \/ s.dir = "down") BY <1>6 DEF Scans
<1>8. AbstractScan # Map!NoScan BY <1>7 DEF Map!NoScan
<1>9. Gave BY ScanGives
<1>10. CASE scan' = NoScan /\ (KnownStart => Left(scan) = {})
  <2>1. AbstractScan' = Map!NoScan BY <1>10 DEF AbstractScan, Map!NoScan, NoScan
  <2>2. A = {} BY <1>4, <1>10
  <2> QED BY <1>2, <1>5, <1>8, <2>1, <2>2 DEF Map!HasNext
<1>11. CASE ~(scan' = NoScan /\ (KnownStart => Left(scan) = {}))
  <2>1. PICK e \in Left(scan) :
          /\ \A f \in Left(scan) : IF Back(scan.dir) = 0 THEN e.key <= f.key ELSE f.key <= e.key
          /\ \E lvl, lo, u : /\ Stands(lvl, lo) /\ Given(lvl, Back(scan.dir), u, e)
                            /\ scan' = [scan EXCEPT !.at = e, !.stack = u]
    BY <1>9, <1>11 DEF Gave
  <2>2. PICK lvl, lo, u : Stands(lvl, lo) /\ scan' = [s EXCEPT !.at = e, !.stack = u] BY <1>3, <2>1
  <2>3. \A f \in Left(scan) : IF s.dir = "up" THEN e.key <= f.key ELSE f.key <= e.key
    BY <1>3, <1>7, <2>1 DEF Back
  <2>4. \A f \in Left(scan) : f \in Kept(nodes) /\ f \in Entries /\ f.key \in Nat
    <3>1. \A f \in Left(scan) : f \in Kept(nodes) BY DEF Left, From, Past
    <3>2. IsTree(nodes, rootFpos, lvl, lo) BY <2>2 DEF Stands
    <3> QED BY <3>1, <3>2, KeptKeys
  <2>5. A # {} /\ e.key \in A /\ A \subseteq Nat BY <1>4, <2>4
  <2>6. Map!Nearest(A, s.dir) = e.key
    <3> DEFINE P(k) == \A j \in A : IF s.dir = "up" THEN k <= j ELSE k >= j
               one == CHOOSE k \in A : P(k)
    <3>1. P(e.key) BY <1>4, <2>3, <2>4
    <3>2. \A k \in A : P(k) => k = e.key
      <4> SUFFICES ASSUME NEW k \in A, P(k) PROVE k = e.key OBVIOUS
      <4>1. s.dir = "up" => k <= e.key /\ e.key <= k BY <2>5, <3>1
      <4>2. s.dir # "up" => k >= e.key /\ e.key >= k BY <2>5, <3>1
      <4>3. k \in Nat /\ e.key \in Nat BY <2>5
      <4> QED BY <4>1, <4>2, <4>3
    <3>3. one \in A /\ P(one)
      <4> HIDE DEF P
      <4> QED BY <2>5, <3>1
    <3>4. Map!Nearest(A, s.dir) = one BY DEF Map!Nearest
    <3> HIDE DEF P, one
    <3> QED BY <3>2, <3>3, <3>4
  <2>7. Content[e.key] = e.val
    <3>1. Holds(Content, Kept(nodes)) BY ContentHolds
    <3> QED BY <2>4, <3>1 DEF Holds
  <2>8. Map!Entry(e.key, Content[e.key]) = e
    <3>1. e = [key |-> e.key, val |-> e.val] BY <2>4 DEF Entries
    <3> QED BY <2>7, <3>1 DEF Map!Entry
  <2>9. PICK z : z = [s EXCEPT !.at = e, !.stack = u] OBVIOUS
  <2>10. z.dir = s.dir /\ z.from = s.from /\ z.at = e BY <2>9 DEF Scans
  <2>11. scan' = z /\ z # NoScan BY <1>7, <2>2, <2>9, <2>10 DEF NoScan
  <2>12. AbstractScan' = [dir |-> s.dir, from |-> s.from, at |-> e] BY <2>10, <2>11 DEF AbstractScan
  <2>13. AbstractScan' = [AbstractScan EXCEPT !.at = e] BY <1>6, <2>12
  <2> QED BY <1>2, <1>5, <1>7, <1>8, <2>5, <2>6, <2>8, <2>13 DEF Map!HasNext
<1> QED BY <1>10, <1>11

(* A step of the tree is a step of the map, or none.                       *)
LEMMA MapStep ==
  TreeInv /\ ScanInv /\ SafeReopen /\ KnownStart /\ [Next]_vars => [Map!Next]_(Map!vars)
<1> SUFFICES ASSUME TreeInv, ScanInv, SafeReopen, KnownStart, [Next]_vars PROVE [Map!Next]_(Map!vars) OBVIOUS
<1>1. ASSUME UNCHANGED vars PROVE UNCHANGED Map!vars
  <2>1. UNCHANGED <<nodes, rootFpos, scan>> BY <1>1 DEF vars
  <2>2. Content' = Content BY <2>1, SameContent
  <2>3. AbstractScan' = AbstractScan BY <2>1 DEF AbstractScan
  <2> QED BY <2>2, <2>3 DEF Map!vars
<1>2. ASSUME NEW key \in Keys, RemoveKey(key) PROVE Map!Next
  <2>1. Map!Remove(key) BY <1>2, MapRemove
  <2>2. key \in Map!Keys BY DEF Keys, Map!Keys
  <2> QED BY <2>1, <2>2 DEF Map!Next
<1>3. ASSUME NEW key \in Keys, NEW val \in Values, PutData(key, val) PROVE Map!Next
  <2>1. Map!Put(key, val) BY <1>3, MapPut
  <2>2. key \in Map!Keys BY DEF Keys, Map!Keys
  <2> QED BY <2>1, <2>2 DEF Map!Next
<1>4. ASSUME NEW dir \in {"up", "down"}, NEW from \in Starts, Begin(dir, from) PROVE Map!Next
  <2>1. UNCHANGED <<nodes, rootFpos>> BY <1>4 DEF Begin
  <2>2. Content' = Content BY <2>1, SameContent
  <2>3. PICK z : z = [dir |-> dir, from |-> from, at |-> NoEntry, stack |-> <<Frame(rootFpos, 0)>>] OBVIOUS
  <2>4. scan' = z BY <1>4, <2>3 DEF Begin
  <2>5. z # NoScan
    <3>1. z.dir # "none" BY <2>3
    <3> QED BY <3>1 DEF NoScan
  <2>6. z.dir = dir /\ z.from = from /\ z.at = NoEntry BY <2>3
  <2>7. AbstractScan' = [dir |-> dir, from |-> from, at |-> NoEntry] BY <2>4, <2>5, <2>6 DEF AbstractScan
  <2>8. Map!Begin(dir, from) BY <2>2, <2>7 DEF Map!Begin, Map!NoEntry, NoEntry
  <2>9. from \in Map!Starts BY DEF Starts, Infinity, Map!Starts
  <2> QED BY <2>8, <2>9 DEF Map!Next
<1>5. CASE HasNext
  <2>1. Map!HasNext BY <1>5, MapHasNext
  <2> QED BY <2>1 DEF Map!Next
<1>6. CASE Reopen
  <2>1. UNCHANGED vars BY <1>6, ReopenKeeps
  <2> QED BY <1>1, <2>1
<1> QED BY <1>1, <1>2, <1>3, <1>4, <1>5, <1>6 DEF Next

(* A tree is a map with ordered scans: splits, collapses and reopening     *)
(* change nothing that a client sees, put and remove change one key, and a *)
(* scan visits every key from its start on, in order, with its value.      *)
THEOREM TreeImplementsMap == ASSUME SafeReopen, KnownStart PROVE Spec => ImplementsOrderedMap
<1>1. Init => TreeInv /\ ScanInv /\ Map!Init BY InitTree, MapInit DEF Init, ScanInv
<1>2. TreeInv /\ ScanInv /\ [Next]_vars => TreeInv' /\ ScanInv' BY TreeKeeps, ScanKeeps
<1>3. TreeInv /\ ScanInv /\ [Next]_vars => [Map!Next]_(Map!vars) BY MapStep
<1> QED BY <1>1, <1>2, <1>3, PTL DEF Spec, ImplementsOrderedMap, Map!Spec

=============================================================================
