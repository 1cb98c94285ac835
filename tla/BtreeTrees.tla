----------------------------- MODULE BtreeTrees ------------------------------
(***************************************************************************)
(* The inductive invariants of Btree, and the notions its proofs speak in: *)
(* what a tree is, what a turn of an insertion or of a removal did to it,  *)
(* and what a cursor has still to give.                                    *)
(***************************************************************************)
EXTENDS Btree, Functions

-----------------------------------------------------------------------------
(* The inductive invariant.                                                *)

(* The nodes of a tree: ns is what is in the blocks.                       *)
Children == Entries \cup Blocks
TreeNodes ==
  [root : BOOLEAN, saved : BOOLEAN, leaf : BOOLEAN, key : 0 .. Infinity, inner : Seq(Children)]
Typed(ns) == ns \in [Blocks -> TreeNodes]
UsedIn(ns) == {b \in Blocks : ns[b] # NoNode}
InnerIn(ns) == {b \in UsedIn(ns) : ~ns[b].leaf}
Places(ns, p) == 1 .. Len(ns[p].inner)
KeyAt(ns, p, i) == KeyOf(ns, ns[p].leaf, ns[p].inner[i])

(* lvl says how far above the leaves a node is.                            *)
Levels(ns, root, lvl) ==
  /\ root \in UsedIn(ns) /\ lvl \in [Blocks -> Nat]
  /\ \A p \in UsedIn(ns) :
       /\ ns[p].key # 0 /\ lvl[p] <= lvl[root] /\ (ns[p].leaf <=> lvl[p] = 0)
       /\ \A i \in Places(ns, p) :
            IF ns[p].leaf THEN ns[p].inner[i] \in Entries
            ELSE /\ ns[p].inner[i] \in UsedIn(ns) \ {root}
                 /\ lvl[ns[p].inner[i]] = lvl[p] - 1

(* Every node but the root is the child of exactly one node, once.         *)
Linked(ns, root) ==
  /\ \A c \in UsedIn(ns) \ {root} : \E p \in InnerIn(ns) : \E i \in Places(ns, p) : ns[p].inner[i] = c
  /\ \A p, q \in InnerIn(ns) : \A i \in Places(ns, p), j \in Places(ns, q) :
       ns[p].inner[i] = ns[q].inner[j] => p = q /\ i = j

(* The keys of a node's children ascend, above lo and up to its own; what  *)
(* is below a child is above the key of the child before.                  *)
Ordered(ns, lo) ==
  /\ lo \in [Blocks -> Nat]
  /\ \A p \in UsedIn(ns) :
       /\ \A i \in Places(ns, p) : lo[p] < KeyAt(ns, p, i) /\ KeyAt(ns, p, i) <= ns[p].key
       /\ \A i, j \in Places(ns, p) : i < j => KeyAt(ns, p, i) < KeyAt(ns, p, j)
       /\ ~ns[p].leaf => \A i \in Places(ns, p) :
            /\ lo[p] <= lo[ns[p].inner[i]]
            /\ i > 1 => KeyAt(ns, p, i - 1) <= lo[ns[p].inner[i]]

(* The last child has its node's key, but for the nodes of X.              *)
Ends(ns, X) ==
  \A p \in InnerIn(ns) \ X : ns[p].inner # <<>> => KeyAt(ns, p, Len(ns[p].inner)) = ns[p].key

IsTree(ns, root, lvl, lo) ==
  /\ Typed(ns) /\ Levels(ns, root, lvl) /\ Linked(ns, root) /\ Ordered(ns, lo) /\ Ends(ns, {})
  /\ ns[root].key = Infinity

(* No node is empty, but for the root when it is a leaf and the nodes of X. *)
Filled(ns, X) == \A p \in UsedIn(ns) \ X : ns[p].inner # <<>>
Flagged(ns, root) == \A p \in UsedIn(ns) : ns[p].root <=> p = root
Limited(ns) == \A p \in UsedIn(ns) : Len(ns[p].inner) <= NodeNumber

TreeInv ==
  /\ header \in Blocks
  /\ \E lvl, lo \in [Blocks -> Nat] : IsTree(nodes, rootFpos, lvl, lo)
  /\ Filled(nodes, {rootFpos}) /\ (nodes[rootFpos].leaf \/ Len(nodes[rootFpos].inner) > 1)
  /\ Flagged(nodes, rootFpos) /\ Limited(nodes)

-----------------------------------------------------------------------------
(* Searching the children of a node.                                       *)

(* Key belongs below the i-th child.                                       *)
Goes(ns, p, key, i) == i \in Places(ns, p) /\ key <= KeyAt(ns, p, i) /\ (i > 1 => KeyAt(ns, p, i - 1) < key)

-----------------------------------------------------------------------------
(* The levels of the blocks, for recursion down the tree.                  *)
Heights(ns, lvl) == [p \in Blocks |-> IF p \in UsedIn(ns) THEN lvl[p] ELSE 0]

-----------------------------------------------------------------------------
(* The path to the leaf where a key belongs.                               *)

(* s goes down from p to a leaf by the children where key belongs.         *)
Leads(ns, lvl, p, key, s) ==
  /\ s \in Seq(Blocks) /\ Len(s) = lvl[p] + 1 /\ s[1] = p
  /\ \A i \in 1 .. Len(s) : s[i] \in UsedIn(ns) /\ lvl[s[i]] = lvl[p] + 1 - i /\ key <= ns[s[i]].key
  /\ \A i \in 1 .. Len(s) - 1 : /\ Goes(ns, s[i], key, NextChild(ChildKeys(ns, s[i]), key))
                                /\ s[i + 1] = ns[s[i]].inner[NextChild(ChildKeys(ns, s[i]), key)]

(* No inner node is without a child.                                       *)
Branching(ns) == \A p \in InnerIn(ns) : ns[p].inner # <<>>

-----------------------------------------------------------------------------
(* The entries of a tree.                                                  *)
HoldsAt(ns, e, p, i) == ns[p].leaf /\ ns[p].inner[i] = e
Kept(ns) == {e \in Entries : \E p \in UsedIn(ns) : \E i \in Places(ns, p) : HoldsAt(ns, e, p, i)}

-----------------------------------------------------------------------------
(* What is below a node.                                                   *)
BelowOf(D, p) == IF nodes[p] = NoNode THEN {}
                 ELSE {p} \cup IF nodes[p].leaf THEN {} ELSE UNION {D[c] : c \in ToSet(nodes[p].inner)}

-----------------------------------------------------------------------------
(* The nodes below p are in use, and their keys lie between p's bounds.    *)
Within(lo, p) ==
  /\ p \in Below(p) /\ Below(p) \subseteq UsedIn(nodes)
  /\ \A x \in Below(p) : Below(x) \subseteq Below(p)
  /\ \A x \in Below(p) : nodes[x].leaf => \A i \in Places(nodes, x) :
       lo[p] < KeyAt(nodes, x, i) /\ KeyAt(nodes, x, i) <= nodes[p].key

(* all is the list s with c put in at place j.                             *)
IsInsertion(s, j, c, all) ==
  /\ all \in Seq(Children) /\ Len(all) = Len(s) + 1 /\ j \in 1 .. Len(s) + 1
  /\ \A k \in 1 .. Len(s) + 1 : all[k] = IF k < j THEN s[k] ELSE IF k = j THEN c ELSE s[k - 1]

-----------------------------------------------------------------------------
(* ws differs from ns in the children of p, and perhaps its flags.         *)
Changes(ns, ws, p, all) ==
  /\ Typed(ws) /\ \A b \in Blocks \ {p} : ws[b] = ns[b]
  /\ ws[p].inner = all /\ ws[p].key = ns[p].key /\ ws[p].leaf = ns[p].leaf

-----------------------------------------------------------------------------
(* A split: the first h children of p go to block b, which becomes a child *)
(* of p's parent q, before p.                                              *)
IsSplit(vs, ws, p, q, j, b, h) ==
  /\ Typed(ws) /\ b \in Blocks \ UsedIn(vs) /\ p \in UsedIn(vs) /\ q \in InnerIn(vs)
  /\ j \in Places(vs, q) /\ vs[q].inner[j] = p /\ h \in 1 .. Len(vs[p].inner) - 1
  /\ \A x \in Blocks \ {b, p, q} : ws[x] = vs[x]
  /\ ws[b].leaf = vs[p].leaf /\ ws[b].key = KeyAt(vs, p, h) /\ Len(ws[b].inner) = h
  /\ \A i \in 1 .. h : ws[b].inner[i] = vs[p].inner[i]
  /\ ws[p].leaf = vs[p].leaf /\ ws[p].key = vs[p].key /\ Len(ws[p].inner) = Len(vs[p].inner) - h
  /\ \A i \in 1 .. Len(vs[p].inner) - h : ws[p].inner[i] = vs[p].inner[h + i]
  /\ ws[q].leaf = vs[q].leaf /\ ws[q].key = vs[q].key
  /\ IsInsertion(vs[q].inner, j, b, ws[q].inner)

(* Where the child at place i of x was before.                             *)
FromNode(p, b, x) == IF x = b THEN p ELSE x
FromPlace(p, q, j, h, x, i) == IF x = p THEN h + i ELSE IF x = q /\ i > j THEN i - 1 ELSE i

-----------------------------------------------------------------------------
(* The levels and the bounds after a split.                                *)
SplitLevels(lvl, p, b) == [lvl EXCEPT ![b] = lvl[p]]
SplitBounds(lo, p, b, key) == [lo EXCEPT ![b] = lo[p], ![p] = key]

(* A new root r above the root p.                                          *)
IsRootAbove(vs, ws, p, r) ==
  /\ Typed(ws) /\ r \in Blocks \ UsedIn(vs) /\ \A x \in Blocks \ {r} : ws[x] = vs[x]
  /\ ws[r].leaf = FALSE /\ ws[r].key = Infinity /\ ws[r].inner = <<p>>

-----------------------------------------------------------------------------
(* The children of p with one more.                                        *)
Joined(ns, p, key, child) == Inserted(ns[p].inner, ChildKeys(ns, p), key, child)

(* With child added to p, ns is a tree that holds K.                       *)
Awaits(ns, root, p, key, child, K) ==
  /\ Typed(ns) /\ p \in UsedIn(ns) /\ ns[p].key # 0 /\ key \in Nat \ {0} /\ child \in Children
  /\ \E j \in Nat : IsInsertion(ns[p].inner, j, child, Joined(ns, p, key, child))
  /\ \E lvl, lo \in [Blocks -> Nat] :
       \A vs : Changes(ns, vs, p, Joined(ns, p, key, child)) => IsTree(vs, root, lvl, lo) /\ Kept(vs) = K

(* us is ns with the children all of p divided between b and p.            *)
Halved(ns, us, p, all, h, b) ==
  /\ Typed(us) /\ \A x \in Blocks \ {b, p} : us[x] = ns[x]
  /\ us[b].leaf = ns[p].leaf /\ us[b].key = KeyOf(ns, ns[p].leaf, all[h]) /\ us[b].inner = SubSeq(all, 1, h)
  /\ us[p].leaf = ns[p].leaf /\ us[p].key = ns[p].key /\ us[p].inner = SubSeq(all, h + 1, Len(all))

-----------------------------------------------------------------------------
(* What the invariant says besides the order and the links.                *)
Room(ns, root) ==
  /\ Filled(ns, {root}) /\ (ns[root].leaf \/ Len(ns[root].inner) > 1)
  /\ Flagged(ns, root) /\ Limited(ns)
Grown(ns, root, K) ==
  /\ \E lvl, lo \in [Blocks -> Nat] : IsTree(ns, root, lvl, lo)
  /\ Room(ns, root) /\ Kept(ns) = K

FreeIn(ns) == {b \in Blocks : ns[b] = NoNode}

-----------------------------------------------------------------------------
(* What splitLeafNode and splitTreeNode make of p and the new block b.     *)
Divided(ns, p, all, h, b) ==
  [ns EXCEPT ![b] = TreeNode(FALSE, ns[p].leaf, KeyOf(ns, ns[p].leaf, all[h]), SubSeq(all, 1, h)),
             ![p] = Save([ns[p] EXCEPT !.root = FALSE, !.inner = SubSeq(all, h + 1, Len(all))])]

InHalves(ns, us, p, all, h, b) ==
  /\ Halved(ns, us, p, all, h, b) /\ us[b].root = FALSE /\ us[p].root = FALSE /\ us[b].key # 0
  /\ us[b].key = KeyOf(ns, ns[p].leaf, all[h])

-----------------------------------------------------------------------------
(* The turns of an insertion.                                              *)
IsUp(f, path, key, val) ==
  f = [i \in 0 .. Len(path) |->
        IF i = 0 THEN Tree(nodes, key, Entry(key, val), rootFpos, header)
        ELSE AddTo(path[Len(path) + 1 - i], f[i - 1])]

-----------------------------------------------------------------------------
(* The nodes of a path.                                                    *)
Descends(ns, root, s) ==
  /\ s \in Seq(Blocks) /\ Len(s) \in Nat /\ Len(s) > 0 /\ s[1] = root
  /\ \A m \in 1 .. Len(s) : s[m] \in UsedIn(ns)
  /\ \A m \in 1 .. Len(s) - 1 : s[m] \in InnerIn(ns) /\ \E j \in Places(ns, s[m]) : ns[s[m]].inner[j] = s[m + 1]
  /\ \A k, m \in 1 .. Len(s) : s[k] = s[m] => k = m

-----------------------------------------------------------------------------
(* What holds after i turns of an insertion that goes up the path s of ns: *)
(* the tree is done, or the next node awaits a child.                      *)
Trees ==
  [nodes : [Blocks -> TreeNodes], key : Nat, child : Children \cup {0}, root : Blocks, header : Blocks]
Turned(ns, s, K, t, i) ==
  IF t.key = 0 THEN Grown(t.nodes, t.root, K)
  ELSE /\ i < Len(s) /\ t.root = s[1] /\ Awaits(t.nodes, s[1], s[Len(s) - i], t.key, t.child, K)
       /\ Room(t.nodes, s[1]) /\ s[1] \in UsedIn(t.nodes)
       /\ \A m \in 1 .. Len(s) - i : t.nodes[s[m]] = ns[s[m]]
       /\ Cardinality(FreeIn(t.nodes)) >= Len(s) - i + 1

-----------------------------------------------------------------------------
(* ws is ns with e instead of the k-th entry of the leaf p.                *)
IsReplaced(ns, ws, p, k, e) ==
  /\ p \in UsedIn(ns) /\ ns[p].leaf /\ k \in Places(ns, p) /\ e \in Entries /\ e.key = KeyAt(ns, p, k)
  /\ Typed(ws) /\ \A b \in Blocks \ {p} : ws[b] = ns[b]
  /\ ws[p].key = ns[p].key /\ ws[p].leaf = ns[p].leaf /\ ws[p].root = ns[p].root
  /\ Len(ws[p].inner) = Len(ns[p].inner)
  /\ \A i \in Places(ns, p) : ws[p].inner[i] = IF i = k THEN e ELSE ns[p].inner[i]

(* Btree.putData keeps the tree and changes the value of one key.          *)
Stored(K, key, val) == {f \in K : f.key # key} \cup {Entry(key, val)}

-----------------------------------------------------------------------------
(* Removal.  rest is the list s without what is at place j.                *)
IsRemoval(s, j, rest) ==
  /\ rest \in Seq(Children) /\ Len(rest) = Len(s) - 1
  /\ \A k \in 1 .. Len(s) - 1 : rest[k] = IF k < j THEN s[k] ELSE s[k + 1]

(* The j-th child of p goes; if it is a node it is empty, and freed.       *)
Gone(vs, p, j) == IF vs[p].leaf THEN {} ELSE {vs[p].inner[j]}
IsGone(vs, ws, p, j) ==
  /\ Typed(ws) /\ p \in UsedIn(vs) /\ j \in Places(vs, p)
  /\ ws[p].leaf = vs[p].leaf /\ ws[p].key = vs[p].key /\ IsRemoval(vs[p].inner, j, ws[p].inner)
  /\ \A x \in Gone(vs, p, j) : vs[x].inner = <<>> /\ ws[x] = NoNode
  /\ \A x \in Blocks : x # p /\ x \notin Gone(vs, p, j) => ws[x] = vs[x]

(* Where the child at place i of x was before.                             *)
Was(p, j, x, i) == IF x = p /\ i >= j THEN i + 1 ELSE i

-----------------------------------------------------------------------------
(* X has q and, with each of its nodes, the node's last child.             *)
ChainOf(vs, lvl, q, X) ==
  /\ q \in X /\ X \subseteq UsedIn(vs)
  /\ \A x \in X : lvl[x] <= lvl[q] /\ vs[x].key = vs[q].key
  /\ \A x \in X : ~vs[x].leaf => vs[x].inner # <<>> /\ Last(vs[x].inner) \in X
  /\ \A x \in X : x = q \/ \E y \in X : ~vs[y].leaf /\ x = Last(vs[y].inner)

(* setKeyForSelfAndDescendants: the nodes that get the key.                *)
KeySet(vs, X, key) == [x \in Blocks |-> IF x \in X THEN Save([vs[x] EXCEPT !.key = key]) ELSE vs[x]]

-----------------------------------------------------------------------------
(* A tree but for p, whose last child has another key than p.              *)
AlmostTree(vs, root, lvl, lo, p) ==
  /\ Typed(vs) /\ Levels(vs, root, lvl) /\ Linked(vs, root) /\ Ordered(vs, lo) /\ Ends(vs, {p})
  /\ vs[root].key = Infinity

(* ws has the key of p in the nodes of X, which are below p.               *)
Raised(vs, ws, root, lvl, p, X) ==
  /\ Typed(ws) /\ UsedIn(ws) = UsedIn(vs) /\ InnerIn(ws) = InnerIn(vs) /\ p \notin X /\ root \notin X
  /\ \A x \in X : x \in UsedIn(vs) /\ lvl[x] < lvl[p]
  /\ \A x \in Blocks \ X : ws[x] = vs[x]
  /\ \A x \in UsedIn(vs) : /\ ws[x].leaf = vs[x].leaf /\ ws[x].inner = vs[x].inner /\ ws[x].root = vs[x].root
                           /\ ws[x].key = IF x \in X THEN vs[p].key ELSE vs[x].key
                           /\ ws[x].key # 0 /\ vs[x].key <= ws[x].key
  /\ \A x \in InnerIn(vs) : \A i \in Places(vs, x) :
       vs[x].inner[i] \in X => (x = p \/ x \in X) /\ i = Len(vs[x].inner)

-----------------------------------------------------------------------------
(* A tree that holds K, in which the root may have a single child.         *)
Bare(vs, root, lvl, lo, K) ==
  /\ IsTree(vs, root, lvl, lo) /\ Kept(vs) = K /\ Flagged(vs, root) /\ Limited(vs)
  /\ vs[root].leaf \/ vs[root].inner # <<>>

(* ws is such a tree with no empty node but p and the root, and what is    *)
(* above p is as it was.                                                   *)
Cut(vs, ws, root, lvl, lo, K, p) ==
  /\ Bare(ws, root, lvl, lo, K) /\ Filled(ws, {root, p}) /\ p \in UsedIn(ws)
  /\ \A x \in UsedIn(vs) : lvl[x] >= lvl[p] /\ x # p => ws[x] = vs[x]

(* The empty child c of p is taken off p and freed.                        *)
Freed(vs, p, j, c) ==
  [vs EXCEPT ![p] = Save([vs[p] EXCEPT !.inner = RemoveAt(vs[p].inner, j)]), ![c] = NoNode]

-----------------------------------------------------------------------------
(* The turns of a removal.                                                 *)
IsRemoveUp(f, path, key) ==
  f = [i \in 0 .. Len(path) - 1 |->
        IF i = 0 THEN [nodes |-> WithoutEntry(Last(path), key), at |-> Last(path)]
        ELSE RemoveUp(path[Len(path) - i], f[i - 1])]

-----------------------------------------------------------------------------
(* What holds after i turns of a removal that goes up the path s of ns:    *)
(* no node but the one last looked at is empty.                            *)
Cuts == [nodes : [Blocks -> TreeNodes], at : Blocks]
Shrunk(ns, s, lvl, lo, K, r, i) ==
  /\ Bare(r.nodes, s[1], lvl, lo, K) /\ r.at \in UsedIn(r.nodes)
  /\ Filled(r.nodes, {s[1]}) \/ (r.at = s[Len(s) - i] /\ Filled(r.nodes, {s[1], r.at}))
  /\ \A m \in 1 .. Len(s) - 1 - i : r.nodes[s[m]] = ns[s[m]]

(* What a path says, for the nodes that a removal looks at.                *)
Falls(ns, lvl, s) ==
  /\ Descends(ns, s[1], s)
  /\ \A m, k \in 1 .. Len(s) : m <= k => lvl[s[m]] >= lvl[s[k]]
  /\ ns[s[1]].leaf \/ Len(ns[s[1]].inner) > 1

-----------------------------------------------------------------------------
(* ws has the nodes of vs, but for their flags.                            *)
Alike(vs, ws) ==
  /\ Typed(ws) /\ UsedIn(ws) = UsedIn(vs)
  /\ \A x \in UsedIn(vs) : ws[x].key = vs[x].key /\ ws[x].leaf = vs[x].leaf /\ ws[x].inner = vs[x].inner

(* The root's only child is the root of all but the root.                  *)
Lone(vs, root, c) == root \in InnerIn(vs) /\ Len(vs[root].inner) = 1 /\ vs[root].inner[1] = c
Topped(vs, root) == [vs EXCEPT ![root] = NoNode]
Lowered(vs, ws, root, c, lvl, lo) ==
  IsTree(ws, c, lvl, lo) /\ Kept(ws) = Kept(vs) /\ UsedIn(ws) = UsedIn(vs) \ {root}

-----------------------------------------------------------------------------
(* s goes down from p by only children to the first node that has none or  *)
(* several.                                                                *)
Lonely(vs, lvl, p, s) ==
  /\ s \in Seq(Blocks) /\ Len(s) \in Nat /\ Len(s) > 0 /\ s[1] = p
  /\ \A i \in 1 .. Len(s) : s[i] \in UsedIn(vs) /\ lvl[s[i]] = lvl[p] + 1 - i
  /\ \A i \in 1 .. Len(s) - 1 : Lone(vs, s[i], s[i + 1])
  /\ vs[s[Len(s)]].leaf \/ Len(vs[s[Len(s)]].inner) # 1

(* What is left when the nodes of s but the last are freed.                *)
Lowest(vs, s) ==
  [nodes |-> [p \in Blocks |->
                IF p = Last(s) THEN [vs[p] EXCEPT !.root = TRUE]
                ELSE IF p \in ToSet(s) THEN NoNode ELSE vs[p]],
   root  |-> Last(s)]

-----------------------------------------------------------------------------
(* The nodes without the first m of s.                                     *)
Headless(vs, s, m) == [x \in Blocks |-> IF x \in {s[i] : i \in 1 .. m} THEN NoNode ELSE vs[x]]

-----------------------------------------------------------------------------
(* Scans.  What holds of the tree while it is scanned.                     *)
Stands(lvl, lo) ==
  /\ IsTree(nodes, rootFpos, lvl, lo) /\ Branching(nodes)
  /\ Filled(nodes, {rootFpos}) /\ Flagged(nodes, rootFpos) /\ Limited(nodes)

(* What a place of node p, after its first k children, is above.           *)
Bound(lo, p, k) == IF k = 0 THEN lo[p] ELSE KeyAt(nodes, p, k)

-----------------------------------------------------------------------------
(* The stack of a cursor.                                                  *)

(* A stack goes down from the root; b is 0 for a cursor that goes up and 1 *)
(* for one that goes down.  A frame's place is between the child that the  *)
(* next frame is on and the one to go to after it.                         *)
Backs == {0, 1}
Between(b, f) == f.pos + b
Strung(lvl, b, s) ==
  /\ s \in Seq(Frames) /\ Len(s) > 0 /\ s[1].node = rootFpos
  /\ \A i \in 1 .. Len(s) : /\ s[i].node \in UsedIn(nodes) /\ lvl[s[i].node] = lvl[rootFpos] + 1 - i
                            /\ Between(b, s[i]) \in 0 .. Len(nodes[s[i].node].inner)
  /\ \A i \in 1 .. Len(s) - 1 : /\ s[i].node \in InnerIn(nodes)
                                /\ Between(b, s[i]) + b \in Places(nodes, s[i].node)
                                /\ nodes[s[i].node].inner[Between(b, s[i]) + b] = s[i + 1].node

(* The entries that a cursor at place k of node p is to give, and whether  *)
(* there is none of them in p.                                             *)
Coming(lo, b, p, k) ==
  {e \in Kept(nodes) : IF b = 0 THEN Bound(lo, p, k) < e.key ELSE ~(Bound(lo, p, k) < e.key)}
ComingTo(lo, b, s) == Coming(lo, b, Last(s).node, Between(b, Last(s)))
Spent(b, s) == IF b = 0 THEN Last(s).pos >= Len(nodes[Last(s).node].inner) ELSE Last(s).pos < 0

(* The frame of the next child comes on the stack.                         *)
NextDown(s) == nodes[Last(s).node].inner[Last(s).pos + 1]
Entered(b, c) == Frame(c, IF b = 0 THEN 0 ELSE Len(nodes[c].inner) - 1)
Passed(b, s) == Frame(Last(s).node, Last(s).pos + 1 - (b + b))
Pushed(b, s) == Front(s) \o <<Passed(b, s), Entered(b, NextDown(s))>>

-----------------------------------------------------------------------------
(* A cursor's loop, up (b = 0) or down.                                    *)

(* A turn of the loop: what M is at s, from what it is at the next stack.  *)
Stops(b, s) == IF Spent(b, s) THEN nodes[Last(s).node].root \/ Len(s) = 1 ELSE nodes[Last(s).node].leaf
Turn(b, M, s) ==
  IF Spent(b, s) THEN IF nodes[Last(s).node].root \/ Len(s) = 1 THEN <<>> ELSE M[Front(s)]
  ELSE IF nodes[Last(s).node].leaf THEN s ELSE M[Pushed(b, s)]
Moves(b, M) == M = [s \in Stacks(b) |-> Turn(b, M, s)]

(* Where the loop ends: nothing is to come, or a leaf has some left, and   *)
(* all that was to come is to come.                                        *)
Reached(lvl, lo, b, s, t) ==
  \/ t = <<>> /\ ComingTo(lo, b, s) = {}
  \/ /\ Strung(lvl, b, t) /\ ~Spent(b, t) /\ nodes[Last(t).node].leaf
     /\ ComingTo(lo, b, t) = ComingTo(lo, b, s)

-----------------------------------------------------------------------------
(* Where a cursor begins.                                                  *)

(* The place of a cursor that begins at key in the leaf p, and t, a stack  *)
(* that goes from p down to a leaf by the children where key belongs.      *)
StartAt(b, p, key) ==
  IF b = 0 THEN NextChild(ChildKeys(nodes, p), key) - 1 ELSE LastUpTo(ChildKeys(nodes, p), key) - 1
Trail(lvl, b, key, p, t) ==
  /\ t \in Seq(Frames) /\ Len(t) = lvl[p] + 1 /\ t[1].node = p
  /\ \A i \in 1 .. Len(t) : /\ t[i].node \in UsedIn(nodes) /\ lvl[t[i].node] = lvl[p] + 1 - i
                            /\ key <= nodes[t[i].node].key
  /\ \A i \in 1 .. Len(t) - 1 : /\ Goes(nodes, t[i].node, key, Between(b, t[i]) + b)
                                /\ t[i + 1].node = nodes[t[i].node].inner[Between(b, t[i]) + b]
  /\ t[Len(t)].pos = StartAt(b, t[Len(t)].node, key)

(* The entries that a scan begins with, and the keys it may begin at.      *)
From(b, from) == {e \in Kept(nodes) : IF b = 0 THEN from <= e.key ELSE e.key <= from}
Known(from) == from \in {0, Infinity} \/ \E e \in Kept(nodes) : e.key = from

-----------------------------------------------------------------------------
(* What a scan gives.                                                      *)

(* The entries after e.                                                    *)
Past(b, e) == {f \in Kept(nodes) : IF b = 0 THEN e.key < f.key ELSE f.key < e.key}

(* The stack after e was given: its leaf is on top, moved on past e.       *)
Given(lvl, b, s, e) ==
  /\ Strung(lvl, b, s) /\ nodes[Last(s).node].leaf
  /\ Between(b, Last(s)) + b \in Places(nodes, Last(s).node)
  /\ e = nodes[Last(s).node].inner[Between(b, Last(s)) + b]

-----------------------------------------------------------------------------
(* The invariant of a scan.                                                *)
Back(dir) == IF dir = "up" THEN 0 ELSE 1
Scans == [dir : {"up", "down"}, from : Starts, at : Entries \cup {NoEntry}, stack : Seq(Frames)]
Begun(s) == s.stack = <<Frame(rootFpos, 0)>> /\ (KnownStart => Known(s.from))
Under(s) == \E lvl, lo : Stands(lvl, lo) /\ Given(lvl, Back(s.dir), s.stack, s.at)
ScanInv == scan = NoScan \/ (scan \in Scans /\ IF scan.at = NoEntry THEN Begun(scan) ELSE Under(scan))

(* The entries that scan s is still to give.                               *)
Left(s) == IF s.at = NoEntry THEN From(Back(s.dir), s.from) ELSE Past(Back(s.dir), s.at)

(* Where the cursor is before an entry is given, with those of L to come.  *)
Cursor(lvl, lo, b, L, t) ==
  IF t = <<>> THEN L = {}
  ELSE /\ Last(t) \in Frames /\ Last(t).node \in UsedIn(nodes)
       /\ IF Last(t).pos + 1 \in Places(nodes, Last(t).node)
          THEN Strung(lvl, b, t) /\ ~Spent(b, t) /\ nodes[Last(t).node].leaf /\ ComingTo(lo, b, t) = L
          ELSE KnownStart => L = {}

(* hasNext and hasPrevious give the nearest of the entries to come, or end *)
(* the scan when there is none.                                            *)
Gave ==
  \/ scan' = NoScan /\ (KnownStart => Left(scan) = {})
  \/ \E e \in Left(scan) :
       /\ \A f \in Left(scan) : IF Back(scan.dir) = 0 THEN e.key <= f.key ELSE f.key <= e.key
       /\ \E lvl, lo, u : /\ Stands(lvl, lo) /\ Given(lvl, Back(scan.dir), u, e)
                         /\ scan' = [scan EXCEPT !.at = e, !.stack = u]

-----------------------------------------------------------------------------
(* The tree implements the ordered map.                                    *)

(* M is the map whose entries are those of K.                              *)
Holds(M, K) ==
  /\ M = [k \in DOMAIN M |-> M[k]] /\ DOMAIN M = {e.key : e \in K}
  /\ \A e \in K : M[e.key] = e.val

(* M with a key put in, or taken out, is N.                                *)
PutIn(M, N, key, val) == N = [j \in DOMAIN M \cup {key} |-> IF j = key THEN val ELSE M[j]]
TakenOut(M, N, key) == N = [j \in DOMAIN M \ {key} |-> M[j]]

=============================================================================
