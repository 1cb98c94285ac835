------------------------------- MODULE Btree --------------------------------
(***************************************************************************)
(* The B-tree (db/btree: Btree, BtreeStorage, NodeCursor, NodePosition,    *)
(* TreeNode, BtreeScanner, BtreeReverseScanner; db/btree_cache).           *)
(*                                                                         *)
(* A tree node has a key, which bounds the keys below it, and at most      *)
(* NodeNumber children, in the order of their keys.  The children of a     *)
(* leaf are data nodes: here an entry stands for the data node and the     *)
(* block its value is in.  The children of any other node are positions of *)
(* tree nodes.  The right-most node of each level has the key Infinity.    *)
(*                                                                         *)
(* A node is written when it is changed, so that memory (the node cache)   *)
(* and disk differ in one thing only: setRoot when the root has a single   *)
(* child is not followed by save.  A node's field saved is its root flag   *)
(* on disk.  The cache is larger than a path and every call begins at the  *)
(* root, so a node that differs from the disk is never evicted.            *)
(***************************************************************************)
EXTENDS Integers, Sequences, FiniteSets, FiniteSetsExt, SequencesExt

CONSTANTS
  MaxKey,      \* keys are 1 .. MaxKey
  Values,
  NodeNumber,  \* BtreeConfig.nodeNumber: children that a node can have
  MaxBlocks,   \* bound: blocks that the store gives to tree nodes
  SafeReopen,  \* environment: the tree is not closed while the header and
               \* the flags on disk are behind
  KnownStart   \* environment: begin(key) is called with a key of the tree

ASSUME BtreeAssumption ==
  /\ MaxKey \in Nat /\ NodeNumber \in Nat /\ NodeNumber >= 2
  /\ MaxBlocks \in Nat \ {0}
  /\ SafeReopen \in BOOLEAN /\ KnownStart \in BOOLEAN

Keys == 1 .. MaxKey
Infinity == MaxKey + 1
Blocks == 1 .. MaxBlocks

VARIABLES
  nodes,     \* the tree nodes by their position (fpos)
  rootFpos,  \* BtreeStorage.rootFpos
  header,    \* the root position in the header block
  scan       \* the scanner in use

vars == <<nodes, rootFpos, header, scan>>

-----------------------------------------------------------------------------
Entry(key, val) == [key |-> key, val |-> val]
NoEntry == [key |-> 0]
NoScan == [dir |-> "none"]
Entries == [key : Keys, val : Values]

TreeNode(root, leaf, key, inner) ==
  [root |-> root, saved |-> root, leaf |-> leaf, key |-> key, inner |-> inner]
NoNode == TreeNode(FALSE, TRUE, 0, <<>>)

(* BtreeStorage.updateNode.                                                *)
Save(n) == [n EXCEPT !.saved = n.root]

(* storeNode takes a free block.                                           *)
Fresh(ns) == Min({b \in Blocks : ns[b] = NoNode})

(* The key of a child: an entry of a leaf, or the position of a node.      *)
KeyOf(ns, leaf, child) == IF leaf THEN child.key ELSE ns[child].key
ChildKeys(ns, p) ==
  [i \in DOMAIN ns[p].inner |-> KeyOf(ns, ns[p].leaf, ns[p].inner[i])]

(* NodePosition.getNextChild, gotoEqMoreThanKey: the first child whose key *)
(* is not less.  indexof, hasKey, gotoEqKey: the child with the key.       *)
NextChild(keys, key) == SelectInSeq(keys, LAMBDA k : key <= k)
IndexOf(keys, key) == SelectInSeq(keys, LAMBDA k : k = key)

(* NodeCursor.gotoLeaf: the positions from the root to the leaf for key.   *)
(* It ends early where the code cannot load the next node.                 *)
Path(key) ==
  LET Down[p \in Blocks] ==
        IF nodes[p] = NoNode THEN <<>>
        ELSE LET keys == ChildKeys(nodes, p)
             IN  <<p>> \o IF nodes[p].leaf \/ NextChild(keys, key) = 0 THEN <<>>
                          ELSE Down[nodes[p].inner[NextChild(keys, key)]]
  IN  Down[rootFpos]

AtLeaf(path) == path # <<>> /\ nodes[Last(path)].leaf

(* Btree.findByKey, NodeCursor.find.                                       *)
Find(path, key) ==
  IF AtLeaf(path) /\ IndexOf(ChildKeys(nodes, Last(path)), key) # 0
  THEN nodes[Last(path)].inner[IndexOf(ChildKeys(nodes, Last(path)), key)]
  ELSE NoEntry

-----------------------------------------------------------------------------
(* Insertion goes up the path with t: the nodes so far, the child that is  *)
(* still to be added with its key (0: none), the root and the header.      *)
Tree(ns, key, child, root, hdr) ==
  [nodes |-> ns, key |-> key, child |-> child, root |-> root, header |-> hdr]

(* addNode, setupTwoLists: before the first child with a greater key.      *)
Inserted(inner, keys, key, child) ==
  LET i == SelectInSeq(keys, LAMBDA k : k > key)
  IN  IF i = 0 THEN Append(inner, child) ELSE InsertAt(inner, i, child)

(* createNewRoot, updateRootFpos.                                          *)
NewRoot(t, ns, new, old, pos) ==
  Tree([ns EXCEPT ![pos] = TreeNode(TRUE, FALSE, Infinity, <<new, old>>)], 0, 0, pos, pos)

(* A slip the checks must notice: the new node's key is the first of the   *)
(* other half.                                                             *)
SplitKeyOver(t, p, n, all, half, new) ==
  LET left  == TreeNode(FALSE, n.leaf, KeyOf(t.nodes, n.leaf, all[half + 1]), SubSeq(all, 1, half))
      right == Save([n EXCEPT !.root = FALSE, !.inner = SubSeq(all, half + 1, Len(all))])
      ns    == [t.nodes EXCEPT ![new] = left, ![p] = right]
  IN  IF n.root THEN NewRoot(t, ns, new, p, Fresh(ns))
      ELSE Tree(ns, left.key, new, t.root, t.header)

(* splitLeafNode, splitTreeNode: a new node gets the first half of all the *)
(* children and the key of the last of them, the old one keeps the rest    *)
(* and its key.                                                            *)
Split(t, p, n, all, half, new) ==
  LET left  == TreeNode(FALSE, n.leaf, KeyOf(t.nodes, n.leaf, all[half]), SubSeq(all, 1, half))
      right == Save([n EXCEPT !.root = FALSE, !.inner = SubSeq(all, half + 1, Len(all))])
      ns    == [t.nodes EXCEPT ![new] = left, ![p] = right]
  IN  IF n.root THEN NewRoot(t, ns, new, p, Fresh(ns))
      ELSE Tree(ns, left.key, new, t.root, t.header)

IsFull(n) == Len(n.inner) >= NodeNumber

(* The end of insert, and addToParent for the nodes above.                 *)
AddTo(p, t) ==
  LET n   == t.nodes[p]
      all == Inserted(n.inner, ChildKeys(t.nodes, p), t.key, t.child)
  IN  IF t.key = 0 THEN t
      ELSE IF IsFull(n) THEN Split(t, p, n, all, Len(all) \div 2, Fresh(t.nodes))
      ELSE [t EXCEPT !.nodes[p] = Save([n EXCEPT !.inner = all]), !.key = 0]

(* From the leaf, the last node of the path, up to the root.               *)
Added(path, key, val) ==
  LET Up[i \in 0 .. Len(path)] ==
        IF i = 0 THEN Tree(nodes, key, Entry(key, val), rootFpos, header)
        ELSE AddTo(path[Len(path) + 1 - i], Up[i - 1])
  IN  Up[Len(path)]

(* Bound: every node of the path may split, and the root get a new one.    *)
HasRoom(path) == Cardinality({b \in Blocks : nodes[b] = NoNode}) > Len(path)

(* registerData on a key that is there: only the data node is written.     *)
Replace(leaf, i, key, val) ==
  /\ nodes' = [nodes EXCEPT ![leaf].inner[i] = Entry(key, val)]
  /\ UNCHANGED <<rootFpos, header, scan>>

Insert(path, key, val) ==
  /\ HasRoom(path)
  /\ \E t \in {Added(path, key, val)} :
       nodes' = t.nodes /\ rootFpos' = t.root /\ header' = t.header
  /\ UNCHANGED scan

Idle == scan = NoScan

(* Btree.putData, NodeCursor.insert.  Callers do not change a tree while   *)
(* they scan it.                                                           *)
PutData(key, val) ==
  /\ Idle
  /\ \E path \in {Path(key)} :
       /\ AtLeaf(path)
       /\ IF Find(path, key) # NoEntry
          THEN Replace(Last(path), IndexOf(ChildKeys(nodes, Last(path)), key), key, val)
          ELSE Insert(path, key, val)

-----------------------------------------------------------------------------
(* A slip the checks must notice: only the node itself gets the key.       *)
SetKeyOfSelf(ns, p, key) == [ns EXCEPT ![p] = Save([ns[p] EXCEPT !.key = key])]

(* setKeyForSelfAndDescendants: down the last children.                    *)
SetKey(ns, p, key) ==
  LET Chain[q \in Blocks] == {q} \cup IF ns[q].leaf THEN {} ELSE Chain[Last(ns[q].inner)]
      chain == Chain[p]
  IN  [q \in Blocks |-> IF q \in chain THEN Save([ns[q] EXCEPT !.key = key]) ELSE ns[q]]

(* Removing an empty child from the node above it (removeChildNode): its   *)
(* block is freed, and if it was the last one the child before it takes    *)
(* over its key.                                                           *)
Without(ns, p, key, i) ==
  LET rest    == RemoveAt(ns[p].inner, i)
      removed == [ns EXCEPT ![p] = Save([ns[p] EXCEPT !.inner = rest]),
                            ![ns[p].inner[i]] = NoNode]
  IN  IF key = ns[p].key /\ rest # <<>> THEN SetKey(removed, Last(rest), key) ELSE removed

(* internalRemoveFromBottomToUpper: r.at is the node last looked at.       *)
RemoveUp(upper, r) ==
  LET n == r.nodes[r.at]
  IN  IF n.root \/ n.inner # <<>> THEN r
      ELSE [nodes |-> Without(r.nodes, upper, n.key, IndexOf(ChildKeys(r.nodes, upper), n.key)),
            at    |-> upper]

(* internalRemoveRoot: while the root has a single child, the child is the *)
(* root and the old one's block is freed.  The flag is set in memory, the  *)
(* root position by setRootFpos: neither is written.                       *)
Collapsed(ns, root) ==
  LET Chain[p \in Blocks] ==
        IF ns[p].leaf \/ Len(ns[p].inner) # 1 THEN <<p>> ELSE <<p>> \o Chain[ns[p].inner[1]]
      chain == Chain[root]
  IN  [nodes |-> [p \in Blocks |->
                    IF p = Last(chain) THEN [ns[p] EXCEPT !.root = TRUE]
                    ELSE IF p \in ToSet(chain) THEN NoNode ELSE ns[p]],
       root  |-> Last(chain)]

(* internalRemoveLeafChildNode.                                            *)
WithoutEntry(leaf, key) ==
  LET n == nodes[leaf]
      i == IndexOf(ChildKeys(nodes, leaf), key)
  IN  [nodes EXCEPT ![leaf] = Save([n EXCEPT !.inner = RemoveAt(n.inner, i)])]

(* The entry goes, then the empty nodes of the path from the leaf up.      *)
Removed(path, key) ==
  LET Up[i \in 0 .. Len(path) - 1] ==
        IF i = 0 THEN [nodes |-> WithoutEntry(Last(path), key), at |-> Last(path)]
        ELSE RemoveUp(path[Len(path) - i], Up[i - 1])
  IN  Up[Len(path) - 1].nodes

(* Btree.remove, NodeCursor.remove: false, and no change, without the key. *)
RemoveKey(key) ==
  /\ Idle
  /\ \E path \in {Path(key)} :
       /\ Find(path, key) # NoEntry
       /\ \E c \in {Collapsed(Removed(path, key), rootFpos)} : nodes' = c.nodes /\ rootFpos' = c.root
  /\ UNCHANGED <<header, scan>>
-----------------------------------------------------------------------------
(* Scanners.  A frame is a NodePosition: a node and the place, counted     *)
(* from 0, of the child to go to next.  at is the entry given last; its    *)
(* data node is on top of the stack.  gotoFirst and gotoLast are gotoKey   *)
(* and gotoKeyPrevious for a key below, or above, every key.               *)
Frames == [node : Blocks, pos : -1 .. NodeNumber]
Frame(node, pos) == [node |-> node, pos |-> pos]
Starts == 0 .. Infinity

(* gotoFirst, gotoKey: the frames of the path, the ones above the leaf     *)
(* moved past the child they went to.                                      *)
GotoKey(path, key) ==
  [i \in DOMAIN path |->
     LET c == NextChild(ChildKeys(nodes, path[i]), key)
     IN  Frame(path[i], IF nodes[path[i]].leaf THEN c - 1 ELSE c)]

(* getNextChildPrevious: the child with the key, or the one after the last *)
(* child with a smaller key.  gotoEqLessThanKey: the last child whose key  *)
(* is not greater.                                                         *)
LastUpTo(keys, key) == SelectLastInSeq(keys, LAMBDA k : k <= key)
NextChildPrevious(keys, key) ==
  IF IndexOf(keys, key) # 0 THEN IndexOf(keys, key)
  ELSE Min({LastUpTo(keys, key) + 1, Len(keys)})

(* gotoLast, gotoKeyPrevious.                                              *)
GotoKeyPrevious(root, key) ==
  LET Down[p \in Blocks] ==
        LET n == nodes[p]
            c == NextChildPrevious(ChildKeys(nodes, p), key)
        IN  IF n.leaf THEN <<Frame(p, LastUpTo(ChildKeys(nodes, p), key) - 1)>>
            ELSE <<Frame(p, c - 2)>> \o Down[n.inner[c]]
  IN  Down[root]

(* Stacks on nodes that are there: back is 0 for a cursor that goes up and *)
(* 1 for one that goes down, whose place may be -1.                        *)
Stacks(back) ==
  {s \in Seq(Frames) : /\ s # <<>>
                       /\ \A i \in DOMAIN s : /\ nodes[s[i].node] # NoNode
                                              /\ s[i].pos + back \in 0 .. Len(nodes[s[i].node].inner)}

(* getNext: up and down until a leaf has an entry left; nothing when the   *)
(* root has none.                                                          *)
GetNext(stack) ==
  LET Move[s \in Stacks(0)] ==
        LET f == Last(s)
            n == nodes[f.node]
        IN  IF f.pos >= Len(n.inner) THEN IF n.root \/ Len(s) = 1 THEN <<>> ELSE Move[Front(s)]
            ELSE IF n.leaf THEN s
            ELSE Move[Front(s) \o <<Frame(f.node, f.pos + 1), Frame(n.inner[f.pos + 1], 0)>>]
  IN  Move[stack]

(* A slip the checks must notice: the next leaf down is entered at its     *)
(* first entry.                                                            *)
GetPreviousFirst(stack) ==
  LET Move[s \in Stacks(1)] ==
        LET f == Last(s)
            n == nodes[f.node]
        IN  IF f.pos < 0 THEN IF n.root \/ Len(s) = 1 THEN <<>> ELSE Move[Front(s)]
            ELSE IF n.leaf THEN s
            ELSE Move[Front(s) \o <<Frame(f.node, f.pos - 1), Frame(n.inner[f.pos + 1], 0)>>]
  IN  Move[stack]

(* getPrevious.                                                            *)
GetPrevious(stack) ==
  LET Move[s \in Stacks(1)] ==
        LET f == Last(s)
            n == nodes[f.node]
        IN  IF f.pos < 0 THEN IF n.root \/ Len(s) = 1 THEN <<>> ELSE Move[Front(s)]
            ELSE IF n.leaf THEN s
            ELSE Move[Front(s) \o <<Frame(f.node, f.pos - 1),
                                    Frame(n.inner[f.pos + 1],
                                          Len(nodes[n.inner[f.pos + 1]].inner) - 1)>>]
  IN  Move[stack]

(* The stack once the cursor moved: on a leaf, before the entry to give.   *)
Moved(s) ==
  IF s.dir = "up"
  THEN IF s.at = NoEntry THEN GotoKey(Path(s.from), s.from) ELSE GetNext(s.stack)
  ELSE IF s.at = NoEntry THEN GotoKeyPrevious(s.stack[1].node, s.from) ELSE GetPrevious(s.stack)

(* Btree.getScanner or getReverseScanner, and begin.                       *)
Begin(dir, from) ==
  /\ Idle
  /\ KnownStart => from \in {0, Infinity} \/ Find(Path(from), from) # NoEntry
  /\ nodes[rootFpos] # NoNode
  /\ scan' = [dir |-> dir, from |-> from, at |-> NoEntry, stack |-> <<Frame(rootFpos, 0)>>]
  /\ UNCHANGED <<nodes, rootFpos, header>>

(* hasNext and hasPrevious with next: the entry under the cursor, which    *)
(* nextNode, previousNode move on; without one the caller's loop ends.     *)
Give(stack, top) ==
  LET n    == nodes[top.node]
      step == IF scan.dir = "up" THEN 1 ELSE -1
  IN  scan' = IF top.pos \in 0 .. Len(n.inner) - 1
              THEN [scan EXCEPT !.at = n.inner[top.pos + 1],
                                !.stack = Append(Front(stack), Frame(top.node, top.pos + step))]
              ELSE NoScan

HasNext ==
  /\ scan # NoScan
  /\ \E stack \in {Moved(scan)} :
       IF stack = <<>> THEN scan' = NoScan ELSE Give(stack, Last(stack))
  /\ UNCHANGED <<nodes, rootFpos, header>>

-----------------------------------------------------------------------------
(* What create puts into the store.                                        *)
Init ==
  /\ nodes = [b \in Blocks |-> IF b = 1 THEN TreeNode(TRUE, TRUE, Infinity, <<>>) ELSE NoNode]
  /\ rootFpos = 1 /\ header = 1
  /\ scan = NoScan

Used == {b \in Blocks : nodes[b] # NoNode}

(* close and open: the nodes as they are on disk, the root from the header. *)
Reopen ==
  /\ Idle
  /\ SafeReopen => header = rootFpos /\ \A b \in Used : nodes[b].saved = nodes[b].root
  /\ nodes' = [b \in Blocks |-> IF b \in Used THEN [nodes[b] EXCEPT !.root = nodes[b].saved]
                                ELSE NoNode]
  /\ rootFpos' = header
  /\ UNCHANGED <<header, scan>>

Next ==
  \/ \E key \in Keys : RemoveKey(key) \/ \E val \in Values : PutData(key, val)
  \/ \E dir \in {"up", "down"}, from \in Starts : Begin(dir, from)
  \/ HasNext
  \/ Reopen

Spec == Init /\ [][Next]_vars
-----------------------------------------------------------------------------
(* Nodes keep within NodeNumber children; positions are blocks.            *)
TypeOK ==
  /\ \A b \in Blocks : nodes[b] = NoNode \/
       /\ nodes[b].key \in Keys \cup {Infinity} /\ Len(nodes[b].inner) <= NodeNumber
       /\ ToSet(nodes[b].inner) \subseteq (IF nodes[b].leaf THEN Entries ELSE Blocks)
  /\ {rootFpos, header} \subseteq Blocks
  /\ scan = NoScan \/ ToSet(scan.stack) \subseteq Frames

(* The positions of node p and of the tree nodes below it.                 *)
Below(p) ==
  LET Down[q \in Blocks] ==
        IF nodes[q] = NoNode THEN {}
        ELSE {q} \cup IF nodes[q].leaf THEN {} ELSE UNION {Down[c] : c \in ToSet(nodes[q].inner)}
  IN  Down[p]

EntriesIn(S) == UNION {ToSet(nodes[p].inner) : p \in {q \in S : nodes[q].leaf}}

(* Every block that is in use belongs to the tree: a node that was taken   *)
(* off it gave its block back, and no node was freed that is still linked. *)
NoLeak == Used = Below(rootFpos)

(* How far below p its leaves are.                                         *)
LeafDepths(p) ==
  LET Down[q \in Blocks] ==
        IF nodes[q].leaf THEN {0} ELSE {d + 1 : d \in UNION {Down[c] : c \in ToSet(nodes[q].inner)}}
  IN  Down[p]

(* Only the root is flagged as root and has no key but Infinity; the root  *)
(* is a leaf or has two children (__ASSERT_TREE, internalRemoveRoot); no   *)
(* other node is empty; all leaves are equally deep.                       *)
Shape ==
  LET tree == Below(rootFpos)
  IN  /\ \A p \in tree : nodes[p].root <=> p = rootFpos
      /\ \A p \in tree \ {rootFpos} : nodes[p].inner # <<>>
      /\ nodes[rootFpos].leaf \/ Len(nodes[rootFpos].inner) > 1
      /\ Cardinality(LeafDepths(rootFpos)) = 1

(* The keys of a node's children ascend and end with its own, and what is  *)
(* below a child lies between the key of the child before and its own:     *)
(* what getNextChild relies on after every split, removal and key change.  *)
Separated ==
  \A p \in Below(rootFpos) :
    LET keys == ChildKeys(nodes, p)
    IN  /\ \A i, j \in DOMAIN keys : i < j => keys[i] < keys[j]
        /\ \A i \in DOMAIN keys : keys[i] <= nodes[p].key
        /\ ~nodes[p].leaf =>
             /\ keys[Len(keys)] = nodes[p].key
             /\ \A i \in DOMAIN keys : \A e \in EntriesIn(Below(nodes[p].inner[i])) :
                  e.key <= keys[i] /\ (i > 1 => keys[i - 1] < e.key)

(* The tree is well formed after every insertion and removal, also one that *)
(* splits or collapses nodes on several levels.                            *)
WellFormed == TypeOK /\ NoLeak /\ Shape /\ Separated

(* findByKey finds every entry of the tree, and nothing else.              *)
SearchFindsAll ==
  LET all == EntriesIn(Below(rootFpos))
  IN  \A key \in Keys :
        IF \E e \in all : e.key = key THEN Find(Path(key), key) \in all /\ Find(Path(key), key).key = key
        ELSE Find(Path(key), key) = NoEntry

(* The map the tree stands for.                                            *)
Content ==
  LET all == EntriesIn(Below(rootFpos))
  IN  [k \in {e.key : e \in all} |-> (CHOOSE e \in all : e.key = k).val]

AbstractScan ==
  IF scan = NoScan THEN NoScan ELSE [dir |-> scan.dir, from |-> scan.from, at |-> scan.at]

Map == INSTANCE OrderedMap WITH map <- Content, scan <- AbstractScan

(* A scan that begins at any key, there or not, gives the next greater key *)
(* of the tree if there is one (the test of Btree begins at 7 and expects  *)
(* 10 and 100).                                                            *)
BeginFindsNext ==
  [][scan # NoScan /\ scan' = NoScan /\ scan.at = NoEntry /\ scan.dir = "up"
       => \A k \in DOMAIN Content : k < scan.from]_vars

(* A tree is a map with ordered scans: splits, collapses and reopening     *)
(* change nothing that a client sees, put and remove change one key, and a *)
(* scan visits every key from its start on, in order, with its value.      *)
ImplementsOrderedMap == Map!Spec
=============================================================================
