---------------------------- MODULE HeadDetector ----------------------------
(***************************************************************************)
(* The choice of the head of the chain (bc_status_cache/HeadBlockDetector, *)
(* BlockHead, BlockHeadElement, BlockStack, BlockStackElement,             *)
(* HeadBlockDetectorCache).                                                *)
(*                                                                         *)
(* The headers above the finalized one form a tree.  A walk with a stack   *)
(* of siblings makes a head, the list of blocks from the start to a leaf,  *)
(* of every branch; the shorter ones are padded.  Every block is then      *)
(* given two scores, the votes it got and the votes it cast for the block  *)
(* DiffBlocks below it; a cache keeps the scores of blocks that are part   *)
(* of several heads.  The heads are sorted and the last one is selected.   *)
(*                                                                         *)
(* The tree is what the header store says it is (getBlocksAtHeight,        *)
(* getChildrenOf): any tree of at most MaxHeaders headers.  A copy of a    *)
(* header is the header.                                                   *)
(***************************************************************************)
EXTENDS Integers, Sequences, FiniteSets, FiniteSetsExt, SequencesExt

CONSTANTS
  MaxHeaders,  \* bound of the model: headers of the tree
  MaxVotes,    \* bound of the model: votes one header holds for a block
  DiffBlocks   \* voteBeforeNBlocks + voteBlockIncludeAfterNBlocks

ASSUME DetectorAssumption == MaxHeaders \in Nat \ {0} /\ MaxVotes \in Nat /\ DiffBlocks \in Nat \ {0}

VARIABLES
  parent,     \* lastid of every header, 0 for none; children have larger numbers
  votes,      \* votes[h][d]: the size of the group of the block d below h in h's vote part
  start,      \* startHeight
  phase,      \* "new", "walk", "evaluate", "done" or "failed"
  stack,      \* BlockStack: [pos, list] for each height
  heads,      \* headsList: [path, voted, voting, size], padded to size
  at,         \* evaluate: the head and the element that are next
  cache,      \* HeadBlockDetectorCache: the scores of each header, or NotCached
  selected,   \* selectedHead and secondHead
  second

tree == <<parent, votes, start>>
vars == <<tree, phase, stack, heads, at, cache, selected, second>>

Headers == DOMAIN parent
NoHead == [path |-> <<>>, voted |-> <<>>, voting |-> <<>>, size |-> 0]
NotCached == [voted |-> -1, voting |-> -1]

Height(h) == LET H[x \in Headers] == IF parent[x] = 0 THEN 1 ELSE 1 + H[parent[x]] IN H[h]
\* BlockHeaderStoreManager.getNBlocksBefore
Before(h, n) ==
  LET B[k \in 0..n] == IF k = 0 THEN h ELSE IF B[k - 1] = 0 THEN 0 ELSE parent[B[k - 1]] IN B[n]

VotesFor(h, b) == LET below == {d \in DOMAIN votes[h] : Before(h, d) = b} IN IF below = {} THEN 0 ELSE votes[h][Min(below)]

InOrder(S) == [i \in 1..Cardinality(S) |-> CHOOSE x \in S : Cardinality({y \in S : y < x}) = i - 1]
BlocksAtHeight(n) == InOrder({h \in Headers : Height(h) = n})
ChildrenOf(h) == InOrder({c \in Headers : parent[c] = h})

-----------------------------------------------------------------------------
(* The stack of siblings.                                                  *)

Element(list) == [pos |-> 1, list |-> list]
Current(e) == e.list[e.pos]
HasNext(e) == e.pos < Len(e.list)

\* A slip the checks must notice: one level is given up, and if there is no sibling the walk ends.
GotoBranchOnce(s) ==
  LET open == {k \in DOMAIN s : HasNext(s[k]) /\ k >= Len(s) - 1} IN
  IF open = {} THEN <<>> ELSE [SubSeq(s, 1, Max(open)) EXCEPT ![Max(open)].pos = @ + 1]
\* The elements without a next sibling are popped, the one below goes on to its next.
GotoBranch(s) ==
  LET open == {k \in DOMAIN s : HasNext(s[k])} IN
  IF open = {} THEN <<>> ELSE [SubSeq(s, 1, Max(open)) EXCEPT ![Max(open)].pos = @ + 1]

CreateBlockHead(s) == LET n == Len(s) zero == [k \in 1..n |-> 0] IN
  [path |-> [k \in 1..n |-> Current(s[k])], voted |-> zero, voting |-> zero, size |-> n]

NormalizeHeadLength(hs) == LET length == Max({hs[i].size : i \in DOMAIN hs}) IN
  [i \in DOMAIN hs |-> [hs[i] EXCEPT !.size = length]]

\* At height 1 every block, above it the one that getFinalizedHeaderId() finds first.
StartBlocks ==
  LET blocks == BlocksAtHeight(start) IN IF start = 1 THEN blocks ELSE SubSeq(blocks, 1, Min({1, Len(blocks)}))

-----------------------------------------------------------------------------
(* The scores.                                                             *)

\* A slip the checks must notice: the votes go to the block above the one they are for.
HandleVotesAbove(head, i) ==
  LET h == head.path[i] pos == i - DiffBlocks IN
  IF pos < 1 THEN head
  ELSE [head EXCEPT !.voting[i] = VotesFor(h, head.path[pos]), !.voted[pos + 1] = @ + VotesFor(h, head.path[pos])]
\* handleVotes() for element i of head: the block DiffBlocks below gets its votes if the head
\* begins low enough; its own voting score is the size of the group it holds for that block.
HandleVotes(head, i) ==
  LET h == head.path[i]
      pos == i - DiffBlocks
      votedId == IF pos >= 1 THEN head.path[pos] ELSE IF Height(h) > DiffBlocks THEN Before(h, DiffBlocks) ELSE 0
  IN IF votedId = 0 THEN head
     ELSE [head EXCEPT !.voting[i] = VotesFor(h, votedId),
                       !.voted = [k \in DOMAIN @ |-> IF k = pos THEN @[k] + VotesFor(h, votedId) ELSE @[k]]]

Scores(head, i) == [voted |-> head.voted[i], voting |-> head.voting[i]]
WithScores(head, i, s) == [head EXCEPT !.voted[i] = s.voted, !.voting[i] = s.voting]

-----------------------------------------------------------------------------
(* The order of the heads.  A padding element has no scores.               *)

Score(s, k) == IF k \in DOMAIN s THEN s[k] ELSE 0
FirstDifference(a, b, size) ==
  LET differs == {k \in 1..size : Score(a, k) # Score(b, k)} IN
  IF differs = {} THEN 0 ELSE Score(a, Min(differs)) - Score(b, Min(differs))

HeadHeader(head) == Last(head.path)
\* compareToByVoted() takes the other head's voting scores.
ByVoted(a, b) == FirstDifference(a.voted, b.voting, a.size)
ByVoting(a, b) == FirstDifference(a.voting, b.voting, a.size)
\* A slip the checks must notice: the padding counts as height.
ByLastHeightPadded(a, b) == a.size - b.size
ByLastHeight(a, b) == Height(HeadHeader(a)) - Height(HeadHeader(b))
\* Headers have the timestamps of their numbers.
ByLastTimestamp(a, b) == HeadHeader(a) - HeadHeader(b)

CompareTo(a, b) ==
  LET d == <<ByVoted(a, b), ByVoting(a, b), ByLastHeight(a, b), ByLastTimestamp(a, b)>>
      differs == {k \in DOMAIN d : d[k] # 0}
  IN IF differs = {} THEN 0 ELSE d[Min(differs)]

HeadsList == INSTANCE ArrayLists WITH Compare <- CompareTo

\* copyOriginalBlockHead(): clone() takes the voted score for both.
CopyOriginal(head) == [head EXCEPT !.voting = head.voted, !.size = Len(head.path)]

-----------------------------------------------------------------------------
Init ==
  /\ \E n \in 1..MaxHeaders : parent \in {p \in [1..n -> 0..n - 1] : \A h \in 1..n : p[h] < h}
  /\ votes \in {v \in [Headers -> [1..DiffBlocks -> 0..MaxVotes]] :
       \A h \in Headers, d \in 1..DiffBlocks : Before(h, d) = 0 => v[h][d] = 0}
  /\ start \in 1..2
  /\ phase = "new" /\ stack = <<>> /\ heads = <<>> /\ at = <<1, 1>>
  /\ cache = [h \in Headers |-> NotCached] /\ selected = NoHead /\ second = NoHead

BuildHeads ==
  /\ phase = "new"
  /\ IF StartBlocks = <<>> THEN phase' = "failed" /\ stack' = stack
                           ELSE phase' = "walk" /\ stack' = <<Element(StartBlocks)>>
  /\ UNCHANGED <<tree, heads, at, cache, selected, second>>

Walk ==
  /\ phase = "walk" /\ stack # <<>>
  /\ LET children == ChildrenOf(Current(Last(stack))) IN
     IF children = <<>> THEN /\ heads' = Append(heads, CreateBlockHead(stack))
                             /\ stack' = GotoBranch(stack)
                        ELSE stack' = Append(stack, Element(children)) /\ heads' = heads
  /\ UNCHANGED <<tree, phase, at, cache, selected, second>>

EndOfWalk ==
  /\ phase = "walk" /\ stack = <<>>
  /\ heads' = NormalizeHeadLength(heads) /\ phase' = "evaluate"
  /\ UNCHANGED <<tree, stack, at, cache, selected, second>>

Evaluated(head, i) == [head |-> HandleVotes(head, i), scores |-> Scores(HandleVotes(head, i), i)]

\* A slip the checks must notice: after the padding the same head is evaluated again.
AfterPaddingAgain(i) == i
AfterPadding(i) == i + 1

\* One element of evaluateHead(); the first padding element ends it.
EvaluateElement ==
  /\ phase = "evaluate" /\ at[1] <= Len(heads)
  /\ LET head == heads[at[1]] i == at[2] IN
     IF i > Len(head.path) THEN at' = <<AfterPadding(at[1]), 1>> /\ UNCHANGED <<heads, cache>>
     ELSE LET h == head.path[i] e == Evaluated(head, i) IN
          /\ at' = <<at[1], i + 1>>
          /\ IF cache[h] # NotCached
             THEN heads' = [heads EXCEPT ![at[1]] = WithScores(head, i, cache[h])] /\ cache' = cache
             ELSE heads' = [heads EXCEPT ![at[1]] = e.head] /\ cache' = [cache EXCEPT ![h] = e.scores]
  /\ UNCHANGED <<tree, phase, stack, selected, second>>

SelectChain ==
  /\ phase = "evaluate" /\ at[1] > Len(heads)
  /\ IF HeadsList!SortThrows(heads) THEN phase' = "failed" /\ UNCHANGED <<heads, selected, second>>
     ELSE LET sorted == HeadsList!Sorted(heads) n == Len(heads) IN
          /\ selected' = CopyOriginal(sorted[n])
          /\ second' = IF n > 1 THEN CopyOriginal(sorted[n - 1]) ELSE NoHead
          /\ heads' = <<>> /\ phase' = "done"
  /\ UNCHANGED <<tree, stack, at, cache>>

Next == BuildHeads \/ Walk \/ EndOfWalk \/ EvaluateElement \/ SelectChain

\* The detection is one call: it goes on until it ends.
Spec == Init /\ [][Next]_vars /\ WF_vars(Next)

-----------------------------------------------------------------------------
\* Every chain of blocks from a start block to a block without children.
PathTo(h) == LET n == Height(h) - start + 1 IN [i \in 1..n |-> Before(h, n - i)]
Branches == {PathTo(h) : h \in {l \in Headers : ChildrenOf(l) = <<>> /\ Height(l) >= start}}
Selectable == IF start = 1 THEN Branches ELSE {p \in Branches : p[1] = Head(BlocksAtHeight(start))}
NoVotes == \A h \in Headers, d \in 1..DiffBlocks : votes[h][d] = 0

\* The variables have the values of their kinds, every head is as long as its scores.
TypeOK ==
  /\ phase \in {"new", "walk", "evaluate", "done", "failed"} /\ start \in Nat
  /\ \A i \in DOMAIN stack : stack[i].pos \in DOMAIN stack[i].list
  /\ \A i \in DOMAIN heads : LET head == heads[i] IN
       /\ head.path \in Seq(Headers) /\ head.size \in Nat /\ head.size >= Len(head.path)
       /\ head.voted \in Seq(Nat) /\ head.voting \in Seq(Nat)
       /\ Len(head.voted) = Len(head.path) /\ Len(head.voting) = Len(head.path)
  /\ at \in Nat \X Nat

\* After the walk of BlockStack the heads are the branches of the tree, each one once: gotoBranch()
\* neither skips a sibling nor comes back to one, however deep it has to give up.
HeadsAreTheBranches ==
  phase = "evaluate" => /\ {heads[i].path : i \in DOMAIN heads} = Selectable
                        /\ Cardinality(Selectable) = Len(heads)

\* A block's voting score is the number of votes it holds for the block DiffBlocks below it on its
\* branch, also where the score came from the cache or that block lies below the start.
VotingScoreIsOwn ==
  phase = "evaluate" => \A i \in DOMAIN heads : \A k \in DOMAIN heads[i].path :
    i < at[1] \/ (i = at[1] /\ k < at[2]) =>
      LET h == heads[i].path[k] b == Before(h, DiffBlocks) IN
      heads[i].voting[k] = IF b = 0 THEN 0 ELSE VotesFor(h, b)

\* No vote is counted twice and none for another block: in a head, the voted score of a block is at
\* most what the block DiffBlocks above it in this head holds for it.  (It is less where the cache
\* gave the block the score it had before that vote was handled.)
NoVoteCountedTwice ==
  \A i \in DOMAIN heads : \A k \in DOMAIN heads[i].path :
    LET head == heads[i] IN
    head.voted[k] <= IF k + DiffBlocks \in DOMAIN head.path THEN VotesFor(head.path[k + DiffBlocks], head.path[k]) ELSE 0

\* The scores by which heads are compared are the votes of the tree.
ScoresAreVotes == TypeOK /\ VotingScoreIsOwn /\ NoVoteCountedTwice

\* Without votes the highest branch is selected, of several the one with the youngest head; the
\* second head is another branch.
LongestWins ==
  phase = "done" /\ NoVotes =>
    /\ selected.path \in Selectable
    /\ \A p \in Selectable : \/ Len(p) < Len(selected.path)
                             \/ Len(p) = Len(selected.path) /\ Last(p) <= Last(selected.path)
    /\ Cardinality(Selectable) > 1 => second.path \in Selectable \ {selected.path}

\* The detection ends, with a head or with a throw.
DetectionEnds == <>(phase \in {"done", "failed"})
=============================================================================
