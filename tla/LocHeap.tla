------------------------------- MODULE LocHeap -------------------------------
(***************************************************************************)
(* The heap of timers: utils/LocHeap.{h,cpp}, a binary tree whose nodes    *)
(* outrank their children.  push descends into the smaller subtree, pop    *)
(* moves data up along the higher ranked children and gives up a leaf,     *)
(* remove searches by address, but prunes by rank.  Links never change but *)
(* where a leaf is hung up or given up, so a node is known by its place:   *)
(* 1 is the top of the tree, and below node i its mLeft is 2 * i and its   *)
(* mRight 2 * i + 1.                                                       *)
(***************************************************************************)
EXTENDS Integers

CONSTANTS
  Items,      \* the LocRankable objects
  MaxRank     \* ranks are 1..MaxRank: with few of them many objects are equal

Nobody == "nobody"

ASSUME HeapAssumption == Nobody \notin Items /\ MaxRank \in Nat

VARIABLES
  rank,       \* what ranks() compares; it does not change while listed
  mTree,      \* what is in each node there is
  last        \* the last call: its name, its object, the answer of remove

heapVars == <<rank, mTree, last>>

OutRanks(x, y) == rank[x] > rank[y]

-----------------------------------------------------------------------------
(* LocHeapNode                                                             *)

NULL == <<>>
Leaf(x) == [mData |-> x, mSize |-> 1]

Nodes == DOMAIN mTree
mLeft(i) == 2 * i
mRight(i) == 2 * i + 1
Parent(i) == i \div 2
Data(i) == mTree[i].mData
Size(i) == IF i \in Nodes THEN mTree[i].mSize ELSE 0

\* The nodes, and where one more can be hung up.
Places == {1} \cup UNION {{i, mLeft(i), mRight(i)} : i \in Nodes}

Higher(x, y) == IF OutRanks(x, y) THEN x ELSE y
Lower(x, y) == IF OutRanks(x, y) THEN y ELSE x

SubtreeFor(i) ==
  IF mLeft(i) \notin Nodes THEN mLeft(i)
  ELSE IF mRight(i) \notin Nodes THEN mRight(i)
  ELSE IF Size(mLeft(i)) <= Size(mRight(i)) THEN mLeft(i) ELSE mRight(i)

\* What each place is given when x is pushed: the lower ranked of what its
\* parent was given and had, or nobody, if push does not come by.
Given(x) ==
  LET given[i \in Places] ==
        IF i = 1 THEN x
        ELSE IF given[Parent(i)] # Nobody /\ i = SubtreeFor(Parent(i))
             THEN Lower(given[Parent(i)], Data(Parent(i)))
             ELSE Nobody
  IN given

\* LocHeapNode::push, and the first node of a tree
NodePush(x) ==
  LET given == Given(x)
      Passed == {i \in Places : given[i] # Nobody}
  IN [i \in Nodes \cup Passed |->
        IF i \notin Nodes THEN Leaf(given[i])
        ELSE IF i \in Passed THEN [mData |-> Higher(given[i], Data(i)), mSize |-> Size(i) + 1]
        ELSE mTree[i]]

IsLeaf(i) == mLeft(i) \notin Nodes /\ mRight(i) \notin Nodes

\* The child whose data moves up when the node gives up its own.
SubTop(i) ==
  IF mLeft(i) \notin Nodes THEN mRight(i)
  ELSE IF mRight(i) \notin Nodes THEN mLeft(i)
  ELSE IF OutRanks(Data(mLeft(i)), Data(mRight(i))) THEN mLeft(i) ELSE mRight(i)

\* Whether a node gives up its data when the one of top is popped.
Gives(top) ==
  LET gives[i \in Nodes] ==
        \/ i = top
        \/ i # 1 /\ gives[Parent(i)] /\ i = SubTop(Parent(i))
  IN gives

\* LocHeapNode::pop, without the data it returns, which is the top's.
NodePop(top) ==
  LET gives == Gives(top)
  IN [i \in {n \in Nodes : gives[n] => ~IsLeaf(n)} |->
        IF gives[i] THEN [mData |-> Data(SubTop(i)), mSize |-> Size(i) - 1] ELSE mTree[i]]

PrunedStrictly(x, i) == OutRanks(Data(i), x)   \* fault: equals are not below

\* An object that outranks the top of a subtree is not in it.
MayBeBelow(x, i) == ~OutRanks(x, Data(i))

SizeKept(size) == size          \* fault: the top keeps its size
SizeAfter(size) == size - 1

Ancestors(i) ==
  LET ancestors[n \in Nodes] == IF n = 1 THEN {} ELSE ancestors[Parent(n)] \cup {Parent(n)}
  IN ancestors[i]

\* LocHeapNode::remove: where the search ends, and the tree when it ends at i.
Found(x) == {i \in Nodes : Data(i) = x /\ \A n \in Ancestors(i) : MayBeBelow(x, n)}

NodeRemove(i) ==
  LET popped == NodePop(i)
  IN [n \in DOMAIN popped |->
        IF n \in Ancestors(i) THEN [popped[n] EXCEPT !.mSize = SizeAfter(@)] ELSE popped[n]]

Elements == {Data(i) : i \in Nodes}

\* LocHeap::peek
peek == IF 1 \in Nodes THEN Data(1) ELSE Nobody

-----------------------------------------------------------------------------
(* LocHeap                                                                 *)

HeapInit ==
  /\ rank \in [Items -> 1..MaxRank]
  /\ mTree = NULL
  /\ last = <<"init">>

\* An object is in the heap at most once, since LocTimer::start makes a new one
\* (TimersUsePool of LocTimerProofs).
push(x) ==
  /\ x \notin Elements
  /\ mTree' = NodePush(x)
  /\ last' = <<"push", x>>

pop ==
  IF mTree = NULL
  THEN last' = <<"pop">> /\ UNCHANGED mTree
  ELSE last' = <<"pop", Data(1)>> /\ mTree' = NodePop(1)

remove(x) ==
  \/ /\ Found(x) = {}
     /\ last' = <<"remove", x, FALSE>> /\ UNCHANGED mTree
  \/ \E i \in Found(x) :
       last' = <<"remove", x, TRUE>> /\ mTree' = NodeRemove(i)

HeapNext ==
  /\ pop \/ \E x \in Items : push(x) \/ remove(x)
  /\ UNCHANGED rank

HeapSpec == HeapInit /\ [][HeapNext]_heapVars

-----------------------------------------------------------------------------
(* Properties                                                              *)

\* LocHeapNode::checkNodes at one node of the tree
checkNodes(i) ==
  /\ \A child \in {mLeft(i), mRight(i)} \cap Nodes : ~OutRanks(Data(child), Data(i))
  /\ Size(i) = 1 + Size(mLeft(i)) + Size(mRight(i))

\* checkTree: in every subtree mSize is right and the top is outranked by
\* nobody, after any sequence of calls.  push relies on the sizes, pop and
\* the pruning of remove on the order.
TreeIsHeap == \A i \in Nodes : checkNodes(i)

\* The heap is a RankPool: whatever the shape of the tree, nothing is lost or
\* doubled, pop returns a highest ranked object, remove finds what is there, and
\* peek changes its answer only if it must.
Pool == INSTANCE RankPool WITH pool <- Elements, top <- peek
ImplementsRankPool == Pool!Spec
==============================================================================
