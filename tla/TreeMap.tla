----------------------------- MODULE TreeMap -----------------------------
(***************************************************************************)
(* sead::TreeMap (sead/container/seadTreeMap.h): a sorted map kept as a    *)
(* left-leaning red-black tree, its nodes in the cells of a FreeList.      *)
(*                                                                         *)
(* A node is named by its key, which is unique in the tree.  The word      *)
(* mColorAndPtr is the pair black, parent: a parent is only written by an  *)
(* iteration, so it is out of date most of the time.  A cell in the free   *)
(* list is blank: nothing reads it before a node is constructed in it.     *)
(* Reading through Nil is outside of the domain of every field, so a null  *)
(* dereference stops TLC with an error.                                    *)
(***************************************************************************)
EXTENDS Integers, Sequences, FiniteSets

CONSTANTS
  Keys,      \* the keys, in the order compare() gives them
  Values,
  Entries,   \* the pairs of a key and a value that clients insert
  NodeMaxes  \* the sizes of the buffers a client may hand over

Nil == 0

ASSUME TreeMapAssumption ==
  /\ Keys \subseteq Nat \ {Nil} /\ IsFiniteSet(Keys)
  /\ Nil \notin Values
  /\ Entries \subseteq Keys \X Values
  /\ NodeMaxes \subseteq Nat \ {0}

VARIABLES
  nodes,      \* the fields of every node, and the root (top) of the tree
  value,      \* mValue of every node
  mSize,
  mCapacity,
  freeCells,  \* the length of mFreeList
  iter        \* the node a client's iteration stands at

treeVars == <<nodes, value, mSize, mCapacity, freeCells, iter>>

NoNodes == [left |-> [k \in Keys |-> Nil], right |-> [k \in Keys |-> Nil],
            black |-> [k \in Keys |-> FALSE], parent |-> [k \in Keys |-> Nil],
            top |-> Nil, freed |-> 0]

Links == Keys \cup {Nil}

Nodes == [left : [Keys -> Links], right : [Keys -> Links],
          black : [Keys -> BOOLEAN], parent : [Keys -> Links],
          top : Links, freed : Nat]

TreeInit == /\ nodes = NoNodes
            /\ value = [k \in Keys |-> Nil]
            /\ mSize = 0
            /\ mCapacity = 0
            /\ freeCells = 0
            /\ iter = Nil

-----------------------------------------------------------------------------
(* The tree algorithms: functions from nodes t and a subtree n to nodes    *)
(* whose top is the node the source's function returns, and whose freed    *)
(* counts the calls of erase_.                                             *)

isRed(t, n) == n # Nil /\ ~t.black[n]

\* t.left[n] and t.right[n] set to the result of a call on that child.
WithLeft(t, n) == [t EXCEPT !.left[n] = t.top, !.top = n]
WithRight(t, n) == [t EXCEPT !.right[n] = t.top, !.top = n]

\* Node j takes the place of n: its colour (and parent), then n is red.
Promoted(t, j, n) ==
  [t EXCEPT !.black = [@ EXCEPT ![j] = t.black[n], ![n] = FALSE],
            !.parent = [@ EXCEPT ![j] = t.parent[n], ![n] = Nil],
            !.top = j]

rotateLeft(t, n) ==
  LET j == t.right[n]
  IN Promoted([t EXCEPT !.right[n] = t.left[j], !.left[j] = n], j, n)

rotateRight(t, n) ==
  LET j == t.left[n]
  IN Promoted([t EXCEPT !.left[n] = t.right[j], !.right[j] = n], j, n)

flipColors(t, n) ==
  [t EXCEPT !.black = [k \in Keys |-> (k \in {n, t.left[n], t.right[n]}) # @[k]],
            !.top = n]

moveRedLeft(t, n) ==
  LET f == flipColors(t, n)
      r == f.right[n]
  IN IF isRed(f, f.left[r])
     THEN LET g == rotateLeft(WithRight(rotateRight(f, r), n), n)
          IN flipColors(g, g.top)
     ELSE f

moveRedRight(t, n) ==
  LET f == flipColors(t, n)
      g == rotateRight(f, n)
  IN IF isRed(f, f.left[f.left[n]]) THEN flipColors(g, g.top) ELSE f

\* The two lines insert and fixUp end with: a red left child of a red left
\* child is rotated up, and two red children pass their colour to their parent.
Split(t) ==
  LET n == t.top
      u == IF isRed(t, t.left[n]) /\ isRed(t, t.left[t.left[n]]) THEN rotateRight(t, n) ELSE t
      m == u.top
  IN IF isRed(u, u.left[m]) /\ isRed(u, u.right[m]) THEN flipColors(u, m) ELSE u

\* A mutant: a right-leaning red child is left where it is.
fixUpLeaning(t) == Split(t)

fixUp(t) ==
  Split(IF isRed(t, t.right[t.top]) THEN rotateLeft(t, t.top) ELSE t)

\* A mutant: the cell is forgotten.
eraseLost_(t, n) ==
  [t EXCEPT !.left[n] = Nil, !.right[n] = Nil, !.black[n] = FALSE, !.parent[n] = Nil]

\* TreeMap::Node::erase_: the cell goes back to the free list.
erase_(t, n) ==
  [t EXCEPT !.left[n] = Nil, !.right[n] = Nil, !.black[n] = FALSE, !.parent[n] = Nil,
            !.freed = @ + 1]

-----------------------------------------------------------------------------
(* The recursive functions and the loops.  Each is a function of what it   *)
(* is called with, given the functions c that it calls in turn.            *)

\* A new node of key k, which takes the place of an older node of the same key:
\* the links and the colour are copied, and the older cell is freed.
insert(c) ==
  [t \in Nodes |-> [n \in Links |-> [k \in Keys |->
     IF n = Nil
     THEN [t EXCEPT !.left[k] = Nil, !.right[k] = Nil, !.black[k] = FALSE,
                    !.parent[k] = Nil, !.top = k]
     ELSE LET u == IF k < n THEN WithLeft(c.insert[t][t.left[n]][k], n)
                   ELSE IF k > n THEN WithRight(c.insert[t][t.right[n]][k], n)
                   ELSE [t EXCEPT !.top = n, !.freed = @ + 1]
          IN Split(IF isRed(u, u.right[n]) /\ ~isRed(u, u.left[n])
                   THEN rotateLeft(u, n) ELSE u)]]]

findMin(c) ==
  [t \in Nodes |-> [n \in Keys |->
     IF t.left[n] = Nil THEN n ELSE c.findMin[t][t.left[n]]]]

\* A call on n's left child must find it or a child of it red.
ReadyLeft(t, n) ==
  IF ~isRed(t, t.left[n]) /\ ~isRed(t, t.left[t.left[n]])
  THEN moveRedLeft(t, n) ELSE [t EXCEPT !.top = n]

eraseMin(c) ==
  [t \in Nodes |-> [n \in Keys |->
     IF t.left[n] = Nil
     THEN [t EXCEPT !.top = Nil]
     ELSE LET u == ReadyLeft(t, n)
          IN fixUp(WithLeft(c.eraseMin[u][u.left[u.top]], u.top))]]

\* The smallest node of n's right subtree takes n's place.
Replaced(c, t, n) ==
  LET m == c.findMin[t][t.right[n]]
      u == c.eraseMin[t][t.right[n]]
  IN erase_([u EXCEPT !.right[m] = u.top, !.left[m] = u.left[n], !.black[m] = u.black[n],
                      !.parent[m] = u.parent[n], !.top = m], n)

erase(c) ==
  [t \in Nodes |-> [n \in Keys |-> [k \in Keys |->
     IF k < n
     THEN LET u == ReadyLeft(t, n)
          IN fixUp(WithLeft(c.erase[u][u.left[u.top]][k], u.top))
     ELSE LET u == IF isRed(t, t.left[n]) THEN rotateRight(t, n) ELSE [t EXCEPT !.top = n]
              r == u.right[u.top]
          IN IF k = u.top /\ r = Nil
             THEN [erase_(u, k) EXCEPT !.top = Nil]
             ELSE LET w == IF ~isRed(u, r) /\ ~isRed(u, u.left[r])
                           THEN moveRedRight(u, u.top) ELSE u
                  IN fixUp(IF k = w.top THEN Replaced(c, w, w.top)
                           ELSE WithRight(c.erase[w][w.right[w.top]][k], w.top))]]]

find(c) ==
  [t \in Nodes |-> [n \in Links |-> [k \in Keys |->
     IF n = Nil \/ n = k THEN n
     ELSE c.find[t][IF k < n THEN t.left[n] ELSE t.right[n]][k]]]]

\* The keys forEach hands to its callable, in order.
forEach(c) ==
  [t \in Nodes |-> [n \in Links |->
     IF n = Nil THEN << >>
     ELSE c.forEach[t][t.left[n]] \o <<n>> \o c.forEach[t][t.right[n]]]]

\* The leftmost node below n, every node on the way marked with its parent.
startIterating(c) ==
  [t \in Nodes |-> [n \in Keys |->
     IF t.left[n] = Nil THEN [nodes |-> t, at |-> n]
     ELSE c.startIterating[[t EXCEPT !.parent[t.left[n]] = n]][t.left[n]]]]

\* Back up to the node from which n was reached by its left child.
Ascend(c) ==
  [t \in Nodes |-> [n \in Keys |->
     LET p == t.parent[n]
     IN IF p = Nil \/ t.left[p] = n THEN p ELSE c.Ascend[t][p]]]

Calling(c) ==
  [insert |-> insert(c), findMin |-> findMin(c), eraseMin |-> eraseMin(c),
   erase |-> erase(c), find |-> find(c), forEach |-> forEach(c),
   startIterating |-> startIterating(c), Ascend |-> Ascend(c)]

\* The functions whose calls nest, and whose loops go round, at most d times:
\* a path down a tree has no more nodes than there are keys.
Calls[d \in Nat] == Calling(IF d = 0 THEN << >> ELSE Calls[d - 1])

Call == Calls[Cardinality(Keys)]

\* A mutant: only one step up, also from a right child.
nextNodeOneUp(t, n) ==
  LET r == t.right[n]
  IN IF r # Nil THEN Call.startIterating[[t EXCEPT !.parent[r] = n]][r]
     ELSE [nodes |-> t, at |-> t.parent[n]]

nextNode(t, n) ==
  LET r == t.right[n]
  IN IF r # Nil THEN Call.startIterating[[t EXCEPT !.parent[r] = n]][r]
     ELSE [nodes |-> t, at |-> Call.Ascend[t][n]]

-----------------------------------------------------------------------------
(* The operations of TreeMap.  A client holds no node across a call that   *)
(* changes the tree's shape: such a call ends the iteration.               *)

\* The root is black, and setColor clears its parent.
Rooted(t) ==
  IF t.top = Nil THEN [t EXCEPT !.freed = 0]
  ELSE [t EXCEPT !.black[t.top] = TRUE, !.parent[t.top] = Nil, !.freed = 0]

SetBuffer(n) == /\ mCapacity = 0
                /\ mCapacity' = n
                /\ freeCells' = n
                /\ UNCHANGED <<nodes, value, mSize, iter>>

\* The map is full: only a key that is in it gets the value.
InsertFull(k, v) ==
  /\ mSize >= mCapacity
  /\ value' = IF Call.find[nodes][nodes.top][k] # Nil THEN [value EXCEPT ![k] = v] ELSE value
  /\ UNCHANGED <<nodes, mSize, mCapacity, freeCells, iter>>

\* A mutant: the last cell is thought to be free after it was handed out.
InsertNodeWhenFull(k, v) ==
  /\ mSize <= mCapacity
  /\ LET t == Call.insert[nodes][nodes.top][k]
     IN /\ nodes' = Rooted(t)
        /\ mSize' = mSize + 1 - t.freed
        /\ freeCells' = freeCells - 1 + t.freed
  /\ value' = [value EXCEPT ![k] = v]
  /\ iter' = Nil
  /\ UNCHANGED mCapacity

\* A new node, even where the key is in the map already.
InsertNode(k, v) ==
  /\ mSize < mCapacity
  /\ LET t == Call.insert[nodes][nodes.top][k]
     IN /\ nodes' = Rooted(t)
        /\ mSize' = mSize + 1 - t.freed
        /\ freeCells' = freeCells - 1 + t.freed
  /\ value' = [value EXCEPT ![k] = v]
  /\ iter' = Nil
  /\ UNCHANGED mCapacity

\* erase follows null pointers where the key is absent: a client only erases a
\* key that find has found.
Erase(k) ==
  /\ Call.find[nodes][nodes.top][k] # Nil
  /\ LET t == Call.erase[nodes][nodes.top][k]
     IN /\ nodes' = Rooted(t)
        /\ mSize' = mSize - t.freed
        /\ freeCells' = freeCells + t.freed
  /\ value' = [value EXCEPT ![k] = Nil]
  /\ iter' = Nil
  /\ UNCHANGED mCapacity

\* Every node's cell is freed, then the root is dropped.
Clear ==
  /\ freeCells' = freeCells + Len(Call.forEach[nodes][nodes.top])
  /\ nodes' = NoNodes
  /\ value' = [k \in Keys |-> Nil]
  /\ mSize' = 0
  /\ iter' = Nil
  /\ UNCHANGED mCapacity

\* ~TreeMap: clear, then freeBuffer.
Destroy ==
  /\ mCapacity # 0
  /\ nodes' = NoNodes
  /\ value' = [k \in Keys |-> Nil]
  /\ mSize' = 0
  /\ mCapacity' = 0
  /\ freeCells' = 0
  /\ iter' = Nil

StartIterating ==
  /\ IF nodes.top = Nil
     THEN iter' = Nil /\ UNCHANGED nodes
     ELSE LET s == Call.startIterating[nodes][nodes.top]
          IN nodes' = [s.nodes EXCEPT !.top = nodes.top] /\ iter' = s.at
  /\ UNCHANGED <<value, mSize, mCapacity, freeCells>>

NextNode ==
  /\ iter # Nil
  /\ LET s == nextNode(nodes, iter) IN nodes' = s.nodes /\ iter' = s.at
  /\ UNCHANGED <<value, mSize, mCapacity, freeCells>>

TreeNext == \/ \E n \in NodeMaxes : SetBuffer(n)
            \/ \E e \in Entries : InsertFull(e[1], e[2]) \/ InsertNode(e[1], e[2])
            \/ \E k \in Keys : Erase(k)
            \/ Clear
            \/ Destroy
            \/ StartIterating
            \/ NextNode

TreeSpec == TreeInit /\ [][TreeNext]_treeVars

-----------------------------------------------------------------------------
\* The nodes of a tree, found by its links alone.
below(c) ==
  [t \in Nodes |-> [n \in Links |->
     IF n = Nil THEN {}
     ELSE {n} \cup c.below[t][t.left[n]] \cup c.below[t][t.right[n]]]]

\* The black nodes on each way down from n, Nil where two ways differ.
blackHeight(c) ==
  [t \in Nodes |-> [n \in Links |->
     IF n = Nil THEN 1
     ELSE LET l == c.blackHeight[t][t.left[n]]
          IN IF l # c.blackHeight[t][t.right[n]] \/ l = Nil THEN Nil
             ELSE l + (IF t.black[n] THEN 1 ELSE 0)]]

Measuring(c) == [below |-> below(c), blackHeight |-> blackHeight(c)]

Measures[d \in Nat] == Measuring(IF d = 0 THEN << >> ELSE Measures[d - 1])

Below(t, n) == Measures[Cardinality(Keys)].below[t][n]
BlackHeight(t, n) == Measures[Cardinality(Keys)].blackHeight[t][n]

InTree == Below(nodes, nodes.top)

TreeTypeOK ==
  /\ nodes \in Nodes
  /\ nodes.top \in InTree \cup {Nil}
  /\ value \in [Keys -> Values \cup {Nil}]
  /\ mCapacity \in NodeMaxes \cup {0}
  /\ freeCells \in 0..mCapacity
  /\ iter \in InTree \cup {Nil}

(* Every cell of the buffer is in the tree or in the free list, never in   *)
(* both and never lost, so that alloc succeeds whenever mSize is below     *)
(* mCapacity: seadTreeMap.h:546 constructs a node at whatever alloc        *)
(* returns.                                                                *)
CellsAccounted == /\ mSize = Cardinality(InTree)
                  /\ freeCells = mCapacity - mSize

(* The tree stays a left-leaning red-black tree: the root is black, no     *)
(* red node is a right child or the child of a red node, and every way     *)
(* down passes the same number of black nodes.                             *)
Balanced ==
  /\ ~isRed(nodes, nodes.top)
  /\ BlackHeight(nodes, nodes.top) # Nil
  /\ \A n \in InTree : /\ ~isRed(nodes, nodes.right[n])
                       /\ isRed(nodes, n) => ~isRed(nodes, nodes.left[n])

(* The map is a sorted map: insert, erase and clear do to the nodes of the *)
(* tree what they say of its keys, and startIterating and nextNode visit   *)
(* each key once, in order, whatever earlier iterations left in the parent *)
(* words.                                                                  *)
Sorted == INSTANCE SortedMap WITH
            Capacities <- NodeMaxes,
            map <- [k \in InTree |-> value[k]], capacity <- mCapacity, cursor <- iter

MapImplemented == Sorted!MapSpec
=============================================================================
