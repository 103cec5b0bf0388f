------------------------- MODULE ContainersProofs -------------------------
(***************************************************************************)
(* The containers of sead do what their abstract specifications say, for   *)
(* all keys, values, items and capacities.                                 *)
(*                                                                         *)
(* TreeMap: its nodes are always a left-leaning red-black tree (Tree, of   *)
(* the nodes S and the black height h below n).  What a recursive function *)
(* does to such a tree is shown by induction on how deep its calls nest,   *)
(* which is at most the number of keys; the invariant TreeInv says that    *)
(* the tree has the cells that are not free and that the parents are       *)
(* marked above the node an iteration stands at; each action of TreeMap is *)
(* then the action of SortedMap it stands for.                             *)
(*                                                                         *)
(* RingBuffer: the circle of cells is a bounded queue; each operation is   *)
(* the operation of BoundedQueue it stands for.                            *)
(***************************************************************************)
EXTENDS TreeMap, RingBuffer, FiniteSetTheorems, SequenceTheorems, WellFoundedInduction, TLAPS

-----------------------------------------------------------------------------
(* Induction, and the recursive functions *)

NatOrder == OpToRel(<, Nat)

LEMMA NatOrderIs == \A x, y \in Nat : <<x, y>> \in NatOrder <=> x < y
BY DEF NatOrder, OpToRel

\* A set with 0 and, with a number, the next one, has all.
LEMMA Induction ==
  ASSUME NEW S, 0 \in S, \A n \in Nat : n \in S => n + 1 \in S
  PROVE  \A n \in Nat : n \in S
<1> DEFINE T == Nat \ S
<1>1. SUFFICES ASSUME T # {} PROVE FALSE
  OBVIOUS
<1>2. IsWellFoundedOn(NatOrder, Nat)
  BY NatLessThanWellFounded DEF NatOrder
<1>3. PICK x \in T : \A y \in T : ~(<<y, x>> \in NatOrder)
  BY <1>1, <1>2, WFMin
<1>4. x \in Nat /\ x # 0
  BY <1>3
<1>5. x - 1 \in Nat /\ x - 1 < x /\ (x - 1) + 1 = x
  BY <1>4
<1>7. <<x - 1, x>> \in NatOrder
  BY <1>4, <1>5, NatOrderIs
<1>8. x - 1 \in S
  BY <1>3, <1>5, <1>7
<1>6. QED
  BY <1>3, <1>5, <1>8

CallsTo(g, m) == g = [i \in 0..m |-> Calling(IF i = 0 THEN << >> ELSE g[i - 1])]

LEMMA CallsAgree ==
  ASSUME NEW g, NEW h, NEW m \in Nat, NEW l \in Nat, CallsTo(g, m), CallsTo(h, l)
  PROVE  \A i \in Nat : i <= m /\ i <= l => g[i] = h[i]
<1> DEFINE S == {i \in Nat : i <= m /\ i <= l => g[i] = h[i]}
<1>0. /\ \A i \in 0..m : g[i] = Calling(IF i = 0 THEN << >> ELSE g[i - 1])
      /\ \A i \in 0..l : h[i] = Calling(IF i = 0 THEN << >> ELSE h[i - 1])
  BY DEF CallsTo
<1>1. 0 \in S
  BY <1>0
<1>2. ASSUME NEW n \in Nat, n \in S PROVE n + 1 \in S
  <2>1. SUFFICES ASSUME n + 1 <= m, n + 1 <= l PROVE g[n + 1] = h[n + 1]
    OBVIOUS
  <2>2. g[n] = h[n]
    BY <1>2, <2>1
  <2>3. n + 1 \in 0..m /\ n + 1 \in 0..l /\ n + 1 # 0 /\ (n + 1) - 1 = n
    BY <2>1
  <2>4. g[n + 1] = Calling(g[n]) /\ h[n + 1] = Calling(h[n])
    BY <1>0, <2>3
  <2>5. QED
    BY <2>2, <2>4
<1>3. \A n \in Nat : n \in S
  <2> HIDE DEF S
  <2>1. QED
    BY <1>1, <1>2, Induction
<1>4. QED
  BY <1>3

LEMMA CallsExist == \A m \in Nat : \E g : CallsTo(g, m)
<1> DEFINE S == {m \in Nat : \E g : CallsTo(g, m)}
<1>1. 0 \in S
  <2>1. CallsTo([i \in 0..0 |-> Calling(<< >>)], 0)
    BY DEF CallsTo
  <2>2. QED
    BY <2>1
<1>2. ASSUME NEW n \in Nat, n \in S PROVE n + 1 \in S
  <2>1. PICK g : CallsTo(g, n)
    BY <1>2
  <2>2. PICK h : h = [i \in 0..(n + 1) |-> IF i <= n THEN g[i] ELSE Calling(g[n])]
    OBVIOUS
  <2>3. ASSUME NEW i \in 0..(n + 1)
        PROVE  h[i] = Calling(IF i = 0 THEN << >> ELSE h[i - 1])
    <3>1. CASE i <= n
      <4>1. i \in 0..n /\ h[i] = g[i]
        BY <2>2, <3>1
      <4>2. g[i] = Calling(IF i = 0 THEN << >> ELSE g[i - 1])
        BY <2>1, <4>1 DEF CallsTo
      <4>3. i # 0 => h[i - 1] = g[i - 1]
        BY <2>2, <3>1
      <4>4. QED
        BY <4>1, <4>2, <4>3
    <3>2. CASE ~(i <= n)
      <4>1. i = n + 1 /\ i # 0 /\ i - 1 = n /\ n \in 0..(n + 1)
        BY <3>2
      <4>2. h[i] = Calling(g[n]) /\ h[n] = g[n]
        BY <2>2, <3>2, <4>1
      <4>3. QED
        BY <4>1, <4>2
    <3>3. QED
      BY <3>1, <3>2
  <2>4. h = [i \in 0..(n + 1) |-> h[i]]
    BY <2>2
  <2>5. CallsTo(h, n + 1)
    BY <2>3, <2>4 DEF CallsTo
  <2>6. QED
    BY <2>5
<1>3. \A n \in Nat : n \in S
  <2> HIDE DEF S
  <2>1. QED
    BY <1>1, <1>2, Induction
<1>4. QED
  BY <1>3

\* The functions are what their definitions say of those one call deeper.
LEMMA CallsIs ==
  \A d \in Nat : Calls[d] = Calling(IF d = 0 THEN << >> ELSE Calls[d - 1])
<1> DEFINE G(m) == CHOOSE g : CallsTo(g, m)
           F == [m \in Nat |-> G(m)[m]]
<1>1. \A m \in Nat : CallsTo(G(m), m)
  BY CallsExist
<1>2. ASSUME NEW d \in Nat
      PROVE  F[d] = Calling(IF d = 0 THEN << >> ELSE F[d - 1])
  <2>1. G(d)[d] = Calling(IF d = 0 THEN << >> ELSE G(d)[d - 1])
    <3>1. d \in 0..d
      OBVIOUS
    <3>2. QED
      BY <1>1, <3>1 DEF CallsTo
  <2>2. d # 0 => G(d)[d - 1] = G(d - 1)[d - 1]
    <3> HIDE DEF G
    <3>1. SUFFICES ASSUME d # 0 PROVE G(d)[d - 1] = G(d - 1)[d - 1]
      OBVIOUS
    <3>2. d - 1 \in Nat /\ d - 1 <= d
      BY <3>1
    <3>3. QED
      BY <1>1, <3>2, CallsAgree
  <2>3. F[d] = G(d)[d] /\ (d # 0 => F[d - 1] = G(d - 1)[d - 1])
    OBVIOUS
  <2>4. QED
    BY <2>1, <2>2, <2>3
<1>3. F = [d \in Nat |-> Calling(IF d = 0 THEN << >> ELSE F[d - 1])]
  <2>1. F = [d \in Nat |-> F[d]]
    OBVIOUS
  <2>2. QED
    BY <1>2, <2>1
<1>4. Calls = [d \in Nat |-> Calling(IF d = 0 THEN << >> ELSE Calls[d - 1])]
  <2> HIDE DEF F
  <2>1. QED
    BY <1>3 DEF Calls
<1>5. QED
  BY <1>4

\* One call of each of them, at any depth.
LEMMA CallsAre ==
  ASSUME NEW d \in Nat
  PROVE  \E c : /\ d # 0 => c = Calls[d - 1]
               /\ Calls[d].insert = insert(c)
               /\ Calls[d].findMin = findMin(c)
               /\ Calls[d].eraseMin = eraseMin(c)
               /\ Calls[d].erase = erase(c)
               /\ Calls[d].find = find(c)
               /\ Calls[d].forEach = forEach(c)
               /\ Calls[d].startIterating = startIterating(c)
               /\ Calls[d].Ascend = Ascend(c)
<1>1. PICK c : c = IF d = 0 THEN << >> ELSE Calls[d - 1]
  OBVIOUS
<1>2. Calls[d] = Calling(c)
  BY <1>1, CallsIs
<1>3. /\ Calling(c).insert = insert(c)
      /\ Calling(c).findMin = findMin(c)
      /\ Calling(c).eraseMin = eraseMin(c)
      /\ Calling(c).erase = erase(c)
      /\ Calling(c).find = find(c)
      /\ Calling(c).forEach = forEach(c)
      /\ Calling(c).startIterating = startIterating(c)
      /\ Calling(c).Ascend = Ascend(c)
  BY DEF Calling
<1>4. QED
  BY <1>1, <1>2, <1>3

-----------------------------------------------------------------------------
(* What one step of the algorithms does to the fields of the nodes. *)

\* The fields of a node, and of the nodes.  Their names stand for applications of
\* functions, which the provers take apart: a step that needs only a field's value
\* does not expand them.
Left(t, x) == t.left[x]
Right(t, x) == t.right[x]
Black(t, x) == t.black[x]
Top(t) == t.top
Freed(t) == t.freed

LEMMA RedIs == \A t, x : isRed(t, x) <=> x # Nil /\ ~Black(t, x)
BY DEF isRed, Black

\* Node x has the same links and the same colour in t and u.
Alike(t, u, x) ==
  Left(u, x) = Left(t, x) /\ Right(u, x) = Right(t, x) /\ (Black(u, x) <=> Black(t, x))

\* So have the nodes in S, and those outside of S.
Same(t, u, S) == \A x \in S : Alike(t, u, x)
Kept(t, u, S) == \A x \in Keys : x \notin S => Alike(t, u, x)

\* The fields of u.
Has(u, l, r, b, p, x, f) ==
  /\ u \in Nodes
  /\ u.left = l /\ u.right = r /\ u.black = b /\ u.parent = p /\ u.top = x /\ u.freed = f

LEMMA KeysAre ==
  /\ Keys \subseteq Nat /\ Nil \notin Keys /\ IsFiniteSet(Keys)
  /\ Keys \subseteq Links /\ Nil \in Links
BY TreeMapAssumption DEF Links

LEMMA NodesAre ==
  ASSUME NEW t \in Nodes
  PROVE  /\ t.left \in [Keys -> Links] /\ t.right \in [Keys -> Links]
         /\ t.black \in [Keys -> BOOLEAN] /\ t.parent \in [Keys -> Links]
         /\ t.top \in Links /\ t.freed \in Nat
         /\ Has(t, t.left, t.right, t.black, t.parent, t.top, t.freed)
BY DEF Nodes, Has

LEMMA PutLeft ==
  ASSUME NEW t, NEW l, NEW r, NEW b, NEW p, NEW x, NEW f, Has(t, l, r, b, p, x, f),
         NEW a \in [Keys -> Links], NEW u, u = [t EXCEPT !.left = a]
  PROVE  Has(u, a, r, b, p, x, f)
BY DEF Has, Nodes

LEMMA PutRight ==
  ASSUME NEW t, NEW l, NEW r, NEW b, NEW p, NEW x, NEW f, Has(t, l, r, b, p, x, f),
         NEW a \in [Keys -> Links], NEW u, u = [t EXCEPT !.right = a]
  PROVE  Has(u, l, a, b, p, x, f)
BY DEF Has, Nodes

LEMMA PutBlack ==
  ASSUME NEW t, NEW l, NEW r, NEW b, NEW p, NEW x, NEW f, Has(t, l, r, b, p, x, f),
         NEW a \in [Keys -> BOOLEAN], NEW u, u = [t EXCEPT !.black = a]
  PROVE  Has(u, l, r, a, p, x, f)
BY DEF Has, Nodes

LEMMA PutParent ==
  ASSUME NEW t, NEW l, NEW r, NEW b, NEW p, NEW x, NEW f, Has(t, l, r, b, p, x, f),
         NEW a \in [Keys -> Links], NEW u, u = [t EXCEPT !.parent = a]
  PROVE  Has(u, l, r, b, a, x, f)
BY DEF Has, Nodes

LEMMA PutTop ==
  ASSUME NEW t, NEW l, NEW r, NEW b, NEW p, NEW x, NEW f, Has(t, l, r, b, p, x, f),
         NEW a \in Links, NEW u, u = [t EXCEPT !.top = a]
  PROVE  Has(u, l, r, b, p, a, f)
BY DEF Has, Nodes

LEMMA PutFreed ==
  ASSUME NEW t, NEW l, NEW r, NEW b, NEW p, NEW x, NEW f, Has(t, l, r, b, p, x, f),
         NEW a \in Nat, NEW u, u = [t EXCEPT !.freed = a]
  PROVE  Has(u, l, r, b, p, x, a)
BY DEF Has, Nodes

LEMMA WithLeftIs ==
  ASSUME NEW t \in Nodes, NEW n \in Keys
  PROVE  LET u == WithLeft(t, n)
         IN /\ u \in Nodes /\ Top(u) = n /\ Freed(u) = Freed(t)
            /\ Left(u, n) = Top(t) /\ Right(u, n) = Right(t, n) /\ (Black(u, n) <=> Black(t, n))
            /\ \A x \in Keys : x # n => Alike(t, u, x)
<1>1. PICK l \in [Keys -> Links] : l = [t.left EXCEPT ![n] = t.top]
  BY NodesAre
<1>2. PICK u : u = [t EXCEPT !.left = l]
  OBVIOUS
<1>3. PICK v : v = [u EXCEPT !.top = n]
  OBVIOUS
<1>4. WithLeft(t, n) = v
  BY <1>1, <1>2, <1>3 DEF WithLeft
<1>5. Has(u, l, t.right, t.black, t.parent, t.top, t.freed)
  BY <1>2, NodesAre, PutLeft
<1>6. Has(v, l, t.right, t.black, t.parent, n, t.freed)
  BY <1>3, <1>5, KeysAre, PutTop
<1>7. QED
  BY <1>1, <1>4, <1>6, NodesAre
    DEF Has, Same, Alike, Left, Right, Black, Top, Freed

LEMMA WithRightIs ==
  ASSUME NEW t \in Nodes, NEW n \in Keys
  PROVE  LET u == WithRight(t, n)
         IN /\ u \in Nodes /\ Top(u) = n /\ Freed(u) = Freed(t)
            /\ Left(u, n) = Left(t, n) /\ Right(u, n) = Top(t) /\ (Black(u, n) <=> Black(t, n))
            /\ \A x \in Keys : x # n => Alike(t, u, x)
<1>1. PICK r \in [Keys -> Links] : r = [t.right EXCEPT ![n] = t.top]
  BY NodesAre
<1>2. PICK u : u = [t EXCEPT !.right = r]
  OBVIOUS
<1>3. PICK v : v = [u EXCEPT !.top = n]
  OBVIOUS
<1>4. WithRight(t, n) = v
  BY <1>1, <1>2, <1>3 DEF WithRight
<1>5. Has(u, t.left, r, t.black, t.parent, t.top, t.freed)
  BY <1>2, NodesAre, PutRight
<1>6. Has(v, t.left, r, t.black, t.parent, n, t.freed)
  BY <1>3, <1>5, KeysAre, PutTop
<1>7. QED
  BY <1>1, <1>4, <1>6, NodesAre
    DEF Has, Same, Alike, Left, Right, Black, Top, Freed

LEMMA TopIs ==
  ASSUME NEW t \in Nodes, NEW n \in Links
  PROVE  LET u == [t EXCEPT !.top = n]
         IN /\ u \in Nodes /\ Top(u) = n /\ Freed(u) = Freed(t)
            /\ \A x \in Keys : Alike(t, u, x)
<1>1. PICK u : u = [t EXCEPT !.top = n]
  OBVIOUS
<1>2. Has(u, t.left, t.right, t.black, t.parent, n, t.freed)
  BY <1>1, NodesAre, PutTop
<1>3. QED
  BY <1>1, <1>2
    DEF Has, Same, Alike, Left, Right, Black, Top, Freed

\* Both rotations end with it.
LEMMA PromotedIs ==
  ASSUME NEW t, NEW l, NEW r, NEW b, NEW p, NEW x, NEW f, Has(t, l, r, b, p, x, f),
         NEW n \in Keys, NEW j \in Keys, j # n
  PROVE  LET u == Promoted(t, j, n)
         IN /\ u \in Nodes /\ u.left = l /\ u.right = r /\ u.top = j /\ u.freed = f
            /\ ~u.black[n] /\ (u.black[j] <=> b[n])
            /\ \A y \in Keys \ {n, j} : (u.black[y] <=> b[y])
<1>0. b \in [Keys -> BOOLEAN] /\ p \in [Keys -> Links]
  BY DEF Has, Nodes
<1>1. PICK c \in [Keys -> BOOLEAN] : c = [b EXCEPT ![j] = b[n], ![n] = FALSE]
  BY <1>0
<1>2. PICK q \in [Keys -> Links] : q = [p EXCEPT ![j] = p[n], ![n] = Nil]
  BY <1>0, KeysAre
<1>3. PICK u : u = [t EXCEPT !.black = c]
  OBVIOUS
<1>4. PICK v : v = [u EXCEPT !.parent = q]
  OBVIOUS
<1>5. PICK w : w = [v EXCEPT !.top = j]
  OBVIOUS
<1>6. Has(u, l, r, c, p, x, f)
  BY <1>3, PutBlack
<1>7. Has(v, l, r, c, q, x, f)
  BY <1>4, <1>6, PutParent
<1>8. Has(w, l, r, c, q, j, f)
  BY <1>5, <1>7, KeysAre, PutTop
<1>9. Promoted(t, j, n) = w
  <2>1. t.black = b /\ t.parent = p /\ u.parent = p
    BY <1>6 DEF Has
  <2>2. w = [[[t EXCEPT !.black = [t.black EXCEPT ![j] = t.black[n], ![n] = FALSE]]
                EXCEPT !.parent = [t.parent EXCEPT ![j] = t.parent[n], ![n] = Nil]]
                EXCEPT !.top = j]
    BY <1>1, <1>2, <1>3, <1>4, <1>5, <2>1
  <2>3. [t EXCEPT !.black = [t.black EXCEPT ![j] = t.black[n], ![n] = FALSE]].parent = t.parent
    BY <1>1, <1>3, <2>1
  <2>4. QED
    BY <2>2, <2>3 DEF Promoted
<1>10. ~c[n] /\ (c[j] <=> b[n]) /\ \A y \in Keys \ {n, j} : (c[y] <=> b[y])
  BY <1>0, <1>1
<1>11. QED
  BY <1>8, <1>9, <1>10 DEF Has

LEMMA RotateLeftIs ==
  ASSUME NEW t \in Nodes, NEW n \in Keys, NEW j \in Keys, j = Right(t, n), j # n
  PROVE  LET u == rotateLeft(t, n)
         IN /\ u \in Nodes /\ Top(u) = j /\ Freed(u) = Freed(t)
            /\ Left(u, n) = Left(t, n) /\ Right(u, n) = Left(t, j) /\ ~Black(u, n)
            /\ Left(u, j) = n /\ Right(u, j) = Right(t, j) /\ (Black(u, j) <=> Black(t, n))
            /\ \A x \in Keys : x # n /\ x # j => Alike(t, u, x)
<1>1. PICK r \in [Keys -> Links] : r = [t.right EXCEPT ![n] = t.left[j]]
  BY NodesAre
<1>2. PICK l \in [Keys -> Links] : l = [t.left EXCEPT ![j] = n]
  BY NodesAre, KeysAre
<1>3. PICK u : u = [t EXCEPT !.right = r]
  OBVIOUS
<1>4. PICK v : v = [u EXCEPT !.left = l]
  OBVIOUS
<1>5. Has(u, t.left, r, t.black, t.parent, t.top, t.freed)
  BY <1>3, NodesAre, PutRight
<1>6. Has(v, l, r, t.black, t.parent, t.top, t.freed)
  BY <1>4, <1>5, PutLeft
<1>7. u.left = t.left
  BY <1>5 DEF Has
<1>8. rotateLeft(t, n) = Promoted(v, j, n)
  <2>1. v = [[t EXCEPT !.right = [t.right EXCEPT ![n] = t.left[j]]]
                EXCEPT !.left = [t.left EXCEPT ![j] = n]]
    BY <1>1, <1>2, <1>3, <1>4
  <2>2. [t EXCEPT !.right = [t.right EXCEPT ![n] = t.left[j]]].left = t.left
    BY <1>1, <1>3, <1>7
  <2>3. QED
    BY <2>1, <2>2 DEF rotateLeft, Right
<1>9. LET w == Promoted(v, j, n)
      IN /\ w \in Nodes /\ w.left = l /\ w.right = r /\ w.top = j /\ w.freed = t.freed
         /\ ~w.black[n] /\ (w.black[j] <=> t.black[n])
         /\ \A y \in Keys \ {n, j} : (w.black[y] <=> t.black[y])
  BY <1>6, PromotedIs
<1>10. /\ l[j] = n /\ \A y \in Keys \ {j} : l[y] = t.left[y]
       /\ r[n] = t.left[j] /\ \A y \in Keys \ {n} : r[y] = t.right[y]
  BY <1>1, <1>2, NodesAre
<1>11. QED
  BY <1>8, <1>9, <1>10
    DEF Same, Alike, Kept, Left, Right, Black, Top, Freed

LEMMA RotateRightIs ==
  ASSUME NEW t \in Nodes, NEW n \in Keys, NEW j \in Keys, j = Left(t, n), j # n
  PROVE  LET u == rotateRight(t, n)
         IN /\ u \in Nodes /\ Top(u) = j /\ Freed(u) = Freed(t)
            /\ Right(u, n) = Right(t, n) /\ Left(u, n) = Right(t, j) /\ ~Black(u, n)
            /\ Right(u, j) = n /\ Left(u, j) = Left(t, j) /\ (Black(u, j) <=> Black(t, n))
            /\ \A x \in Keys : x # n /\ x # j => Alike(t, u, x)
<1>1. PICK l \in [Keys -> Links] : l = [t.left EXCEPT ![n] = t.right[j]]
  BY NodesAre
<1>2. PICK r \in [Keys -> Links] : r = [t.right EXCEPT ![j] = n]
  BY NodesAre, KeysAre
<1>3. PICK u : u = [t EXCEPT !.left = l]
  OBVIOUS
<1>4. PICK v : v = [u EXCEPT !.right = r]
  OBVIOUS
<1>5. Has(u, l, t.right, t.black, t.parent, t.top, t.freed)
  BY <1>3, NodesAre, PutLeft
<1>6. Has(v, l, r, t.black, t.parent, t.top, t.freed)
  BY <1>4, <1>5, PutRight
<1>7. u.right = t.right
  BY <1>5 DEF Has
<1>8. rotateRight(t, n) = Promoted(v, j, n)
  <2>1. v = [[t EXCEPT !.left = [t.left EXCEPT ![n] = t.right[j]]]
                EXCEPT !.right = [t.right EXCEPT ![j] = n]]
    BY <1>1, <1>2, <1>3, <1>4
  <2>2. [t EXCEPT !.left = [t.left EXCEPT ![n] = t.right[j]]].right = t.right
    BY <1>1, <1>3, <1>7
  <2>3. QED
    BY <2>1, <2>2 DEF rotateRight, Left
<1>9. LET w == Promoted(v, j, n)
      IN /\ w \in Nodes /\ w.left = l /\ w.right = r /\ w.top = j /\ w.freed = t.freed
         /\ ~w.black[n] /\ (w.black[j] <=> t.black[n])
         /\ \A y \in Keys \ {n, j} : (w.black[y] <=> t.black[y])
  BY <1>6, PromotedIs
<1>10. /\ r[j] = n /\ \A y \in Keys \ {j} : r[y] = t.right[y]
       /\ l[n] = t.right[j] /\ \A y \in Keys \ {n} : l[y] = t.left[y]
  BY <1>1, <1>2, NodesAre
<1>11. QED
  BY <1>8, <1>9, <1>10
    DEF Same, Alike, Kept, Left, Right, Black, Top, Freed

LEMMA FlipColorsIs ==
  ASSUME NEW t \in Nodes, NEW n \in Keys, Left(t, n) \in Keys, Right(t, n) \in Keys
  PROVE  LET u == flipColors(t, n)
         IN /\ u \in Nodes /\ Top(u) = n /\ Freed(u) = Freed(t)
            /\ \A x \in Keys : Left(u, x) = Left(t, x) /\ Right(u, x) = Right(t, x)
            /\ (Black(u, n) <=> ~Black(t, n))
            /\ (Black(u, Left(t, n)) <=> ~Black(t, Left(t, n)))
            /\ (Black(u, Right(t, n)) <=> ~Black(t, Right(t, n)))
            /\ \A x \in Keys : x # n /\ x # Left(t, n) /\ x # Right(t, n) => Alike(t, u, x)
<1>0. PICK l \in Keys, r \in Keys : l = t.left[n] /\ r = t.right[n]
  BY DEF Left, Right
<1>1. PICK b \in [Keys -> BOOLEAN] : b = [k \in Keys |-> (k \in {n, l, r}) # t.black[k]]
  OBVIOUS
<1>2. PICK u : u = [t EXCEPT !.black = b]
  OBVIOUS
<1>3. PICK v : v = [u EXCEPT !.top = n]
  OBVIOUS
<1>4. Has(u, t.left, t.right, b, t.parent, t.top, t.freed)
  BY <1>2, NodesAre, PutBlack
<1>5. Has(v, t.left, t.right, b, t.parent, n, t.freed)
  BY <1>3, <1>4, KeysAre, PutTop
<1>6. flipColors(t, n) = v
  BY <1>0, <1>1, <1>2, <1>3 DEF flipColors
<1>7. \A x \in Keys : t.black[x] \in BOOLEAN
  BY NodesAre
<1>8. \A x \in Keys : b[x] = ((x \in {n, l, r}) # t.black[x])
  BY <1>1
<1>9. /\ (b[n] <=> ~t.black[n]) /\ (b[l] <=> ~t.black[l]) /\ (b[r] <=> ~t.black[r])
      /\ \A x \in Keys \ {n, l, r} : (b[x] <=> t.black[x])
  BY <1>7, <1>8
<1>10. QED
  BY <1>0, <1>5, <1>6, <1>9
    DEF Has, Same, Alike, Left, Right, Black, Top, Freed

LEMMA EraseIs ==
  ASSUME NEW t \in Nodes, NEW n \in Keys
  PROVE  LET u == erase_(t, n)
         IN /\ u \in Nodes /\ Top(u) = Top(t) /\ Freed(u) = Freed(t) + 1
            /\ \A x \in Keys : x # n => Alike(t, u, x)
<1>1. PICK l \in [Keys -> Links] : l = [t.left EXCEPT ![n] = Nil]
  BY NodesAre, KeysAre
<1>2. PICK r \in [Keys -> Links] : r = [t.right EXCEPT ![n] = Nil]
  BY NodesAre, KeysAre
<1>3. PICK b \in [Keys -> BOOLEAN] : b = [t.black EXCEPT ![n] = FALSE]
  BY NodesAre
<1>4. PICK p \in [Keys -> Links] : p = [t.parent EXCEPT ![n] = Nil]
  BY NodesAre, KeysAre
<1>5. PICK u : u = [t EXCEPT !.left = l]
  OBVIOUS
<1>6. PICK v : v = [u EXCEPT !.right = r]
  OBVIOUS
<1>7. PICK w : w = [v EXCEPT !.black = b]
  OBVIOUS
<1>8. PICK x : x = [w EXCEPT !.parent = p]
  OBVIOUS
<1>9. PICK y : y = [x EXCEPT !.freed = t.freed + 1]
  OBVIOUS
<1>10. Has(u, l, t.right, t.black, t.parent, t.top, t.freed)
  BY <1>5, NodesAre, PutLeft
<1>11. Has(v, l, r, t.black, t.parent, t.top, t.freed)
  BY <1>6, <1>10, PutRight
<1>12. Has(w, l, r, b, t.parent, t.top, t.freed)
  BY <1>7, <1>11, PutBlack
<1>13. Has(x, l, r, b, p, t.top, t.freed)
  BY <1>8, <1>12, PutParent
<1>14. t.freed + 1 \in Nat
  BY NodesAre
<1>15. Has(y, l, r, b, p, t.top, t.freed + 1)
  BY <1>9, <1>13, <1>14, PutFreed
<1>16. erase_(t, n) = y
  <2>1. u.right = t.right /\ v.black = t.black /\ w.parent = t.parent /\ x.freed = t.freed
    BY <1>10, <1>11, <1>12, <1>13 DEF Has
  <2>2. QED
    BY <1>1, <1>2, <1>3, <1>4, <1>5, <1>6, <1>7, <1>8, <1>9, <2>1 DEF erase_
<1>17. /\ \A z \in Keys \ {n} : l[z] = t.left[z] /\ r[z] = t.right[z] /\ (b[z] <=> t.black[z])
  BY <1>1, <1>2, <1>3, NodesAre
<1>18. QED
  BY <1>15, <1>16, <1>17
    DEF Has, Same, Alike, Left, Right, Black, Top, Freed

-----------------------------------------------------------------------------
(* Red-black trees.  <<m, T, g>> \in Q: below m are the nodes T, in a tree  *)
(* of black height g.  What is below the children of m is in Q too.        *)

Grown(t, Q, m, T, g) ==
  \E L, R, f :
    /\ <<Left(t, m), L, f>> \in Q /\ <<Right(t, m), R, f>> \in Q
    /\ T = L \cup {m} \cup R
    /\ (\A x \in L : x < m) /\ (\A x \in R : m < x)
    /\ f \in Nat \ {0} /\ g = f + (IF Black(t, m) THEN 1 ELSE 0)
    /\ ~isRed(t, Right(t, m)) /\ (Black(t, m) \/ ~isRed(t, Left(t, m)))

Grows(t, Q) ==
  \A m, T, g : <<m, T, g>> \in Q =>
    \/ m = Nil /\ T = {} /\ g = 1
    \/ m \in Keys /\ Grown(t, Q, m, T, g)

\* Below n are the nodes S, in a red-black tree of black height h.
Tree(t, n, S, h) == S \subseteq Keys /\ \E Q : <<n, S, h>> \in Q /\ Grows(t, Q)

\* The subtrees of n are red-black trees, whatever colours n and they have.
Node(t, n, S, h, L, R, f) ==
  /\ n \in Keys
  /\ Tree(t, Left(t, n), L, f) /\ Tree(t, Right(t, n), R, f)
  /\ S = L \cup {n} \cup R
  /\ (\A x \in L : x < n) /\ (\A x \in R : n < x)
  /\ f \in Nat \ {0} /\ h = f + (IF Black(t, n) THEN 1 ELSE 0)

\* A red-black tree, but for a red child of its red root.
Almost(t, n, S, h) ==
  \E L, R, f : Node(t, n, S, h, L, R, f) /\ ~isRed(t, Right(t, n))

LEMMA TreeIsNode ==
  ASSUME NEW t, NEW n, NEW S, NEW h, Tree(t, n, S, h), n # Nil
  PROVE  \E L, R, f : /\ Node(t, n, S, h, L, R, f)
                      /\ ~isRed(t, Right(t, n)) /\ (Black(t, n) \/ ~isRed(t, Left(t, n)))
<1>1. PICK Q : <<n, S, h>> \in Q /\ Grows(t, Q)
  BY DEF Tree
<1>0. n \in Keys /\ Grown(t, Q, n, S, h)
  BY <1>1 DEF Grows
<1>2. PICK L, R, f :
        /\ <<Left(t, n), L, f>> \in Q /\ <<Right(t, n), R, f>> \in Q
        /\ S = L \cup {n} \cup R
        /\ (\A x \in L : x < n) /\ (\A x \in R : n < x)
        /\ f \in Nat \ {0} /\ h = f + (IF Black(t, n) THEN 1 ELSE 0)
        /\ ~isRed(t, Right(t, n)) /\ (Black(t, n) \/ ~isRed(t, Left(t, n)))
  BY <1>0 DEF Grown
<1>3. L \subseteq Keys /\ R \subseteq Keys
  BY <1>2 DEF Tree
<1>4. Tree(t, Left(t, n), L, f) /\ Tree(t, Right(t, n), R, f)
  BY <1>1, <1>2, <1>3 DEF Tree
<1>5. QED
  BY <1>0, <1>2, <1>4 DEF Node

LEMMA NodeIsTree ==
  ASSUME NEW t, NEW n, NEW S, NEW h, NEW L, NEW R, NEW f, Node(t, n, S, h, L, R, f),
         ~isRed(t, Right(t, n)), Black(t, n) \/ ~isRed(t, Left(t, n))
  PROVE  Tree(t, n, S, h)
<1>1. PICK P : <<Left(t, n), L, f>> \in P /\ Grows(t, P)
  BY DEF Node, Tree
<1>2. PICK Q : <<Right(t, n), R, f>> \in Q /\ Grows(t, Q)
  BY DEF Node, Tree
<1>3. PICK U : U = P \cup Q \cup {<<n, S, h>>}
  OBVIOUS
<1>4. ASSUME NEW m, NEW T, NEW g, <<m, T, g>> \in U
      PROVE  (m = Nil /\ T = {} /\ g = 1) \/ (m \in Keys /\ Grown(t, U, m, T, g))
  <2>0. (Grown(t, P, m, T, g) \/ Grown(t, Q, m, T, g)) => Grown(t, U, m, T, g)
    BY <1>3 DEF Grown
  <2>1. CASE <<m, T, g>> \in P
    BY <1>1, <2>0, <2>1 DEF Grows
  <2>2. CASE <<m, T, g>> \in Q
    BY <1>2, <2>0, <2>2 DEF Grows
  <2>3. CASE <<m, T, g>> = <<n, S, h>>
    <3>1. m = n /\ T = S /\ g = h
      BY <2>3
    <3>2. <<Left(t, n), L, f>> \in U /\ <<Right(t, n), R, f>> \in U
      BY <1>1, <1>2, <1>3
    <3>3. Grown(t, U, n, S, h)
      BY <3>2 DEF Node, Grown
    <3>4. QED
      BY <3>1, <3>3 DEF Node
  <2>4. QED
    BY <1>3, <1>4, <2>1, <2>2, <2>3
<1>5. Grows(t, U)
  BY <1>4 DEF Grows
<1>6. S \subseteq Keys
  BY DEF Node, Tree
<1>7. QED
  BY <1>3, <1>5, <1>6 DEF Tree

LEMMA NilIsTree ==
  ASSUME NEW t
  PROVE  /\ Tree(t, Nil, {}, 1)
         /\ \A n, S, h : Tree(t, n, S, h) =>
              /\ n = Nil \/ S = {} => n = Nil /\ S = {} /\ h = 1
              /\ n \in S \cup {Nil} /\ n \in Links
<1>1. Grows(t, {<<Nil, {}, 1>>})
  BY DEF Grows
<1>2. Tree(t, Nil, {}, 1)
  BY <1>1 DEF Tree
<1>3. ASSUME NEW n, NEW S, NEW h, Tree(t, n, S, h)
      PROVE  /\ n = Nil \/ S = {} => n = Nil /\ S = {} /\ h = 1
             /\ n \in S \cup {Nil} /\ n \in Links
  <2>1. PICK Q : <<n, S, h>> \in Q /\ Grows(t, Q)
    BY <1>3 DEF Tree
  <2>2. (n = Nil /\ S = {} /\ h = 1) \/ (n \in Keys /\ Grown(t, Q, n, S, h))
    BY <2>1 DEF Grows
  <2>3. Grown(t, Q, n, S, h) => n \in S
    BY DEF Grown
  <2>4. QED
    BY <2>2, <2>3, KeysAre
<1>4. QED
  BY <1>2, <1>3

LEMMA SameTree ==
  ASSUME NEW t, NEW u, NEW n, NEW S, NEW h, Tree(t, n, S, h), Same(t, u, S)
  PROVE  Tree(u, n, S, h)
<1>1. PICK P : <<n, S, h>> \in P /\ Grows(t, P)
  BY DEF Tree
<1>2. PICK Q : Q = {q \in P : \E m, T, g : q = <<m, T, g>> /\ T \subseteq S}
  OBVIOUS
<1>3. <<n, S, h>> \in Q
  BY <1>1, <1>2
<1>4. \A m, T, g : <<m, T, g>> \in Q <=> <<m, T, g>> \in P /\ T \subseteq S
  BY <1>2
<1>5. ASSUME NEW m, NEW T, NEW g, <<m, T, g>> \in Q
      PROVE  (m = Nil /\ T = {} /\ g = 1) \/ (m \in Keys /\ Grown(u, Q, m, T, g))
  <2>1. <<m, T, g>> \in P /\ T \subseteq S
    BY <1>4, <1>5
  <2>2. (m = Nil /\ T = {} /\ g = 1) \/ (m \in Keys /\ Grown(t, P, m, T, g))
    BY <1>1, <2>1 DEF Grows
  <2>3. SUFFICES ASSUME m \in Keys, Grown(t, P, m, T, g) PROVE Grown(u, Q, m, T, g)
    BY <2>2
  <2>4. PICK A, B, e :
          /\ <<Left(t, m), A, e>> \in P /\ <<Right(t, m), B, e>> \in P
          /\ T = A \cup {m} \cup B
          /\ (\A x \in A : x < m) /\ (\A x \in B : m < x)
          /\ e \in Nat \ {0} /\ g = e + (IF Black(t, m) THEN 1 ELSE 0)
          /\ ~isRed(t, Right(t, m)) /\ (Black(t, m) \/ ~isRed(t, Left(t, m)))
    BY <2>3 DEF Grown
  <2>5. A \subseteq S /\ B \subseteq S /\ m \in S
    BY <2>1, <2>4
  <2>6. Tree(t, Left(t, m), A, e) /\ Tree(t, Right(t, m), B, e)
    BY <1>1, <2>4, <2>5 DEF Tree
  <2>7. Left(t, m) \in S \cup {Nil} /\ Right(t, m) \in S \cup {Nil}
    BY <2>5, <2>6, NilIsTree
  <2>8. /\ Left(u, m) = Left(t, m) /\ Right(u, m) = Right(t, m) /\ (Black(u, m) <=> Black(t, m))
        /\ isRed(t, Left(t, m)) <=> isRed(u, Left(t, m))
        /\ isRed(t, Right(t, m)) <=> isRed(u, Right(t, m))
    BY <2>5, <2>7, RedIs DEF Same, Alike, Kept
  <2>9. <<Left(u, m), A, e>> \in Q /\ <<Right(u, m), B, e>> \in Q
    BY <1>4, <2>4, <2>5, <2>8
  <2>10. QED
    BY <2>4, <2>8, <2>9 DEF Grown
<1>6. Grows(u, Q)
  BY <1>5 DEF Grows
<1>7. QED
  BY <1>3, <1>6 DEF Tree

LEMMA TreeSize ==
  ASSUME NEW t, NEW n, NEW S, NEW h, Tree(t, n, S, h)
  PROVE  IsFiniteSet(S) /\ Cardinality(S) \in Nat /\ S \subseteq Keys /\ h \in Nat \ {0}
<1>1. IsFiniteSet(S) /\ S \subseteq Keys
  BY KeysAre, FS_Subset DEF Tree
<1>2. Cardinality(S) \in Nat
  BY <1>1, FS_CardinalityType
<1>3. h \in Nat \ {0}
  <2>1. CASE n = Nil
    BY <2>1, NilIsTree
  <2>2. CASE n # Nil
    <3>1. PICK L, R, f : Node(t, n, S, h, L, R, f)
      BY <2>2, TreeIsNode
    <3>2. QED
      BY <3>1 DEF Node
  <2>3. QED
    BY <2>1, <2>2
<1>4. QED
  BY <1>1, <1>2, <1>3

LEMMA NodeSize ==
  ASSUME NEW t, NEW n, NEW S, NEW h, NEW L, NEW R, NEW f, Node(t, n, S, h, L, R, f)
  PROVE  /\ n \in S /\ n \notin L /\ n \notin R /\ L \cap R = {}
         /\ S \subseteq Keys /\ L \subseteq Keys /\ R \subseteq Keys
         /\ IsFiniteSet(S) /\ IsFiniteSet(L) /\ IsFiniteSet(R)
         /\ Cardinality(S) \in Nat /\ Cardinality(L) \in Nat /\ Cardinality(R) \in Nat
         /\ Cardinality(S) = Cardinality(L) + 1 + Cardinality(R)
<1>1. /\ IsFiniteSet(L) /\ Cardinality(L) \in Nat /\ L \subseteq Keys
      /\ IsFiniteSet(R) /\ Cardinality(R) \in Nat /\ R \subseteq Keys
  BY TreeSize DEF Node
<1>2. n \in S /\ n \in Keys /\ S = (L \cup {n}) \cup R /\ S \subseteq Keys
  BY <1>1 DEF Node
<1>3. n \notin L /\ n \notin R /\ L \cap R = {}
  BY <1>1, <1>2, KeysAre DEF Node
<1>4. IsFiniteSet(L \cup {n}) /\ Cardinality(L \cup {n}) = Cardinality(L) + 1
  BY <1>1, <1>3, FS_AddElement
<1>5. (L \cup {n}) \cap R = {}
  BY <1>3
<1>6. IsFiniteSet(S)
  BY <1>2, KeysAre, FS_Subset
<1>7. Cardinality((L \cup {n}) \cup R) = Cardinality(L \cup {n}) + Cardinality(R)
                                           - Cardinality((L \cup {n}) \cap R)
  BY <1>1, <1>4, FS_Union
<1>8. Cardinality((L \cup {n}) \cap R) = 0
  BY <1>5, FS_EmptySet
<1>9. Cardinality(S) = Cardinality(L) + 1 + Cardinality(R)
  BY <1>1, <1>2, <1>4, <1>7, <1>8
<1>10. Cardinality(S) \in Nat
  BY <1>1, <1>9
<1>11. QED
  BY <1>1, <1>2, <1>3, <1>6, <1>9, <1>10

LEMMA SameNode ==
  ASSUME NEW t, NEW u, NEW n, NEW S, NEW h, NEW L, NEW R, NEW f,
         Node(t, n, S, h, L, R, f), Same(t, u, S)
  PROVE  /\ Node(u, n, S, h, L, R, f)
         /\ isRed(u, Left(u, n)) <=> isRed(t, Left(t, n))
         /\ isRed(u, Right(u, n)) <=> isRed(t, Right(t, n))
         /\ isRed(u, n) <=> isRed(t, n)
<1>1. n \in S /\ L \subseteq S /\ R \subseteq S
  BY DEF Node
<1>2. /\ Same(t, u, L) /\ Same(t, u, R)
      /\ Left(u, n) = Left(t, n) /\ Right(u, n) = Right(t, n) /\ (Black(u, n) <=> Black(t, n))
  BY <1>1 DEF Same, Alike, Kept
<1>3. Tree(u, Left(u, n), L, f) /\ Tree(u, Right(u, n), R, f)
  BY <1>2, SameTree DEF Node
<1>4. (Left(t, n) = Nil \/ Left(t, n) \in S) /\ (Right(t, n) = Nil \/ Right(t, n) \in S)
  BY <1>1, NilIsTree DEF Node
<1>5. QED
  BY <1>2, <1>3, <1>4, RedIs DEF Node, Same, Alike, Kept

-----------------------------------------------------------------------------
(* The steps, on trees. *)

\* A red-black tree, whatever the colour of its root.
Loose(t, n, S, h) == Tree(t, n, S, h) \/ \E L, R, f : Node(t, n, S, h, L, R, f)

\* As Node, also where a child has the wrong colour.
Fork(t, n, S, h, L, R, f) ==
  /\ n \in Keys
  /\ Loose(t, Left(t, n), L, f) /\ Loose(t, Right(t, n), R, f)
  /\ S = L \cup {n} \cup R
  /\ (\A x \in L : x < n) /\ (\A x \in R : n < x)
  /\ f \in Nat \ {0} /\ h = f + (IF Black(t, n) THEN 1 ELSE 0)

LEMMA LooseSize ==
  ASSUME NEW t, NEW n, NEW S, NEW h, Loose(t, n, S, h)
  PROVE  S \subseteq Keys /\ n \in S \cup {Nil} /\ n \in Links
<1>1. CASE Tree(t, n, S, h)
  BY <1>1, NilIsTree, TreeSize
<1>2. CASE \E L, R, f : Node(t, n, S, h, L, R, f)
  <2>1. PICK L, R, f : Node(t, n, S, h, L, R, f)
    BY <1>2
  <2>2. n \in Keys
    BY <2>1 DEF Node
  <2>3. n \in S /\ S \subseteq Keys
    BY <2>1, NodeSize
  <2>4. QED
    BY <2>2, <2>3, KeysAre
<1>3. QED
  BY <1>1, <1>2 DEF Loose

LEMMA NodeIsFork ==
  ASSUME NEW t, NEW n, NEW S, NEW h, NEW L, NEW R, NEW f
  PROVE  Node(t, n, S, h, L, R, f)
           <=> /\ Fork(t, n, S, h, L, R, f)
               /\ Tree(t, Left(t, n), L, f) /\ Tree(t, Right(t, n), R, f)
BY DEF Node, Fork, Loose

LEMMA ForkSize ==
  ASSUME NEW t, NEW n, NEW S, NEW h, NEW L, NEW R, NEW f, Fork(t, n, S, h, L, R, f)
  PROVE  /\ n \in Keys /\ n \in S /\ n \notin L /\ n \notin R /\ L \cap R = {}
         /\ S = L \cup {n} \cup R /\ S \subseteq Keys /\ L \subseteq Keys /\ R \subseteq Keys
         /\ Left(t, n) \in L \cup {Nil} /\ Right(t, n) \in R \cup {Nil}
<1>1. n \in Keys /\ n \in S /\ S = L \cup {n} \cup R
  BY DEF Fork
<1>2. /\ L \subseteq Keys /\ R \subseteq Keys
      /\ Left(t, n) \in L \cup {Nil} /\ Right(t, n) \in R \cup {Nil}
  BY LooseSize DEF Fork
<1>3. L \cap R = {} /\ n \notin L /\ n \notin R
  BY <1>1, <1>2, KeysAre DEF Fork
<1>4. QED
  BY <1>1, <1>2, <1>3

LEMMA SameLoose ==
  ASSUME NEW t, NEW u, NEW n, NEW S, NEW h, Loose(t, n, S, h), Same(t, u, S)
  PROVE  Loose(u, n, S, h)
<1>1. CASE Tree(t, n, S, h)
  BY <1>1, SameTree DEF Loose
<1>2. CASE \E L, R, f : Node(t, n, S, h, L, R, f)
  <2>1. PICK L, R, f : Node(t, n, S, h, L, R, f)
    BY <1>2
  <2>2. Node(u, n, S, h, L, R, f)
    BY <2>1, SameNode
  <2>3. QED
    BY <2>2 DEF Loose
<1>3. QED
  BY <1>1, <1>2 DEF Loose

\* A red child keeps its height when it takes its parent's place.
LEMMA RotateRightTree ==
  ASSUME NEW t \in Nodes, NEW n, NEW S, NEW h, NEW L, NEW R, NEW f, NEW j, NEW A, NEW B,
         Fork(t, n, S, h, L, R, f), Tree(t, Right(t, n), R, f),
         j = Left(t, n), isRed(t, j), Node(t, j, L, f, A, B, f),
         NEW u, u = rotateRight(t, n), NEW M, M = B \cup {n} \cup R
  PROVE  /\ u \in Nodes /\ Top(u) = j /\ Freed(u) = Freed(t)
         /\ Kept(t, u, S) /\ Same(t, u, A) /\ Same(t, u, B) /\ Same(t, u, R)
         /\ Node(u, n, M, f, B, R, f) /\ Fork(u, j, S, h, A, M, f)
         /\ Tree(u, Left(t, j), A, f)
         /\ Left(u, j) = Left(t, j) /\ Right(u, j) = n
         /\ Left(u, n) = Right(t, j) /\ Right(u, n) = Right(t, n)
         /\ ~Black(u, n) /\ (Black(u, j) <=> Black(t, n))
         /\ isRed(u, Left(t, j)) <=> isRed(t, Left(t, j))
         /\ isRed(u, Right(t, j)) <=> isRed(t, Right(t, j))
         /\ isRed(u, Right(t, n)) <=> isRed(t, Right(t, n))
<1>3. /\ n \in Keys /\ n \in S /\ n \notin L /\ n \notin R /\ L \cap R = {}
      /\ S = L \cup {n} \cup R /\ S \subseteq Keys /\ L \subseteq Keys /\ R \subseteq Keys
      /\ Right(t, n) \in R \cup {Nil}
  BY ForkSize
<1>4. /\ j \in Keys /\ j \in L /\ j \notin A /\ j \notin B /\ A \cap B = {}
      /\ L = A \cup {j} \cup B
      /\ Left(t, j) \in A \cup {Nil} /\ Right(t, j) \in B \cup {Nil}
  BY ForkSize, NodeIsFork
<1>5. /\ u \in Nodes /\ Top(u) = j /\ Freed(u) = Freed(t)
      /\ Right(u, n) = Right(t, n) /\ Left(u, n) = Right(t, j) /\ ~Black(u, n)
      /\ Right(u, j) = n /\ Left(u, j) = Left(t, j) /\ (Black(u, j) <=> Black(t, n))
      /\ \A x \in Keys : x # n /\ x # j => Alike(t, u, x)
  BY <1>3, <1>4, RotateRightIs
<1>6. Kept(t, u, S) /\ Same(t, u, A) /\ Same(t, u, B) /\ Same(t, u, R)
  BY <1>3, <1>4, <1>5 DEF Same, Alike, Kept
<1>8. Tree(u, Left(t, j), A, f) /\ Tree(u, Right(t, j), B, f) /\ Tree(u, Right(t, n), R, f)
  BY <1>6, SameTree DEF Node
<1>9. \A x \in A \cup B : x < n
  BY <1>4 DEF Fork
<1>10. (\A x \in A : x < j) /\ (\A x \in B : j < x) /\ j < n
  BY <1>4 DEF Fork, Node
<1>11. (\A x \in R : n < x) /\ (\A x \in R : j < x)
  <2>1. \A x \in R : n < x
    BY DEF Fork
  <2>2. QED
    BY <1>3, <1>4, <1>10, <2>1, KeysAre
<1>12. f \in Nat \ {0} /\ h = f + (IF Black(t, n) THEN 1 ELSE 0)
  BY DEF Fork
<1>13. Node(u, n, M, f, B, R, f)
  BY <1>3, <1>5, <1>8, <1>9, <1>11, <1>12 DEF Node
<1>14. Fork(u, j, S, h, A, M, f)
  <2>1. S = A \cup {j} \cup M
    BY <1>3, <1>4
  <2>2. \A x \in M : j < x
    BY <1>10, <1>11
  <2>3. Loose(u, Left(u, j), A, f) /\ Loose(u, Right(u, j), M, f)
    BY <1>5, <1>8, <1>13 DEF Loose
  <2>4. h = f + (IF Black(u, j) THEN 1 ELSE 0)
    BY <1>5, <1>12
  <2>5. QED
    BY <1>4, <1>10, <1>12, <2>1, <2>2, <2>3, <2>4 DEF Fork
<1>15. /\ isRed(u, Left(t, j)) <=> isRed(t, Left(t, j))
       /\ isRed(u, Right(t, j)) <=> isRed(t, Right(t, j))
       /\ isRed(u, Right(t, n)) <=> isRed(t, Right(t, n))
  BY <1>3, <1>4, <1>6, RedIs DEF Same, Alike, Kept
<1>16. QED
  BY <1>5, <1>6, <1>8, <1>13, <1>14, <1>15

LEMMA RotateLeftTree ==
  ASSUME NEW t \in Nodes, NEW n, NEW S, NEW h, NEW L, NEW R, NEW f, NEW j, NEW A, NEW B,
         Fork(t, n, S, h, L, R, f), Tree(t, Left(t, n), L, f),
         j = Right(t, n), isRed(t, j), Node(t, j, R, f, A, B, f),
         NEW u, u = rotateLeft(t, n), NEW M, M = L \cup {n} \cup A
  PROVE  /\ u \in Nodes /\ Top(u) = j /\ Freed(u) = Freed(t)
         /\ Kept(t, u, S) /\ Same(t, u, L) /\ Same(t, u, A) /\ Same(t, u, B)
         /\ Node(u, n, M, f, L, A, f) /\ Fork(u, j, S, h, M, B, f)
         /\ Tree(u, Right(t, j), B, f)
         /\ Left(u, j) = n /\ Right(u, j) = Right(t, j)
         /\ Left(u, n) = Left(t, n) /\ Right(u, n) = Left(t, j)
         /\ ~Black(u, n) /\ (Black(u, j) <=> Black(t, n))
         /\ isRed(u, Left(t, j)) <=> isRed(t, Left(t, j))
         /\ isRed(u, Right(t, j)) <=> isRed(t, Right(t, j))
         /\ isRed(u, Left(t, n)) <=> isRed(t, Left(t, n))
<1>3. /\ n \in Keys /\ n \in S /\ n \notin L /\ n \notin R /\ L \cap R = {}
      /\ S = L \cup {n} \cup R /\ S \subseteq Keys /\ L \subseteq Keys /\ R \subseteq Keys
      /\ Left(t, n) \in L \cup {Nil}
  BY ForkSize
<1>4. /\ j \in Keys /\ j \in R /\ j \notin A /\ j \notin B /\ A \cap B = {}
      /\ R = A \cup {j} \cup B
      /\ Left(t, j) \in A \cup {Nil} /\ Right(t, j) \in B \cup {Nil}
  BY ForkSize, NodeIsFork
<1>5. /\ u \in Nodes /\ Top(u) = j /\ Freed(u) = Freed(t)
      /\ Left(u, n) = Left(t, n) /\ Right(u, n) = Left(t, j) /\ ~Black(u, n)
      /\ Left(u, j) = n /\ Right(u, j) = Right(t, j) /\ (Black(u, j) <=> Black(t, n))
      /\ \A x \in Keys : x # n /\ x # j => Alike(t, u, x)
  BY <1>3, <1>4, RotateLeftIs
<1>6. Kept(t, u, S) /\ Same(t, u, L) /\ Same(t, u, A) /\ Same(t, u, B)
  BY <1>3, <1>4, <1>5 DEF Same, Alike, Kept
<1>8. Tree(u, Left(t, j), A, f) /\ Tree(u, Right(t, j), B, f) /\ Tree(u, Left(t, n), L, f)
  BY <1>6, SameTree DEF Node
<1>9. \A x \in A \cup B : n < x
  BY <1>4 DEF Fork
<1>10. (\A x \in A : x < j) /\ (\A x \in B : j < x) /\ n < j
  BY <1>4 DEF Fork, Node
<1>11. (\A x \in L : x < n) /\ (\A x \in L : x < j)
  <2>1. \A x \in L : x < n
    BY DEF Fork
  <2>2. QED
    BY <1>3, <1>4, <1>10, <2>1, KeysAre
<1>12. f \in Nat \ {0} /\ h = f + (IF Black(t, n) THEN 1 ELSE 0)
  BY DEF Fork
<1>13. Node(u, n, M, f, L, A, f)
  BY <1>3, <1>5, <1>8, <1>9, <1>11, <1>12 DEF Node
<1>14. Fork(u, j, S, h, M, B, f)
  <2>1. S = M \cup {j} \cup B
    BY <1>3, <1>4
  <2>2. \A x \in M : x < j
    BY <1>10, <1>11
  <2>3. Loose(u, Right(u, j), B, f) /\ Loose(u, Left(u, j), M, f)
    BY <1>5, <1>8, <1>13 DEF Loose
  <2>4. h = f + (IF Black(u, j) THEN 1 ELSE 0)
    BY <1>5, <1>12
  <2>5. QED
    BY <1>4, <1>10, <1>12, <2>1, <2>2, <2>3, <2>4 DEF Fork
<1>15. /\ isRed(u, Left(t, j)) <=> isRed(t, Left(t, j))
       /\ isRed(u, Right(t, j)) <=> isRed(t, Right(t, j))
       /\ isRed(u, Left(t, n)) <=> isRed(t, Left(t, n))
  BY <1>3, <1>4, <1>6, RedIs DEF Same, Alike, Kept
<1>16. QED
  BY <1>5, <1>6, <1>8, <1>13, <1>14, <1>15

\* A node and its two red children change colour together.
LEMMA FlipRedTree ==
  ASSUME NEW t \in Nodes, NEW n, NEW S, NEW h, NEW L, NEW R, NEW f, NEW l, NEW r,
         NEW A, NEW B, NEW e, NEW C, NEW D, NEW d,
         Fork(t, n, S, h, L, R, f), l = Left(t, n), r = Right(t, n),
         Node(t, l, L, f, A, B, e), Node(t, r, R, f, C, D, d),
         isRed(t, l), isRed(t, r), NEW u, u = flipColors(t, n)
  PROVE  /\ u \in Nodes /\ Top(u) = n /\ Freed(u) = Freed(t)
         /\ Kept(t, u, S) /\ Same(t, u, A) /\ Same(t, u, B) /\ Same(t, u, C) /\ Same(t, u, D)
         /\ e = f /\ d = f
         /\ Node(u, l, L, f + 1, A, B, f) /\ Node(u, r, R, f + 1, C, D, f)
         /\ Fork(u, n, S, (f + 1) + (IF Black(u, n) THEN 1 ELSE 0), L, R, f + 1)
         /\ Left(u, n) = l /\ Right(u, n) = r /\ (Black(u, n) <=> ~Black(t, n))
         /\ Left(u, l) = Left(t, l) /\ Right(u, l) = Right(t, l) /\ (Black(u, l) <=> ~Black(t, l))
         /\ Left(u, r) = Left(t, r) /\ Right(u, r) = Right(t, r) /\ (Black(u, r) <=> ~Black(t, r))
         /\ isRed(u, l) <=> ~isRed(t, l)
         /\ isRed(u, r) <=> ~isRed(t, r)
         /\ isRed(u, Left(t, l)) <=> isRed(t, Left(t, l))
         /\ isRed(u, Right(t, l)) <=> isRed(t, Right(t, l))
         /\ isRed(u, Left(t, r)) <=> isRed(t, Left(t, r))
         /\ isRed(u, Right(t, r)) <=> isRed(t, Right(t, r))
<1>1. /\ n \in Keys /\ n \in S /\ n \notin L /\ n \notin R /\ L \cap R = {}
      /\ S = L \cup {n} \cup R /\ S \subseteq Keys /\ L \subseteq Keys /\ R \subseteq Keys
  BY ForkSize
<1>2. /\ l \in Keys /\ l \in L /\ l \notin A /\ l \notin B /\ L = A \cup {l} \cup B
      /\ Left(t, l) \in A \cup {Nil} /\ Right(t, l) \in B \cup {Nil}
  BY ForkSize, NodeIsFork
<1>3. /\ r \in Keys /\ r \in R /\ r \notin C /\ r \notin D /\ R = C \cup {r} \cup D
      /\ Left(t, r) \in C \cup {Nil} /\ Right(t, r) \in D \cup {Nil}
  BY ForkSize, NodeIsFork
<1>4. /\ u \in Nodes /\ Top(u) = n /\ Freed(u) = Freed(t)
      /\ \A x \in Keys : Left(u, x) = Left(t, x) /\ Right(u, x) = Right(t, x)
      /\ (Black(u, n) <=> ~Black(t, n)) /\ (Black(u, l) <=> ~Black(t, l))
      /\ (Black(u, r) <=> ~Black(t, r))
      /\ \A x \in Keys : x # n /\ x # l /\ x # r => Alike(t, u, x)
  BY <1>1, <1>2, <1>3, FlipColorsIs
<1>5. Kept(t, u, S) /\ Same(t, u, A) /\ Same(t, u, B) /\ Same(t, u, C) /\ Same(t, u, D)
  BY <1>1, <1>2, <1>3, <1>4 DEF Same, Alike, Kept
<1>7. /\ Tree(u, Left(t, l), A, e) /\ Tree(u, Right(t, l), B, e)
      /\ Tree(u, Left(t, r), C, d) /\ Tree(u, Right(t, r), D, d)
  BY <1>5, SameTree DEF Node
<1>8. /\ e \in Nat \ {0} /\ f = e + (IF Black(t, l) THEN 1 ELSE 0)
      /\ d \in Nat \ {0} /\ f = d + (IF Black(t, r) THEN 1 ELSE 0)
      /\ f \in Nat \ {0}
  BY DEF Node, Fork
<1>9. ~Black(t, l) /\ ~Black(t, r)
  BY <1>2, <1>3, KeysAre, RedIs
<1>10. /\ e = f /\ d = f /\ f \in Nat \ {0} /\ f + 1 \in Nat \ {0}
       /\ f + 1 = (f) + (IF Black(u, l) THEN 1 ELSE 0)
       /\ f + 1 = (f) + (IF Black(u, r) THEN 1 ELSE 0)
  BY <1>4, <1>8, <1>9
<1>11. Node(u, l, L, f + 1, A, B, f)
  <2>1. (\A x \in A : x < l) /\ (\A x \in B : l < x)
    BY DEF Node
  <2>2. QED
    BY <1>2, <1>4, <1>7, <1>10, <2>1 DEF Node
<1>12. Node(u, r, R, f + 1, C, D, f)
  <2>1. (\A x \in C : x < r) /\ (\A x \in D : r < x)
    BY DEF Node
  <2>2. QED
    BY <1>3, <1>4, <1>7, <1>10, <2>1 DEF Node
<1>13. Fork(u, n, S, (f + 1) + (IF Black(u, n) THEN 1 ELSE 0), L, R, f + 1)
  <2>1. Loose(u, l, L, f + 1) /\ Loose(u, r, R, f + 1)
    BY <1>11, <1>12 DEF Loose
  <2>2. (\A x \in L : x < n) /\ (\A x \in R : n < x)
    BY DEF Fork
  <2>3. Left(u, n) = l /\ Right(u, n) = r
    BY <1>1, <1>4
  <2>4. QED
    BY <1>1, <1>10, <2>1, <2>2, <2>3 DEF Fork
<1>14. /\ isRed(u, Left(t, l)) <=> isRed(t, Left(t, l))
       /\ isRed(u, Right(t, l)) <=> isRed(t, Right(t, l))
       /\ isRed(u, Left(t, r)) <=> isRed(t, Left(t, r))
       /\ isRed(u, Right(t, r)) <=> isRed(t, Right(t, r))
  BY <1>2, <1>3, <1>5, RedIs DEF Same, Alike, Kept
<1>15. (isRed(u, l) <=> ~isRed(t, l)) /\ (isRed(u, r) <=> ~isRed(t, r))
  BY <1>2, <1>3, <1>4, KeysAre, RedIs
<1>16. QED
  BY <1>1, <1>2, <1>3, <1>4, <1>5, <1>10, <1>11, <1>12, <1>13, <1>14, <1>15

\* And back.
LEMMA FlipBlackTree ==
  ASSUME NEW t \in Nodes, NEW n, NEW S, NEW h, NEW L, NEW R, NEW f, NEW l, NEW r,
         NEW A, NEW B, NEW e, NEW C, NEW D, NEW d,
         Fork(t, n, S, h, L, R, f), l = Left(t, n), r = Right(t, n),
         Node(t, l, L, f, A, B, e), Node(t, r, R, f, C, D, d),
         ~isRed(t, l), ~isRed(t, r), NEW u, u = flipColors(t, n)
  PROVE  /\ u \in Nodes /\ Top(u) = n /\ Freed(u) = Freed(t)
         /\ Kept(t, u, S) /\ Same(t, u, A) /\ Same(t, u, B) /\ Same(t, u, C) /\ Same(t, u, D)
         /\ e = f - 1 /\ d = f - 1
         /\ Node(u, l, L, f - 1, A, B, f - 1) /\ Node(u, r, R, f - 1, C, D, f - 1)
         /\ Fork(u, n, S, (f - 1) + (IF Black(u, n) THEN 1 ELSE 0), L, R, f - 1)
         /\ Left(u, n) = l /\ Right(u, n) = r /\ (Black(u, n) <=> ~Black(t, n))
         /\ Left(u, l) = Left(t, l) /\ Right(u, l) = Right(t, l) /\ (Black(u, l) <=> ~Black(t, l))
         /\ Left(u, r) = Left(t, r) /\ Right(u, r) = Right(t, r) /\ (Black(u, r) <=> ~Black(t, r))
         /\ isRed(u, l) <=> ~isRed(t, l)
         /\ isRed(u, r) <=> ~isRed(t, r)
         /\ isRed(u, Left(t, l)) <=> isRed(t, Left(t, l))
         /\ isRed(u, Right(t, l)) <=> isRed(t, Right(t, l))
         /\ isRed(u, Left(t, r)) <=> isRed(t, Left(t, r))
         /\ isRed(u, Right(t, r)) <=> isRed(t, Right(t, r))
<1>1. /\ n \in Keys /\ n \in S /\ n \notin L /\ n \notin R /\ L \cap R = {}
      /\ S = L \cup {n} \cup R /\ S \subseteq Keys /\ L \subseteq Keys /\ R \subseteq Keys
  BY ForkSize
<1>2. /\ l \in Keys /\ l \in L /\ l \notin A /\ l \notin B /\ L = A \cup {l} \cup B
      /\ Left(t, l) \in A \cup {Nil} /\ Right(t, l) \in B \cup {Nil}
  BY ForkSize, NodeIsFork
<1>3. /\ r \in Keys /\ r \in R /\ r \notin C /\ r \notin D /\ R = C \cup {r} \cup D
      /\ Left(t, r) \in C \cup {Nil} /\ Right(t, r) \in D \cup {Nil}
  BY ForkSize, NodeIsFork
<1>4. /\ u \in Nodes /\ Top(u) = n /\ Freed(u) = Freed(t)
      /\ \A x \in Keys : Left(u, x) = Left(t, x) /\ Right(u, x) = Right(t, x)
      /\ (Black(u, n) <=> ~Black(t, n)) /\ (Black(u, l) <=> ~Black(t, l))
      /\ (Black(u, r) <=> ~Black(t, r))
      /\ \A x \in Keys : x # n /\ x # l /\ x # r => Alike(t, u, x)
  BY <1>1, <1>2, <1>3, FlipColorsIs
<1>5. Kept(t, u, S) /\ Same(t, u, A) /\ Same(t, u, B) /\ Same(t, u, C) /\ Same(t, u, D)
  BY <1>1, <1>2, <1>3, <1>4 DEF Same, Alike, Kept
<1>7. /\ Tree(u, Left(t, l), A, e) /\ Tree(u, Right(t, l), B, e)
      /\ Tree(u, Left(t, r), C, d) /\ Tree(u, Right(t, r), D, d)
  BY <1>5, SameTree DEF Node
<1>8. /\ e \in Nat \ {0} /\ f = e + (IF Black(t, l) THEN 1 ELSE 0)
      /\ d \in Nat \ {0} /\ f = d + (IF Black(t, r) THEN 1 ELSE 0)
      /\ f \in Nat \ {0}
  BY DEF Node, Fork
<1>9. Black(t, l) /\ Black(t, r)
  BY <1>2, <1>3, KeysAre, RedIs
<1>10. /\ e = f - 1 /\ d = f - 1 /\ f - 1 \in Nat \ {0} /\ f - 1 \in Nat \ {0}
       /\ f - 1 = (f - 1) + (IF Black(u, l) THEN 1 ELSE 0)
       /\ f - 1 = (f - 1) + (IF Black(u, r) THEN 1 ELSE 0)
  BY <1>4, <1>8, <1>9
<1>11. Node(u, l, L, f - 1, A, B, f - 1)
  <2>1. (\A x \in A : x < l) /\ (\A x \in B : l < x)
    BY DEF Node
  <2>2. QED
    BY <1>2, <1>4, <1>7, <1>10, <2>1 DEF Node
<1>12. Node(u, r, R, f - 1, C, D, f - 1)
  <2>1. (\A x \in C : x < r) /\ (\A x \in D : r < x)
    BY DEF Node
  <2>2. QED
    BY <1>3, <1>4, <1>7, <1>10, <2>1 DEF Node
<1>13. Fork(u, n, S, (f - 1) + (IF Black(u, n) THEN 1 ELSE 0), L, R, f - 1)
  <2>1. Loose(u, l, L, f - 1) /\ Loose(u, r, R, f - 1)
    BY <1>11, <1>12 DEF Loose
  <2>2. (\A x \in L : x < n) /\ (\A x \in R : n < x)
    BY DEF Fork
  <2>3. Left(u, n) = l /\ Right(u, n) = r
    BY <1>1, <1>4
  <2>4. QED
    BY <1>1, <1>10, <2>1, <2>2, <2>3 DEF Fork
<1>14. /\ isRed(u, Left(t, l)) <=> isRed(t, Left(t, l))
       /\ isRed(u, Right(t, l)) <=> isRed(t, Right(t, l))
       /\ isRed(u, Left(t, r)) <=> isRed(t, Left(t, r))
       /\ isRed(u, Right(t, r)) <=> isRed(t, Right(t, r))
  BY <1>2, <1>3, <1>5, RedIs DEF Same, Alike, Kept
<1>15. (isRed(u, l) <=> ~isRed(t, l)) /\ (isRed(u, r) <=> ~isRed(t, r))
  BY <1>2, <1>3, <1>4, KeysAre, RedIs
<1>16. QED
  BY <1>1, <1>2, <1>3, <1>4, <1>5, <1>10, <1>11, <1>12, <1>13, <1>14, <1>15

-----------------------------------------------------------------------------
(* Split and fixUp. *)

LEMMA RedTree ==
  ASSUME NEW t, NEW n, NEW S, NEW h, Tree(t, n, S, h), isRed(t, n)
  PROVE  /\ n \in Keys
         /\ \E A, B : /\ Node(t, n, S, h, A, B, h)
                      /\ ~isRed(t, Right(t, n)) /\ ~isRed(t, Left(t, n))
<1>1. n # Nil /\ ~Black(t, n)
  BY RedIs
<1>2. PICK A, B, e : /\ Node(t, n, S, h, A, B, e)
                     /\ ~isRed(t, Right(t, n)) /\ (Black(t, n) \/ ~isRed(t, Left(t, n)))
  BY <1>1, TreeIsNode
<1>3. e = h /\ n \in Keys
  BY <1>1, <1>2 DEF Node
<1>4. QED
  BY <1>1, <1>2, <1>3

LEMMA KeptAll ==
  /\ \A t, S : Kept(t, t, S)
  /\ \A t, u, v, S : Kept(t, u, S) /\ Kept(u, v, S) => Kept(t, v, S)
BY DEF Kept, Alike

LEMMA TreeIsAlmost ==
  ASSUME NEW t, NEW n, NEW S, NEW h, Tree(t, n, S, h), n # Nil
  PROVE  Almost(t, n, S, h)
BY TreeIsNode DEF Almost

\* A red root of an almost red-black tree.
LEMMA AlmostIsTree ==
  ASSUME NEW t, NEW n, NEW S, NEW h, Almost(t, n, S, h)
  PROVE  /\ n \in Keys /\ n \in S /\ S \subseteq Keys
         /\ Black(t, n) \/ ~isRed(t, Left(t, n)) => Tree(t, n, S, h)
         /\ isRed(t, n) => \E A, B : Node(t, n, S, h, A, B, h) /\ ~isRed(t, Right(t, n))
<1>1. PICK A, B, e : Node(t, n, S, h, A, B, e) /\ ~isRed(t, Right(t, n))
  BY DEF Almost
<1>2. n \in Keys /\ (~Black(t, n) => e = h)
  BY <1>1 DEF Node
<1>3. n \in S /\ S \subseteq Keys
  BY <1>1, NodeSize
<1>4. QED
  BY <1>1, <1>2, <1>3, NodeIsTree, RedIs

LEMMA SplitTree ==
  ASSUME NEW t \in Nodes, NEW n, NEW S, NEW h, NEW L, NEW R, NEW f, n = Top(t),
         Fork(t, n, S, h, L, R, f), Tree(t, Right(t, n), R, f),
         Tree(t, Left(t, n), L, f) \/ Almost(t, Left(t, n), L, f),
         isRed(t, Left(t, n)) /\ isRed(t, Left(t, Left(t, n))) => ~isRed(t, Right(t, n)),
         isRed(t, Right(t, n)) => isRed(t, Left(t, n))
  PROVE  LET u == Split(t)
         IN /\ u \in Nodes /\ Freed(u) = Freed(t) /\ Top(u) \in Keys
            /\ Kept(t, u, S)
            /\ Black(t, n) => Tree(u, Top(u), S, h)
            /\ \E g : Almost(u, Top(u), S, g)
            /\ ~isRed(t, Right(t, n)) /\ ~(isRed(t, Left(t, n)) /\ isRed(t, Left(t, Left(t, n))))
                 => u = t
<1>1. PICK u, l, r : u = Split(t) /\ l = Left(t, n) /\ r = Right(t, n)
  OBVIOUS
<1>2. PICK v : v = IF isRed(t, l) /\ isRed(t, Left(t, l)) THEN rotateRight(t, n) ELSE t
  OBVIOUS
<1>3. u = IF isRed(v, Left(v, Top(v))) /\ isRed(v, Right(v, Top(v))) THEN flipColors(v, Top(v)) ELSE v
  BY <1>1, <1>2 DEF Split, Left, Right, Top
<1>4. n \in Keys /\ S \subseteq Keys /\ f \in Nat \ {0} /\ h = f + (IF Black(t, n) THEN 1 ELSE 0)
  <2>1. n \in Keys /\ S \subseteq Keys
    BY ForkSize
  <2>2. QED
    BY <2>1 DEF Fork
<1>5. isRed(t, l) => \E A, B : Node(t, l, L, f, A, B, f) /\ ~isRed(t, Right(t, l))
  BY <1>1, RedTree, AlmostIsTree
<1>6. CASE isRed(t, l) /\ isRed(t, Left(t, l))
  <2>1. PICK A, B : Node(t, l, L, f, A, B, f) /\ ~isRed(t, Right(t, l))
    BY <1>5, <1>6
  <2>2. PICK M : M = B \cup {n} \cup R
    OBVIOUS
  <2>3. PICK k : k = Left(t, l)
    OBVIOUS
  <2>4. /\ v \in Nodes /\ Top(v) = l /\ Freed(v) = Freed(t) /\ Kept(t, v, S)
        /\ Node(v, n, M, f, B, R, f) /\ Fork(v, l, S, h, A, M, f)
        /\ Tree(v, k, A, f) /\ Left(v, l) = k /\ Right(v, l) = n
        /\ ~Black(v, n) /\ (Black(v, l) <=> Black(t, n))
        /\ isRed(v, k) /\ Right(v, n) = r /\ ~isRed(v, r)
    <3>1. v = rotateRight(t, n)
      BY <1>2, <1>6
    <3>2. QED
      BY <1>1, <1>6, <2>1, <2>2, <2>3, <3>1, RotateRightTree
  <2>5. isRed(v, n) /\ u = flipColors(v, l)
    BY <1>3, <1>4, <2>4, KeysAre, RedIs
  <2>6. PICK C, D : Node(v, k, A, f, C, D, f) /\ ~isRed(v, Right(v, k)) /\ k \in Keys
    BY <2>4, RedTree
  <2>7. ~Black(v, k)
    BY <2>4, RedIs
  <2>8. /\ u \in Nodes /\ Top(u) = l /\ Freed(u) = Freed(v) /\ Kept(v, u, S)
        /\ Node(u, k, A, f + 1, C, D, f) /\ Node(u, n, M, f + 1, B, R, f)
        /\ Fork(u, l, S, (f + 1) + (IF Black(u, l) THEN 1 ELSE 0), A, M, f + 1)
        /\ Left(u, l) = k /\ Right(u, l) = n /\ (Black(u, l) <=> ~Black(v, l))
        /\ Right(u, k) = Right(v, k) /\ Right(u, n) = Right(v, n)
        /\ ~isRed(u, k) /\ ~isRed(u, n)
        /\ isRed(u, Right(v, k)) <=> isRed(v, Right(v, k))
        /\ isRed(u, Right(v, n)) <=> isRed(v, Right(v, n))
    BY <2>4, <2>5, <2>6, FlipRedTree
  <2>9. l \in Keys
    BY <2>4, ForkSize
  <2>10. Tree(u, k, A, f + 1) /\ Tree(u, n, M, f + 1)
    <3>1. ~isRed(u, Right(u, k)) /\ Black(u, k) /\ ~isRed(u, Right(u, n)) /\ Black(u, n)
      BY <1>4, <2>4, <2>6, <2>8, KeysAre, RedIs
    <3>2. QED
      BY <2>8, <3>1, NodeIsTree
  <2>13. Tree(u, l, S, (f + 1) + (IF Black(u, l) THEN 1 ELSE 0))
    BY <2>8, <2>10, NodeIsFork, NodeIsTree
  <2>14. Black(t, n) => Tree(u, l, S, h)
    BY <1>4, <2>4, <2>8, <2>13
  <2>15. \E g : Almost(u, l, S, g)
    BY <2>9, <2>13, KeysAre, TreeIsAlmost
  <2>16. Kept(t, u, S)
    BY <2>4, <2>8, KeptAll
  <2>17. QED
    BY <1>1, <1>6, <2>4, <2>8, <2>9, <2>14, <2>15, <2>16
<1>7. CASE ~(isRed(t, l) /\ isRed(t, Left(t, l))) /\ isRed(t, r)
  <2>1. v = t /\ u = flipColors(t, n) /\ isRed(t, l)
    BY <1>1, <1>2, <1>3, <1>7
  <2>2. PICK A, B : Node(t, l, L, f, A, B, f) /\ ~isRed(t, Right(t, l))
    BY <1>5, <2>1
  <2>3. PICK C, D : Node(t, r, R, f, C, D, f) /\ ~isRed(t, Right(t, r))
    BY <1>1, <1>7, RedTree
  <2>4. l \in Keys /\ r \in Keys
    BY <2>2, <2>3 DEF Node
  <2>5. /\ u \in Nodes /\ Top(u) = n /\ Freed(u) = Freed(t) /\ Kept(t, u, S)
        /\ Node(u, l, L, f + 1, A, B, f) /\ Node(u, r, R, f + 1, C, D, f)
        /\ Fork(u, n, S, (f + 1) + (IF Black(u, n) THEN 1 ELSE 0), L, R, f + 1)
        /\ Left(u, n) = l /\ Right(u, n) = r /\ (Black(u, n) <=> ~Black(t, n))
        /\ Right(u, l) = Right(t, l) /\ Right(u, r) = Right(t, r)
        /\ ~isRed(u, l) /\ ~isRed(u, r)
        /\ isRed(u, Right(t, l)) <=> isRed(t, Right(t, l))
        /\ isRed(u, Right(t, r)) <=> isRed(t, Right(t, r))
    BY <1>1, <1>7, <2>1, <2>2, <2>3, FlipRedTree
  <2>6. Tree(u, l, L, f + 1) /\ Tree(u, r, R, f + 1)
    <3>1. ~isRed(u, Right(u, l)) /\ Black(u, l) /\ ~isRed(u, Right(u, r)) /\ Black(u, r)
      BY <2>2, <2>3, <2>4, <2>5, KeysAre, RedIs
    <3>2. QED
      BY <2>5, <3>1, NodeIsTree
  <2>8. Tree(u, n, S, (f + 1) + (IF Black(u, n) THEN 1 ELSE 0))
    BY <2>5, <2>6, NodeIsFork, NodeIsTree
  <2>9. Black(t, n) => Tree(u, n, S, h)
    BY <1>4, <2>5, <2>8
  <2>10. \E g : Almost(u, n, S, g)
    BY <1>4, <2>8, KeysAre, TreeIsAlmost
  <2>11. QED
    BY <1>1, <1>4, <1>7, <2>5, <2>9, <2>10
<1>8. CASE ~(isRed(t, l) /\ isRed(t, Left(t, l))) /\ ~isRed(t, r)
  <2>1. v = t /\ u = t
    BY <1>1, <1>2, <1>3, <1>8
  <2>2. Tree(t, l, L, f)
    <3>1. CASE isRed(t, l)
      BY <1>1, <1>8, <3>1, AlmostIsTree
    <3>2. CASE ~isRed(t, l)
      BY <1>1, <3>2, AlmostIsTree, KeysAre, RedIs
    <3>3. QED
      BY <3>1, <3>2
  <2>3. Node(t, n, S, h, L, R, f)
    BY <1>1, <2>2, NodeIsFork
  <2>4. Almost(t, n, S, h) /\ (Black(t, n) => Tree(t, n, S, h))
    BY <1>1, <1>8, <2>3, NodeIsTree DEF Almost
  <2>5. Kept(t, t, S)
    BY KeptAll
  <2>6. QED
    BY <1>1, <1>4, <2>1, <2>4, <2>5
<1>9. QED
  BY <1>6, <1>7, <1>8

\* fixUp at the end of an erase, whatever the colours of the two children.
LEMMA FixUpTree ==
  ASSUME NEW t \in Nodes, NEW n, NEW S, NEW h, NEW L, NEW R, NEW f, n = Top(t),
         Node(t, n, S, h, L, R, f), NEW u, u = fixUp(t)
  PROVE  /\ u \in Nodes /\ Freed(u) = Freed(t) /\ Top(u) \in Keys /\ Kept(t, u, S)
         /\ Black(t, n) => Tree(u, Top(u), S, h)
         /\ Black(t, n) /\ ~(isRed(t, Left(t, n)) /\ isRed(t, Right(t, n)))
              => ~isRed(u, Top(u))
         /\ ~isRed(t, Left(t, n)) /\ ~isRed(t, Right(t, n)) => u = t /\ Tree(u, Top(u), S, h)
         /\ \E g : Almost(u, Top(u), S, g)
<1>1. PICK l, j : l = Left(t, n) /\ j = Right(t, n)
  OBVIOUS
<1>2. PICK v : v = IF isRed(t, j) THEN rotateLeft(t, n) ELSE t
  OBVIOUS
<1>3. u = Split(v)
  BY <1>1, <1>2 DEF fixUp, Right, Top
<1>4. /\ Fork(t, n, S, h, L, R, f) /\ Tree(t, l, L, f) /\ Tree(t, j, R, f)
      /\ n \in Keys
  BY <1>1, NodeIsFork DEF Node
<1>5. CASE isRed(t, j)
  <2>1. PICK A, B : Node(t, j, R, f, A, B, f) /\ ~isRed(t, Right(t, j)) /\ ~isRed(t, Left(t, j))
    BY <1>4, <1>5, RedTree
  <2>2. PICK M : M = L \cup {n} \cup A
    OBVIOUS
  <2>3. v = rotateLeft(t, n)
    BY <1>2, <1>5
  <2>4. /\ v \in Nodes /\ Top(v) = j /\ Freed(v) = Freed(t) /\ Kept(t, v, S)
        /\ Node(v, n, M, f, L, A, f) /\ Fork(v, j, S, h, M, B, f)
        /\ Tree(v, Right(t, j), B, f) /\ Left(v, j) = n /\ Right(v, j) = Right(t, j)
        /\ Left(v, n) = l /\ Right(v, n) = Left(t, j)
        /\ ~Black(v, n) /\ (Black(v, j) <=> Black(t, n))
        /\ ~isRed(v, Left(t, j)) /\ ~isRed(v, Right(t, j))
        /\ isRed(v, l) <=> isRed(t, l)
    BY <1>1, <1>4, <1>5, <2>1, <2>2, <2>3, RotateLeftTree
  <2>5. isRed(v, n) /\ Almost(v, n, M, f)
    BY <1>4, <2>4, KeysAre, RedIs DEF Almost
  <2>6. j \in Keys
    BY <2>4, ForkSize
  <2>7. /\ u \in Nodes /\ Freed(u) = Freed(v) /\ Top(u) \in Keys /\ Kept(v, u, S)
        /\ Black(v, j) => Tree(u, Top(u), S, h)
        /\ \E g : Almost(u, Top(u), S, g)
        /\ ~isRed(v, l) => u = v
    BY <1>3, <2>4, <2>5, SplitTree
  <2>8. Kept(t, u, S)
    BY <2>4, <2>7, KeptAll
  <2>9. Black(t, n) /\ ~isRed(t, l) => ~isRed(u, Top(u))
    BY <2>4, <2>6, <2>7, RedIs
  <2>10. QED
    BY <1>1, <1>5, <2>4, <2>7, <2>8, <2>9
<1>6. CASE ~isRed(t, j)
  <2>1. v = t
    BY <1>2, <1>6
  <2>2. isRed(t, l) => ~isRed(t, Left(t, l))
    BY <1>4, RedTree
  <2>3. /\ u \in Nodes /\ Freed(u) = Freed(t) /\ Top(u) \in Keys /\ Kept(t, u, S)
        /\ Black(t, n) => Tree(u, Top(u), S, h)
        /\ \E g : Almost(u, Top(u), S, g)
        /\ u = t
    BY <1>1, <1>3, <1>4, <1>6, <2>1, <2>2, SplitTree
  <2>4. ~isRed(t, l) => Tree(t, n, S, h)
    BY <1>1, <1>6, NodeIsTree
  <2>5. Black(t, n) => ~isRed(u, Top(u))
    BY <2>3, RedIs
  <2>6. QED
    BY <1>1, <2>3, <2>4, <2>5
<1>7. QED
  BY <1>5, <1>6

-----------------------------------------------------------------------------
(* insert *)

\* What insert does at the end of each call.
LEMMA LeanTree ==
  ASSUME NEW t \in Nodes, NEW n, NEW S, NEW h, NEW L, NEW R, NEW f, n = Top(t),
         Fork(t, n, S, h, L, R, f), Tree(t, Right(t, n), R, f),
         Tree(t, Left(t, n), L, f) \/ (Almost(t, Left(t, n), L, f) /\ ~isRed(t, Right(t, n))),
         \/ Black(t, n)
         \/ Tree(t, Left(t, n), L, f) /\ ~(isRed(t, Left(t, n)) /\ isRed(t, Right(t, n))),
         NEW u, u = Split(IF isRed(t, Right(t, n)) /\ ~isRed(t, Left(t, n))
                          THEN rotateLeft(t, n) ELSE t)
  PROVE  /\ u \in Nodes /\ Freed(u) = Freed(t) /\ Top(u) \in Keys /\ Kept(t, u, S)
         /\ Black(t, n) => Tree(u, Top(u), S, h)
         /\ Almost(u, Top(u), S, h)
<1>1. PICK l, j : l = Left(t, n) /\ j = Right(t, n)
  OBVIOUS
<1>2. n \in Keys
  BY ForkSize
<1>3. CASE isRed(t, j) /\ ~isRed(t, l)
  <2>1. PICK A, B : Node(t, j, R, f, A, B, f) /\ ~isRed(t, Right(t, j)) /\ ~isRed(t, Left(t, j))
    BY <1>1, <1>3, RedTree
  <2>2. PICK M : M = L \cup {n} \cup A
    OBVIOUS
  <2>3. PICK v : v = rotateLeft(t, n)
    OBVIOUS
  <2>4. u = Split(v)
    BY <1>1, <1>3, <2>3
  <2>5. Tree(t, l, L, f)
    BY <1>1, <1>3
  <2>6. /\ v \in Nodes /\ Top(v) = j /\ Freed(v) = Freed(t) /\ Kept(t, v, S)
        /\ Node(v, n, M, f, L, A, f) /\ Fork(v, j, S, h, M, B, f)
        /\ Tree(v, Right(t, j), B, f) /\ Left(v, j) = n /\ Right(v, j) = Right(t, j)
        /\ Left(v, n) = l /\ Right(v, n) = Left(t, j)
        /\ ~Black(v, n) /\ (Black(v, j) <=> Black(t, n))
        /\ ~isRed(v, Left(t, j)) /\ ~isRed(v, Right(t, j)) /\ ~isRed(v, l)
    BY <1>1, <1>3, <2>1, <2>2, <2>3, <2>5, RotateLeftTree
  <2>7. isRed(v, n) /\ Tree(v, n, M, f)
    BY <1>2, <2>6, KeysAre, RedIs, NodeIsTree
  <2>8. j \in Keys
    BY <2>6, ForkSize
  <2>9. u = v
    BY <2>4, <2>6, <2>7, SplitTree
  <2>10. Node(v, j, S, h, M, B, f)
    BY <2>6, <2>7, NodeIsFork
  <2>11. /\ Almost(v, j, S, h)
         /\ Black(v, j) => Tree(v, j, S, h)
    BY <2>6, <2>10, NodeIsTree DEF Almost
  <2>12. QED
    BY <2>6, <2>8, <2>9, <2>11
<1>4. CASE ~(isRed(t, j) /\ ~isRed(t, l))
  <2>1. u = Split(t)
    BY <1>1, <1>4
  <2>2. isRed(t, l) /\ isRed(t, Left(t, l)) => ~isRed(t, j)
    BY <1>1, RedTree
  <2>3. /\ u \in Nodes /\ Freed(u) = Freed(t) /\ Top(u) \in Keys /\ Kept(t, u, S)
        /\ Black(t, n) => Tree(u, Top(u), S, h)
        /\ ~isRed(t, j) /\ ~(isRed(t, l) /\ isRed(t, Left(t, l))) => u = t
    BY <1>1, <1>4, <2>1, <2>2, SplitTree
  <2>4. CASE Black(t, n)
    BY <2>3, <2>4, KeysAre, TreeIsAlmost
  <2>5. CASE ~Black(t, n)
    <3>1. Tree(t, l, L, f) /\ ~isRed(t, j)
      BY <1>1, <1>4, <2>5
    <3>2. isRed(t, l) => ~isRed(t, Left(t, l))
      BY <3>1, RedTree
    <3>3. u = t
      BY <2>3, <3>1, <3>2
    <3>4. Almost(t, n, S, h)
      BY <1>1, <3>1, NodeIsFork DEF Almost
    <3>5. QED
      BY <2>3, <2>5, <3>3, <3>4
  <2>6. QED
    BY <2>4, <2>5
<1>5. QED
  BY <1>3, <1>4

New(t, k) == [t EXCEPT !.left[k] = Nil, !.right[k] = Nil, !.black[k] = FALSE,
                       !.parent[k] = Nil, !.top = k]
Again(t, n) == [t EXCEPT !.top = n, !.freed = @ + 1]

LEMMA NewIs ==
  ASSUME NEW t \in Nodes, NEW k \in Keys, NEW u, u = New(t, k)
  PROVE  /\ u \in Nodes /\ Top(u) = k /\ Freed(u) = Freed(t)
         /\ Left(u, k) = Nil /\ Right(u, k) = Nil /\ ~Black(u, k)
         /\ \A x \in Keys : x # k => Alike(t, u, x)
<1>1. PICK l \in [Keys -> Links] : l = [t.left EXCEPT ![k] = Nil]
  BY NodesAre, KeysAre
<1>2. PICK r \in [Keys -> Links] : r = [t.right EXCEPT ![k] = Nil]
  BY NodesAre, KeysAre
<1>3. PICK b \in [Keys -> BOOLEAN] : b = [t.black EXCEPT ![k] = FALSE]
  BY NodesAre
<1>4. PICK p \in [Keys -> Links] : p = [t.parent EXCEPT ![k] = Nil]
  BY NodesAre, KeysAre
<1>5. PICK v : v = [t EXCEPT !.left = l]
  OBVIOUS
<1>6. PICK w : w = [v EXCEPT !.right = r]
  OBVIOUS
<1>7. PICK x : x = [w EXCEPT !.black = b]
  OBVIOUS
<1>8. PICK y : y = [x EXCEPT !.parent = p]
  OBVIOUS
<1>9. PICK z : z = [y EXCEPT !.top = k]
  OBVIOUS
<1>10. Has(v, l, t.right, t.black, t.parent, t.top, t.freed)
  BY <1>5, NodesAre, PutLeft
<1>11. Has(w, l, r, t.black, t.parent, t.top, t.freed)
  BY <1>6, <1>10, PutRight
<1>12. Has(x, l, r, b, t.parent, t.top, t.freed)
  BY <1>7, <1>11, PutBlack
<1>13. Has(y, l, r, b, p, t.top, t.freed)
  BY <1>8, <1>12, PutParent
<1>14. Has(z, l, r, b, p, k, t.freed)
  BY <1>9, <1>13, KeysAre, PutTop
<1>15. u = z
  <2>1. v.right = t.right /\ w.black = t.black /\ x.parent = t.parent
    BY <1>10, <1>11, <1>12 DEF Has
  <2>2. QED
    BY <1>1, <1>2, <1>3, <1>4, <1>5, <1>6, <1>7, <1>8, <1>9, <2>1 DEF New
<1>16. /\ l[k] = Nil /\ r[k] = Nil /\ ~b[k]
       /\ \A q \in Keys \ {k} : l[q] = t.left[q] /\ r[q] = t.right[q] /\ (b[q] <=> t.black[q])
  BY <1>1, <1>2, <1>3, NodesAre
<1>17. QED
  BY <1>14, <1>15, <1>16 DEF Has, Alike, Left, Right, Black, Top, Freed

LEMMA AgainIs ==
  ASSUME NEW t \in Nodes, NEW n \in Keys, NEW u, u = Again(t, n)
  PROVE  /\ u \in Nodes /\ Top(u) = n /\ Freed(u) = Freed(t) + 1
         /\ \A x \in Keys : Alike(t, u, x)
<1>1. PICK v : v = [t EXCEPT !.top = n]
  OBVIOUS
<1>2. PICK w : w = [v EXCEPT !.freed = t.freed + 1]
  OBVIOUS
<1>3. Has(v, t.left, t.right, t.black, t.parent, n, t.freed)
  BY <1>1, NodesAre, KeysAre, PutTop
<1>4. t.freed + 1 \in Nat
  BY NodesAre
<1>5. Has(w, t.left, t.right, t.black, t.parent, n, t.freed + 1)
  BY <1>2, <1>3, <1>4, PutFreed
<1>6. u = w
  <2>1. v.freed = t.freed
    BY <1>3 DEF Has
  <2>2. QED
    BY <1>1, <1>2, <2>1 DEF Again
<1>7. QED
  BY <1>5, <1>6 DEF Has, Alike, Left, Right, Black, Top, Freed

LEMMA InsertIs ==
  ASSUME NEW c, NEW t \in Nodes, NEW n \in Links, NEW k \in Keys
  PROVE  /\ n = Nil => insert(c)[t][n][k] = New(t, k)
         /\ n # Nil => \E v : /\ k < n => v = WithLeft(c.insert[t][Left(t, n)][k], n)
                              /\ ~(k < n) /\ k > n => v = WithRight(c.insert[t][Right(t, n)][k], n)
                              /\ ~(k < n) /\ ~(k > n) => v = Again(t, n)
                              /\ insert(c)[t][n][k]
                                   = Split(IF isRed(v, Right(v, n)) /\ ~isRed(v, Left(v, n))
                                           THEN rotateLeft(v, n) ELSE v)
<1>1. PICK v : v = IF k < n THEN WithLeft(c.insert[t][t.left[n]][k], n)
                   ELSE IF k > n THEN WithRight(c.insert[t][t.right[n]][k], n)
                   ELSE [t EXCEPT !.top = n, !.freed = @ + 1]
  OBVIOUS
<1>2. insert(c)[t][n][k] =
        IF n = Nil
        THEN [t EXCEPT !.left[k] = Nil, !.right[k] = Nil, !.black[k] = FALSE,
                       !.parent[k] = Nil, !.top = k]
        ELSE LET w == IF k < n THEN WithLeft(c.insert[t][t.left[n]][k], n)
                      ELSE IF k > n THEN WithRight(c.insert[t][t.right[n]][k], n)
                      ELSE [t EXCEPT !.top = n, !.freed = @ + 1]
             IN Split(IF isRed(w, w.right[n]) /\ ~isRed(w, w.left[n])
                      THEN rotateLeft(w, n) ELSE w)
  BY DEF insert
<1>3. n = Nil => insert(c)[t][n][k] = New(t, k)
  BY <1>2 DEF New
<1>4. n # Nil => insert(c)[t][n][k]
                   = Split(IF isRed(v, v.right[n]) /\ ~isRed(v, v.left[n])
                           THEN rotateLeft(v, n) ELSE v)
  BY <1>1, <1>2
<1>5. /\ k < n => v = WithLeft(c.insert[t][Left(t, n)][k], n)
      /\ ~(k < n) /\ k > n => v = WithRight(c.insert[t][Right(t, n)][k], n)
      /\ ~(k < n) /\ ~(k > n) => v = Again(t, n)
  BY <1>1 DEF Again, Left, Right
<1>6. v.right[n] = Right(v, n) /\ v.left[n] = Left(v, n)
  BY DEF Left, Right
<1>7. QED
  BY <1>3, <1>4, <1>5, <1>6

\* What a call of insert does to a tree of nodes S.
Inserted(t, n, k, S, h, T, u) ==
  /\ u \in Nodes /\ Top(u) \in Keys /\ Kept(t, u, T)
  /\ Freed(u) = Freed(t) + (IF k \in S THEN 1 ELSE 0)
  /\ Almost(u, Top(u), T, h)
  /\ n = Nil \/ Black(t, n) => Tree(u, Top(u), T, h)

Inserts(d) ==
  \A t, n, k, S, h, T : /\ t \in Nodes /\ k \in Keys /\ T = S \cup {k}
                        /\ Tree(t, n, S, h) /\ Cardinality(S) <= d
                        => Inserted(t, n, k, S, h, T, Calls[d].insert[t][n][k])


LEMMA SameAlmost ==
  ASSUME NEW t, NEW u, NEW n, NEW S, NEW h, Almost(t, n, S, h), Same(t, u, S)
  PROVE  Almost(u, n, S, h)
<1>1. PICK L, R, f : Node(t, n, S, h, L, R, f) /\ ~isRed(t, Right(t, n))
  BY DEF Almost
<1>2. Node(u, n, S, h, L, R, f) /\ ~isRed(u, Right(u, n))
  BY <1>1, SameNode
<1>3. QED
  BY <1>2 DEF Almost

\* A single new node.
LEMMA NewTree ==
  ASSUME NEW t \in Nodes, NEW k \in Keys, NEW S, S = {k}, NEW u, u = New(t, k)
  PROVE  Inserted(t, Nil, k, {}, 1, S, u)
<1>1. /\ u \in Nodes /\ Top(u) = k /\ Freed(u) = Freed(t)
      /\ Left(u, k) = Nil /\ Right(u, k) = Nil /\ ~Black(u, k)
      /\ \A x \in Keys : x # k => Alike(t, u, x)
  BY NewIs
<1>2. Tree(u, Left(u, k), {}, 1) /\ Tree(u, Right(u, k), {}, 1)
  BY <1>1, NilIsTree
<1>3. Node(u, k, S, 1, {}, {}, 1)
  BY <1>1, <1>2 DEF Node
<1>4. ~isRed(u, Right(u, k)) /\ ~isRed(u, Left(u, k))
  BY <1>1, RedIs
<1>5. Tree(u, k, S, 1)
  BY <1>3, <1>4, NodeIsTree
<1>6. Almost(u, k, S, 1)
  BY <1>3, <1>4 DEF Almost
<1>7. Kept(t, u, S)
  BY <1>1 DEF Kept
<1>8. Freed(u) = Freed(t) + 0
  BY <1>1, NodesAre DEF Freed
<1>9. QED
  BY <1>1, <1>5, <1>6, <1>7, <1>8 DEF Inserted

\* Insertion on the left of n.
LEMMA InsertLeft ==
  ASSUME NEW t \in Nodes, NEW n, NEW k \in Keys, NEW S, NEW h, NEW T, NEW L, NEW R, NEW f,
         T = S \cup {k}, Node(t, n, S, h, L, R, f), k < n,
         ~isRed(t, Right(t, n)), Black(t, n) \/ ~isRed(t, Left(t, n)),
         NEW M, M = L \cup {k}, NEW w, Inserted(t, Left(t, n), k, L, f, M, w),
         NEW v, v = WithLeft(w, n),
         NEW u, u = Split(IF isRed(v, Right(v, n)) /\ ~isRed(v, Left(v, n))
                          THEN rotateLeft(v, n) ELSE v)
  PROVE  Inserted(t, n, k, S, h, T, u)
<1>1. /\ n \in Keys /\ n \in S /\ n \notin L /\ n \notin R /\ L \cap R = {}
      /\ S \subseteq Keys /\ S = L \cup {n} \cup R
      /\ (\A x \in L : x < n) /\ (\A x \in R : n < x)
      /\ Tree(t, Left(t, n), L, f) /\ Tree(t, Right(t, n), R, f)
      /\ f \in Nat \ {0} /\ h = f + (IF Black(t, n) THEN 1 ELSE 0)
  BY NodeSize DEF Node
<1>2. /\ w \in Nodes /\ Top(w) \in Keys /\ Kept(t, w, M)
      /\ Freed(w) = Freed(t) + (IF k \in L THEN 1 ELSE 0)
      /\ Almost(w, Top(w), M, f)
      /\ Left(t, n) = Nil \/ Black(t, Left(t, n)) => Tree(w, Top(w), M, f)
  BY DEF Inserted
<1>3. /\ v \in Nodes /\ Top(v) = n /\ Freed(v) = Freed(w)
      /\ Left(v, n) = Top(w) /\ Right(v, n) = Right(w, n) /\ (Black(v, n) <=> Black(w, n))
      /\ \A x \in Keys : x # n => Alike(w, v, x)
  BY <1>1, <1>2, WithLeftIs
<1>4. /\ n \notin M /\ M \cap R = {} /\ M \subseteq Keys /\ R \subseteq Keys /\ k \notin R /\ k # n
      /\ T = M \cup {n} \cup R /\ T \subseteq Keys /\ (k \in S <=> k \in L)
      /\ \A x \in M : x < n
  <2>0. k \in Nat /\ n \in Nat /\ R \subseteq Nat
    BY <1>1, KeysAre
  <2>1. k # n /\ \A x \in R : ~(x < n)
    BY <1>1, <2>0
  <2>2. QED
    BY <1>1, <2>1
<1>5. Same(t, v, R) /\ Same(w, v, M) /\ Kept(t, v, T)
      /\ Right(v, n) = Right(t, n) /\ (Black(v, n) <=> Black(t, n))
  BY <1>2, <1>3, <1>4, <1>1 DEF Same, Kept, Alike
<1>6. Tree(v, Right(v, n), R, f) /\ ~isRed(v, Right(v, n))
  <2>1. Right(t, n) \in R \cup {Nil}
    BY <1>1, NilIsTree
  <2>2. QED
    BY <1>1, <1>5, <2>1, SameTree, RedIs DEF Same, Alike
<1>7. Almost(v, Left(v, n), M, f)
  BY <1>2, <1>3, <1>5, SameAlmost
<1>8. Black(v, n) \/ Tree(v, Left(v, n), M, f)
  BY <1>2, <1>3, <1>5, SameTree, RedIs
<1>9. Fork(v, n, T, h, M, R, f)
  <2>1. Loose(v, Left(v, n), M, f) /\ Loose(v, Right(v, n), R, f)
    BY <1>6, <1>7 DEF Loose, Almost
  <2>2. QED
    BY <1>1, <1>4, <1>5, <2>1 DEF Fork
<1>10. /\ u \in Nodes /\ Freed(u) = Freed(v) /\ Top(u) \in Keys /\ Kept(v, u, T)
       /\ Black(v, n) => Tree(u, Top(u), T, h)
       /\ Almost(u, Top(u), T, h)
  BY <1>3, <1>6, <1>7, <1>8, <1>9, LeanTree
<1>11. Kept(t, u, T)
  BY <1>5, <1>10, KeptAll
<1>12. Freed(u) = Freed(t) + (IF k \in S THEN 1 ELSE 0)
  BY <1>2, <1>3, <1>4, <1>10
<1>13. n # Nil
  BY <1>1, KeysAre
<1>14. QED
  BY <1>5, <1>10, <1>11, <1>12, <1>13 DEF Inserted

LEMMA InsertRight ==
  ASSUME NEW t \in Nodes, NEW n, NEW k \in Keys, NEW S, NEW h, NEW T, NEW L, NEW R, NEW f,
         T = S \cup {k}, Node(t, n, S, h, L, R, f), n < k,
         ~isRed(t, Right(t, n)), Black(t, n) \/ ~isRed(t, Left(t, n)),
         NEW M, M = R \cup {k}, NEW w, Inserted(t, Right(t, n), k, R, f, M, w),
         NEW v, v = WithRight(w, n),
         NEW u, u = Split(IF isRed(v, Right(v, n)) /\ ~isRed(v, Left(v, n))
                          THEN rotateLeft(v, n) ELSE v)
  PROVE  Inserted(t, n, k, S, h, T, u)
<1>1. /\ n \in Keys /\ n \in S /\ n \notin L /\ n \notin R /\ L \cap R = {}
      /\ S \subseteq Keys /\ S = L \cup {n} \cup R
      /\ (\A x \in L : x < n) /\ (\A x \in R : n < x)
      /\ Tree(t, Left(t, n), L, f) /\ Tree(t, Right(t, n), R, f)
      /\ f \in Nat \ {0} /\ h = f + (IF Black(t, n) THEN 1 ELSE 0)
  BY NodeSize DEF Node
<1>2. /\ w \in Nodes /\ Top(w) \in Keys /\ Kept(t, w, M)
      /\ Freed(w) = Freed(t) + (IF k \in R THEN 1 ELSE 0)
      /\ Tree(w, Top(w), M, f)
  BY RedIs DEF Inserted
<1>3. /\ v \in Nodes /\ Top(v) = n /\ Freed(v) = Freed(w)
      /\ Left(v, n) = Left(w, n) /\ Right(v, n) = Top(w) /\ (Black(v, n) <=> Black(w, n))
      /\ \A x \in Keys : x # n => Alike(w, v, x)
  BY <1>1, <1>2, WithRightIs
<1>4. /\ n \notin M /\ M \cap L = {} /\ M \subseteq Keys /\ L \subseteq Keys /\ k \notin L /\ k # n
      /\ T = L \cup {n} \cup M /\ T \subseteq Keys /\ (k \in S <=> k \in R)
      /\ \A x \in M : n < x
  <2>0. k \in Nat /\ n \in Nat /\ L \subseteq Nat
    BY <1>1, KeysAre
  <2>1. k # n /\ \A x \in L : ~(n < x)
    BY <1>1, <2>0
  <2>2. QED
    BY <1>1, <2>1
<1>5. Same(t, v, L) /\ Same(w, v, M) /\ Kept(t, v, T)
      /\ Left(v, n) = Left(t, n) /\ (Black(v, n) <=> Black(t, n))
  BY <1>2, <1>3, <1>4, <1>1 DEF Same, Kept, Alike
<1>6. /\ Tree(v, Left(v, n), L, f)
      /\ isRed(v, Left(v, n)) <=> isRed(t, Left(t, n))
  <2>1. Left(t, n) \in L \cup {Nil}
    BY <1>1, NilIsTree
  <2>2. QED
    BY <1>1, <1>5, <2>1, SameTree, RedIs DEF Same, Alike
<1>7. Tree(v, Right(v, n), M, f)
  BY <1>2, <1>3, <1>5, SameTree
<1>9. Fork(v, n, T, h, L, M, f)
  <2>1. Loose(v, Left(v, n), L, f) /\ Loose(v, Right(v, n), M, f)
    BY <1>6, <1>7 DEF Loose
  <2>2. QED
    BY <1>1, <1>4, <1>5, <2>1 DEF Fork
<1>10. /\ u \in Nodes /\ Freed(u) = Freed(v) /\ Top(u) \in Keys /\ Kept(v, u, T)
       /\ Black(v, n) => Tree(u, Top(u), T, h)
       /\ Almost(u, Top(u), T, h)
  BY <1>3, <1>5, <1>6, <1>7, <1>9, LeanTree
<1>11. Kept(t, u, T)
  BY <1>5, <1>10, KeptAll
<1>12. Freed(u) = Freed(t) + (IF k \in S THEN 1 ELSE 0)
  BY <1>2, <1>3, <1>4, <1>10
<1>13. n # Nil
  BY <1>1, KeysAre
<1>14. QED
  BY <1>5, <1>10, <1>11, <1>12, <1>13 DEF Inserted

LEMMA InsertHere ==
  ASSUME NEW t \in Nodes, NEW n, NEW S, NEW h, Tree(t, n, S, h), n # Nil,
         NEW v, v = Again(t, n),
         NEW u, u = Split(IF isRed(v, Right(v, n)) /\ ~isRed(v, Left(v, n))
                          THEN rotateLeft(v, n) ELSE v)
  PROVE  Inserted(t, n, n, S, h, S, u)
<1>1. PICK L, R, f : /\ Node(t, n, S, h, L, R, f)
                     /\ ~isRed(t, Right(t, n)) /\ (Black(t, n) \/ ~isRed(t, Left(t, n)))
  BY TreeIsNode
<1>2. n \in Keys /\ n \in S /\ S \subseteq Keys
  BY <1>1, NodeSize DEF Node
<1>3. /\ v \in Nodes /\ Top(v) = n /\ Freed(v) = Freed(t) + 1
      /\ \A x \in Keys : Alike(t, v, x)
  BY <1>2, AgainIs
<1>4. Same(t, v, S) /\ Kept(t, v, S) /\ (Black(v, n) <=> Black(t, n))
  BY <1>2, <1>3 DEF Same, Kept, Alike
<1>5. /\ Node(v, n, S, h, L, R, f)
      /\ ~isRed(v, Right(v, n)) /\ (Black(v, n) \/ ~isRed(v, Left(v, n)))
  BY <1>1, <1>4, SameNode
<1>6. Fork(v, n, S, h, L, R, f) /\ Tree(v, Left(v, n), L, f) /\ Tree(v, Right(v, n), R, f)
  BY <1>5, NodeIsFork
<1>7. /\ u \in Nodes /\ Freed(u) = Freed(v) /\ Top(u) \in Keys /\ Kept(v, u, S)
      /\ Black(v, n) => Tree(u, Top(u), S, h)
      /\ Almost(u, Top(u), S, h)
  BY <1>3, <1>5, <1>6, LeanTree
<1>8. Kept(t, u, S)
  BY <1>4, <1>7, KeptAll
<1>9. QED
  BY <1>2, <1>3, <1>4, <1>7, <1>8 DEF Inserted

LEMMA InsertStep ==
  ASSUME NEW d \in Nat, d # 0 => Inserts(d - 1)
  PROVE  Inserts(d)
<1>1. SUFFICES ASSUME NEW t, NEW n, NEW k, NEW S, NEW h, NEW T,
                      t \in Nodes, k \in Keys, T = S \cup {k},
                      Tree(t, n, S, h), Cardinality(S) <= d
               PROVE  Inserted(t, n, k, S, h, T, Calls[d].insert[t][n][k])
  BY DEF Inserts
<1>2. PICK c : (d # 0 => c = Calls[d - 1]) /\ Calls[d].insert = insert(c)
  BY CallsAre
<1>3. PICK u : u = insert(c)[t][n][k]
  OBVIOUS
<1>4. SUFFICES Inserted(t, n, k, S, h, T, u)
  BY <1>2, <1>3
<1>5. n \in Links
  BY <1>1, NilIsTree
<1>6. CASE n = Nil
  <2>4. Tree(t, n, S, h)
    BY <1>1
  <2>0. n = Nil \/ S = {} => n = Nil /\ S = {} /\ h = 1
    BY <2>4, NilIsTree
  <2>1. S = {} /\ h = 1 /\ T = {k}
    BY <1>1, <1>6, <2>0
  <2>2. u = New(t, k)
    BY <1>1, <1>3, <1>5, <1>6, InsertIs
  <2>3. QED
    BY <1>1, <1>6, <2>1, <2>2, NewTree
<1>7. CASE n # Nil
  <2>1. PICK L, R, f : /\ Node(t, n, S, h, L, R, f)
                       /\ ~isRed(t, Right(t, n)) /\ (Black(t, n) \/ ~isRed(t, Left(t, n)))
    BY <1>1, <1>7, TreeIsNode
  <2>2. Tree(t, Left(t, n), L, f) /\ Tree(t, Right(t, n), R, f) /\ n \in Keys
    BY <2>1 DEF Node
  <2>3. /\ Cardinality(L) \in Nat /\ Cardinality(R) \in Nat /\ Cardinality(S) \in Nat
        /\ Cardinality(S) = Cardinality(L) + 1 + Cardinality(R)
    BY <2>1, NodeSize
  <2>4. Cardinality(L) <= d - 1 /\ Cardinality(R) <= d - 1 /\ d # 0
    BY <1>1, <2>3
  <2>5. PICK M, N : M = L \cup {k} /\ N = R \cup {k}
    OBVIOUS
  <2>6. /\ Inserted(t, Left(t, n), k, L, f, M, c.insert[t][Left(t, n)][k])
        /\ Inserted(t, Right(t, n), k, R, f, N, c.insert[t][Right(t, n)][k])
    BY <1>1, <1>2, <2>2, <2>4, <2>5 DEF Inserts
  <2>7. PICK v : /\ k < n => v = WithLeft(c.insert[t][Left(t, n)][k], n)
                 /\ ~(k < n) /\ k > n => v = WithRight(c.insert[t][Right(t, n)][k], n)
                 /\ ~(k < n) /\ ~(k > n) => v = Again(t, n)
                 /\ u = Split(IF isRed(v, Right(v, n)) /\ ~isRed(v, Left(v, n))
                              THEN rotateLeft(v, n) ELSE v)
    BY <1>1, <1>3, <1>5, <1>7, InsertIs
  <2>8. CASE k < n
    <3>1. v = WithLeft(c.insert[t][Left(t, n)][k], n)
      BY <2>7, <2>8
    <3>2. QED
      BY <1>1, <2>1, <2>5, <2>6, <2>7, <2>8, <3>1, InsertLeft
  <2>9. CASE n < k
    <3>1. v = WithRight(c.insert[t][Right(t, n)][k], n)
      BY <1>1, <2>2, <2>7, <2>9, KeysAre
    <3>2. QED
      BY <1>1, <2>1, <2>5, <2>6, <2>7, <2>9, <3>1, InsertRight
  <2>10. CASE k = n
    <3>1. v = Again(t, n)
      BY <1>1, <2>2, <2>7, <2>10, KeysAre
    <3>2. T = S
      BY <1>1, <2>1, <2>10, NodeSize
    <3>3. QED
      BY <1>1, <1>7, <2>7, <2>10, <3>1, <3>2, InsertHere
  <2>11. QED
    BY <1>1, <2>2, <2>8, <2>9, <2>10, KeysAre
<1>8. QED
  BY <1>6, <1>7

\* By induction on the depth of the calls.
LEMMA AllInsert == \A d \in Nat : Inserts(d)
<1> DEFINE S == {d \in Nat : Inserts(d)}
<1>1. 0 \in S
  BY InsertStep
<1>2. ASSUME NEW d \in Nat, d \in S PROVE d + 1 \in S
  <2>1. (d + 1) - 1 = d /\ d + 1 \in Nat
    OBVIOUS
  <2>2. Inserts((d + 1) - 1)
    BY <1>2, <2>1
  <2>3. QED
    BY <2>1, <2>2, InsertStep
<1>3. \A d \in Nat : d \in S
  <2> HIDE DEF S
  <2>1. QED
    BY <1>1, <1>2, Induction
<1>4. QED
  BY <1>3

-----------------------------------------------------------------------------
(* erase and eraseMin: what they do on the way down. *)

\* A call on n finds it or its left child red.
Ready(t, n) == isRed(t, n) \/ isRed(t, Left(t, n))

LEMMA ReadyLeftIs ==
  ASSUME NEW t, NEW n, NEW v, v = flipColors(t, n), NEW x, x = rotateRight(v, Right(v, n)),
         NEW y, y = WithRight(x, n), NEW z, z = rotateLeft(y, n)
  PROVE  ReadyLeft(t, n) = IF ~isRed(t, Left(t, n)) /\ ~isRed(t, Left(t, Left(t, n)))
                           THEN (IF isRed(v, Left(v, Right(v, n)))
                                 THEN flipColors(z, Top(z)) ELSE v)
                           ELSE [t EXCEPT !.top = n]
BY DEF ReadyLeft, moveRedLeft, Left, Right, Top

LEMMA MoveRedRightIs ==
  ASSUME NEW t, NEW n, NEW v, v = flipColors(t, n), NEW x, x = rotateRight(v, n)
  PROVE  moveRedRight(t, n) = IF isRed(v, Left(v, Left(v, n))) THEN flipColors(x, Top(x)) ELSE v
BY DEF moveRedRight, Left, Right, Top

\* Both children are black: each has the height f - 1 below it.
LEMMA BlackChildren ==
  ASSUME NEW t, NEW n, NEW S, NEW h, NEW L, NEW R, NEW f, Node(t, n, S, h, L, R, f),
         ~isRed(t, Left(t, n)), ~isRed(t, Right(t, n)),
         Left(t, n) # Nil \/ Right(t, n) # Nil
  PROVE  /\ Left(t, n) # Nil /\ Right(t, n) # Nil
         /\ \E A, B, e : Node(t, Left(t, n), L, f, A, B, e) /\ ~isRed(t, Right(t, Left(t, n)))
         /\ \E C, D, d : Node(t, Right(t, n), R, f, C, D, d) /\ ~isRed(t, Right(t, Right(t, n)))
<1>1. Tree(t, Left(t, n), L, f) /\ Tree(t, Right(t, n), R, f)
  BY DEF Node
<1>2. ASSUME NEW m, NEW T, Tree(t, m, T, f), ~isRed(t, m)
      PROVE  /\ m = Nil => f = 1
             /\ m # Nil => /\ f # 1
                           /\ \E A, B, e : Node(t, m, T, f, A, B, e) /\ ~isRed(t, Right(t, m))
  <2>1. m = Nil => f = 1
    BY <1>2, NilIsTree
  <2>2. SUFFICES ASSUME m # Nil
                 PROVE  /\ f # 1
                        /\ \E A, B, e : Node(t, m, T, f, A, B, e) /\ ~isRed(t, Right(t, m))
    BY <2>1
  <2>3. PICK A, B, e : Node(t, m, T, f, A, B, e) /\ ~isRed(t, Right(t, m))
    BY <1>2, <2>2, TreeIsNode
  <2>4. e \in Nat \ {0} /\ f = e + (IF Black(t, m) THEN 1 ELSE 0) /\ Black(t, m)
    BY <1>2, <2>2, <2>3, RedIs DEF Node
  <2>5. QED
    BY <2>3, <2>4
<1>3. QED
  BY <1>1, <1>2

LEMMA NodeSides ==
  ASSUME NEW t, NEW n, NEW S, NEW h, NEW L, NEW R, NEW f, Node(t, n, S, h, L, R, f)
  PROVE  /\ n \in Keys
         /\ \A x \in S : x < n => x \in L
         /\ \A x \in S : n < x => x \in R
         /\ \A x \in S : x # n => x \in L \cup R
         /\ \A x \in L : x < n /\ x # n /\ ~(n < x)
         /\ \A x \in R : n < x /\ x # n /\ ~(x < n)
<1>1. /\ n \in Keys /\ S = L \cup {n} \cup R
      /\ (\A x \in L : x < n) /\ (\A x \in R : n < x)
  BY DEF Node
<1>2. L \subseteq Keys /\ R \subseteq Keys
  BY NodeSize
<1>3. n \in Nat /\ L \subseteq Nat /\ R \subseteq Nat
  BY <1>1, <1>2, KeysAre
<1>4. QED
  BY <1>1, <1>3

\* The way to a left child.
Readied(t, n, S, h, u) ==
  \E m, L, R, g, e :
    /\ u \in Nodes /\ m = Top(u) /\ Freed(u) = Freed(t) /\ Kept(t, u, S)
    /\ Node(u, m, S, e, L, R, g)
    /\ Left(u, m) # Nil /\ Ready(u, Left(u, m))
    /\ \A x \in S : x < n => x \in L
    /\ \/ /\ e = h /\ (Black(u, m) <=> Black(t, n)) /\ ~isRed(u, Right(u, m))
          /\ Black(t, n) \/ Black(u, Left(u, m))
       \/ e = h /\ Black(u, m) /\ ~Black(t, n)
       \/ ~Ready(t, n)

LEMMA ReadiedFlip ==
  ASSUME NEW t \in Nodes, NEW n, NEW S, NEW h, NEW L, NEW R, NEW f, NEW l, NEW r,
         NEW A, NEW B, NEW e, NEW C, NEW D, NEW d,
         Node(t, n, S, h, L, R, f), l = Left(t, n), r = Right(t, n),
         Node(t, l, L, f, A, B, e), Node(t, r, R, f, C, D, d),
         ~isRed(t, l), ~isRed(t, r), ~isRed(t, Left(t, l)), ~isRed(t, Right(t, l)),
         ~isRed(t, Left(t, r)), ~isRed(t, Right(t, r)),
         NEW u, u = flipColors(t, n)
  PROVE  Readied(t, n, S, h, u)
<1>1. Fork(t, n, S, h, L, R, f) /\ n \in Keys /\ n # Nil
  BY NodeIsFork, KeysAre DEF Node
<1>2. l \in Keys /\ l # Nil /\ r \in Keys /\ r # Nil
  BY KeysAre DEF Node
<1>3. PICK g : g = f - 1
  OBVIOUS
<1>4. PICK j : j = g + (IF Black(u, n) THEN 1 ELSE 0)
  OBVIOUS
<1>5. /\ u \in Nodes /\ Top(u) = n /\ Freed(u) = Freed(t)
      /\ Kept(t, u, S)
      /\ Node(u, l, L, g, A, B, g) /\ Node(u, r, R, g, C, D, g)
      /\ Fork(u, n, S, j, L, R, g)
      /\ Left(u, n) = l /\ Right(u, n) = r /\ (Black(u, n) <=> ~Black(t, n))
      /\ Left(u, l) = Left(t, l) /\ Right(u, l) = Right(t, l)
      /\ Left(u, r) = Left(t, r) /\ Right(u, r) = Right(t, r)
      /\ isRed(u, l)
      /\ ~isRed(u, Left(t, l)) /\ ~isRed(u, Right(t, l))
      /\ ~isRed(u, Left(t, r)) /\ ~isRed(u, Right(t, r))
  BY <1>1, <1>3, <1>4, FlipBlackTree
<1>6. Tree(u, l, L, g) /\ Tree(u, r, R, g)
  BY <1>5, NodeIsTree
<1>7. Node(u, n, S, j, L, R, g)
  BY <1>5, <1>6, NodeIsFork
<1>8. \A x \in S : x < n => x \in L
  BY NodeSides
<1>9. ~Black(t, n) => j = h
  <2>1. f \in Nat /\ h = f + (IF Black(t, n) THEN 1 ELSE 0)
    BY DEF Node
  <2>2. QED
    BY <1>3, <1>4, <1>5, <2>1
<1>10. Black(t, n) => ~Ready(t, n)
  BY RedIs DEF Ready
<1>11. Ready(u, l) /\ Left(u, n) # Nil
  BY <1>2, <1>5 DEF Ready
<1>12. QED
  BY <1>5, <1>7, <1>8, <1>9, <1>10, <1>11 DEF Readied

\* The left child of the right child takes n's place.
LEMMA ReadiedMove ==
  ASSUME NEW t \in Nodes, NEW n, NEW S, NEW h, NEW L, NEW R, NEW f, NEW l, NEW r,
         NEW A, NEW B, NEW e, NEW C, NEW D, NEW d,
         Node(t, n, S, h, L, R, f), l = Left(t, n), r = Right(t, n),
         Node(t, l, L, f, A, B, e), Node(t, r, R, f, C, D, d),
         ~isRed(t, l), ~isRed(t, r), ~isRed(t, Left(t, l)), ~isRed(t, Right(t, l)),
         isRed(t, Left(t, r)), ~isRed(t, Right(t, r)),
         NEW v, v = flipColors(t, n), NEW x, x = rotateRight(v, Right(v, n)),
         NEW y, y = WithRight(x, n), NEW z, z = rotateLeft(y, n),
         NEW u, u = flipColors(z, Top(z))
  PROVE  Readied(t, n, S, h, u)
<1>1. /\ Fork(t, n, S, h, L, R, f) /\ n \in Keys /\ n # Nil
      /\ f \in Nat /\ h = f + (IF Black(t, n) THEN 1 ELSE 0)
  BY NodeIsFork, KeysAre DEF Node
<1>2. l \in Keys /\ l # Nil /\ r \in Keys /\ r # Nil
  BY KeysAre DEF Node
<1>3. PICK g, q : g = f - 1 /\ q = Left(t, r)
  OBVIOUS
<1>4. PICK j : j = g + (IF Black(v, n) THEN 1 ELSE 0)
  OBVIOUS
<1>5. /\ v \in Nodes /\ Freed(v) = Freed(t)
      /\ Kept(t, v, S)
      /\ Node(v, l, L, g, A, B, g) /\ Node(v, r, R, g, C, D, g)
      /\ Fork(v, n, S, j, L, R, g)
      /\ Left(v, n) = l /\ Right(v, n) = r /\ (Black(v, n) <=> ~Black(t, n))
      /\ Left(v, l) = Left(t, l) /\ Right(v, l) = Right(t, l)
      /\ Left(v, r) = q /\ Right(v, r) = Right(t, r)
      /\ isRed(v, l)
      /\ ~isRed(v, Left(t, l)) /\ ~isRed(v, Right(t, l))
      /\ isRed(v, q) /\ ~isRed(v, Right(t, r))
  BY <1>1, <1>3, <1>4, FlipBlackTree
<1>6. Tree(v, l, L, g)
  BY <1>5, NodeIsTree
<1>7. Fork(v, r, R, g, C, D, g) /\ Tree(v, q, C, g) /\ Tree(v, Right(v, r), D, g)
  BY <1>5, NodeIsFork
<1>8. PICK E, F : Node(v, q, C, g, E, F, g) /\ ~isRed(v, Right(v, q)) /\ ~isRed(v, Left(v, q))
  BY <1>5, <1>7, RedTree
<1>9. PICK M : M = F \cup {r} \cup D
  OBVIOUS
<1>10. /\ x \in Nodes /\ Top(x) = q /\ Freed(x) = Freed(v) /\ Kept(v, x, R)
       /\ Node(x, r, M, g, F, D, g) /\ Fork(x, q, R, g, E, M, g)
       /\ Tree(x, Left(v, q), E, g)
       /\ Left(x, q) = Left(v, q) /\ Right(x, q) = r
       /\ Left(x, r) = Right(v, q) /\ Right(x, r) = Right(v, r)
       /\ ~Black(x, r) /\ (Black(x, q) <=> Black(v, r))
       /\ ~isRed(x, Left(v, q)) /\ ~isRed(x, Right(v, q)) /\ ~isRed(x, Right(v, r))
  BY <1>5, <1>7, <1>8, <1>9, RotateRightTree
<1>11. Tree(x, r, M, g)
  BY <1>10, NodeIsTree
<1>12. Node(x, q, R, g, E, M, g)
  BY <1>10, <1>11, NodeIsFork
<1>13. /\ n \in S /\ n \notin L /\ n \notin R /\ L \cap R = {} /\ S = L \cup {n} \cup R
       /\ S \subseteq Keys /\ (\A i \in L : i < n) /\ (\A i \in R : n < i)
  BY NodeSize DEF Node
<1>14. q \in Keys /\ q \in R
  BY <1>12, NodeSize DEF Node
<1>15. /\ y \in Nodes /\ Freed(y) = Freed(x)
       /\ Left(y, n) = Left(x, n) /\ Right(y, n) = q /\ (Black(y, n) <=> Black(x, n))
       /\ \A i \in Keys : i # n => Alike(x, y, i)
  BY <1>1, <1>10, WithRightIs
<1>16. /\ Same(x, y, R) /\ Same(v, y, L) /\ Kept(v, y, S)
       /\ Left(y, n) = l /\ (Black(y, n) <=> Black(v, n))
  BY <1>5, <1>10, <1>13, <1>15 DEF Same, Kept, Alike
<1>17. Node(y, q, R, g, E, M, g) /\ (isRed(y, q) <=> isRed(x, q))
       /\ (isRed(y, Left(y, q)) <=> isRed(x, Left(x, q)))
       /\ (isRed(y, Right(y, q)) <=> isRed(x, Right(x, q)))
       /\ Left(y, q) = Left(x, q) /\ Right(y, q) = Right(x, q)
  BY <1>12, <1>14, <1>16, SameNode DEF Same, Alike
<1>18. Tree(y, l, L, g) /\ isRed(y, l)
  <2>1. l \in L
    BY <1>2, NodeSize
  <2>2. QED
    BY <1>5, <1>6, <1>16, <2>1, SameTree, RedIs DEF Same, Alike
<1>19. Node(y, r, M, g, F, D, g) /\ (isRed(y, r) <=> isRed(x, r))
       /\ (isRed(y, Left(y, r)) <=> isRed(x, Left(x, r)))
       /\ (isRed(y, Right(y, r)) <=> isRed(x, Right(x, r)))
       /\ Left(y, r) = Left(x, r) /\ Right(y, r) = Right(x, r)
  <2>1. M \subseteq R /\ r \in R
    BY <1>2, <1>9, <1>8, <1>12, NodeSize DEF Node
  <2>2. Same(x, y, M)
    BY <1>16, <2>1 DEF Same
  <2>3. Left(y, r) = Left(x, r) /\ Right(y, r) = Right(x, r)
    BY <1>16, <2>1 DEF Same, Alike
  <2>4. QED
    BY <1>10, <2>2, <2>3, SameNode
<1>20. Fork(y, n, S, j, L, R, g)
  <2>1. Loose(y, Left(y, n), L, g) /\ Loose(y, Right(y, n), R, g)
    BY <1>15, <1>16, <1>17, <1>18 DEF Loose
  <2>2. g \in Nat \ {0} /\ j = g + (IF Black(y, n) THEN 1 ELSE 0)
    BY <1>4, <1>5, <1>16 DEF Fork
  <2>3. QED
    BY <1>1, <1>13, <2>1, <2>2 DEF Fork
<1>21. PICK N : N = L \cup {n} \cup E
  OBVIOUS
<1>22. isRed(x, q) /\ isRed(x, r)
  <2>1. isRed(v, r)
    BY <1>1, <1>2, <1>5, FlipBlackTree
  <2>2. QED
    BY <1>2, <1>10, <1>14, <2>1, KeysAre, RedIs
<1>23. /\ z \in Nodes /\ Top(z) = q /\ Freed(z) = Freed(y) /\ Kept(y, z, S)
       /\ Same(y, z, M)
       /\ Node(z, n, N, g, L, E, g) /\ Fork(z, q, S, j, N, M, g)
       /\ Tree(z, r, M, g)
       /\ Left(z, q) = n /\ Right(z, q) = r
       /\ Left(z, n) = l /\ Right(z, n) = Left(y, q)
       /\ ~Black(z, n) /\ (Black(z, q) <=> Black(y, n))
       /\ ~isRed(z, Left(y, q)) /\ isRed(z, r) /\ isRed(z, l)
  BY <1>10, <1>15, <1>16, <1>17, <1>18, <1>20, <1>21, <1>22, RotateLeftTree
<1>24. Node(z, r, M, g, F, D, g)
       /\ Left(z, r) = Left(y, r) /\ Right(z, r) = Right(y, r)
       /\ ~isRed(z, Left(z, r)) /\ ~isRed(z, Right(z, r))
  <2>1. r \in M
    BY <1>9
  <2>2. Left(z, r) = Left(y, r) /\ Right(z, r) = Right(y, r)
    BY <1>23, <2>1 DEF Same, Alike
  <2>3. QED
    BY <1>10, <1>19, <1>23, <2>2, SameNode
<1>25. isRed(z, n) /\ u = flipColors(z, q)
  BY <1>1, <1>23, RedIs
<1>26. /\ u \in Nodes /\ Top(u) = q /\ Freed(u) = Freed(z) /\ Kept(z, u, S)
       /\ Node(u, n, N, g + 1, L, E, g) /\ Node(u, r, M, g + 1, F, D, g)
       /\ Fork(u, q, S, (g + 1) + (IF Black(u, q) THEN 1 ELSE 0), N, M, g + 1)
       /\ Left(u, q) = n /\ Right(u, q) = r /\ (Black(u, q) <=> ~Black(z, q))
       /\ Left(u, n) = l /\ Right(u, n) = Left(y, q)
       /\ Left(u, r) = Left(z, r) /\ Right(u, r) = Right(z, r)
       /\ ~isRed(u, n) /\ ~isRed(u, r)
       /\ isRed(u, l) /\ ~isRed(u, Left(y, q))
       /\ ~isRed(u, Left(z, r)) /\ ~isRed(u, Right(z, r))
  BY <1>23, <1>24, <1>25, FlipRedTree
<1>27. Black(u, n) /\ Black(u, r)
  BY <1>1, <1>2, <1>26, RedIs
<1>28. Tree(u, n, N, g + 1) /\ Tree(u, r, M, g + 1)
  BY <1>26, <1>27, NodeIsTree
<1>29. g + 1 = f /\ h = (g + 1) + (IF Black(u, q) THEN 1 ELSE 0) /\ (Black(u, q) <=> Black(t, n))
  BY <1>1, <1>3, <1>5, <1>16, <1>23, <1>26
<1>30. Node(u, q, S, h, N, M, g + 1)
  BY <1>26, <1>28, <1>29, NodeIsFork
<1>31. \A i \in S : i < n => i \in N
  <2>1. n \in Nat /\ R \subseteq Nat
    BY <1>1, <1>13, KeysAre
  <2>2. QED
    BY <1>13, <1>21, <2>1
<1>32. Freed(u) = Freed(t) /\ Kept(t, u, S)
  BY <1>5, <1>10, <1>15, <1>16, <1>23, <1>26, KeptAll
<1>33. Ready(u, n) /\ Left(u, q) # Nil
  BY <1>1, <1>26 DEF Ready
<1>34. QED
  BY <1>26, <1>27, <1>29, <1>30, <1>31, <1>32, <1>33 DEF Readied

LEMMA ReadyLeftTree ==
  ASSUME NEW t \in Nodes, NEW n, NEW S, NEW h, Tree(t, n, S, h), n # Nil, Left(t, n) # Nil,
         NEW u, u = ReadyLeft(t, n)
  PROVE  Readied(t, n, S, h, u)
<1>1. PICK L, R, f : /\ Node(t, n, S, h, L, R, f)
                     /\ ~isRed(t, Right(t, n)) /\ (Black(t, n) \/ ~isRed(t, Left(t, n)))
  BY TreeIsNode
<1>2. PICK l, r : l = Left(t, n) /\ r = Right(t, n)
  OBVIOUS
<1>3. PICK v : v = flipColors(t, n)
  OBVIOUS
<1>4. PICK x : x = rotateRight(v, Right(v, n))
  OBVIOUS
<1>5. PICK y : y = WithRight(x, n)
  OBVIOUS
<1>6. PICK z : z = rotateLeft(y, n)
  OBVIOUS
<1>7. u = IF ~isRed(t, l) /\ ~isRed(t, Left(t, l))
          THEN (IF isRed(v, Left(v, Right(v, n))) THEN flipColors(z, Top(z)) ELSE v)
          ELSE [t EXCEPT !.top = n]
  BY <1>2, <1>3, <1>4, <1>5, <1>6, ReadyLeftIs
<1>8. CASE isRed(t, l) \/ isRed(t, Left(t, l))
  <2>1. u = [t EXCEPT !.top = n]
    BY <1>7, <1>8
  <2>2. n \in Links /\ n \in S /\ S \subseteq Keys
    BY <1>1, NilIsTree, NodeSize
  <2>3. /\ u \in Nodes /\ Top(u) = n /\ Freed(u) = Freed(t)
        /\ \A i \in Keys : Alike(t, u, i)
    BY <2>1, <2>2, TopIs
  <2>4. Kept(t, u, S) /\ Same(t, u, S)
    BY <2>2, <2>3 DEF Kept, Same
  <2>5. Node(u, n, S, h, L, R, f) /\ ~isRed(u, Right(u, n))
    BY <1>1, <2>4, SameNode
  <2>6. /\ Left(u, n) = l /\ (Black(u, n) <=> Black(t, n)) /\ l # Nil
        /\ isRed(u, l) <=> isRed(t, l)
    BY <1>1, <1>2, <2>2, <2>4, SameNode DEF Same, Alike
  <2>7. Ready(u, l)
    <3>1. CASE isRed(t, l)
      BY <2>6, <3>1 DEF Ready
    <3>2. CASE isRed(t, Left(t, l))
      <4>1. Tree(t, l, L, f)
        BY <1>1, <1>2 DEF Node
      <4>2. PICK A, B, e : Node(t, l, L, f, A, B, e)
        BY <2>6, <4>1, TreeIsNode
      <4>3. L \subseteq S
        BY <1>1 DEF Node
      <4>4. Same(t, u, L)
        BY <2>4, <4>3 DEF Same
      <4>5. isRed(u, Left(u, l))
        BY <3>2, <4>2, <4>4, SameNode
      <4>6. QED
        BY <4>5 DEF Ready
    <3>3. QED
      BY <1>8, <3>1, <3>2
  <2>8. \A i \in S : i < n => i \in L
    BY <1>1, NodeSides
  <2>9. Black(t, n) \/ Black(u, l)
    BY <1>1, <1>2, <2>6, RedIs
  <2>10. QED
    BY <2>3, <2>4, <2>5, <2>6, <2>7, <2>8, <2>9 DEF Readied
<1>9. CASE ~isRed(t, l) /\ ~isRed(t, Left(t, l))
  <2>1. u = IF isRed(v, Left(v, Right(v, n))) THEN flipColors(z, Top(z)) ELSE v
    BY <1>7, <1>9
  <2>2. /\ l # Nil /\ r # Nil
        /\ \E A, B, e : Node(t, l, L, f, A, B, e) /\ ~isRed(t, Right(t, l))
        /\ \E C, D, d : Node(t, r, R, f, C, D, d) /\ ~isRed(t, Right(t, r))
    BY <1>1, <1>2, <1>9, BlackChildren
  <2>3. PICK A, B, e : Node(t, l, L, f, A, B, e) /\ ~isRed(t, Right(t, l))
    BY <2>2
  <2>4. PICK C, D, d : Node(t, r, R, f, C, D, d) /\ ~isRed(t, Right(t, r))
    BY <2>2
  <2>5. Fork(t, n, S, h, L, R, f)
    BY <1>1, NodeIsFork
  <2>6. /\ Right(v, n) = r /\ Left(v, r) = Left(t, r)
        /\ isRed(v, Left(t, r)) <=> isRed(t, Left(t, r))
    BY <1>1, <1>2, <1>3, <1>9, <2>3, <2>4, <2>5, FlipBlackTree
  <2>7. CASE isRed(t, Left(t, r))
    <3>1. u = flipColors(z, Top(z))
      BY <2>1, <2>6, <2>7
    <3>2. QED
      BY <1>1, <1>2, <1>3, <1>4, <1>5, <1>6, <1>9, <2>3, <2>4, <2>7, <3>1, ReadiedMove
  <2>8. CASE ~isRed(t, Left(t, r))
    <3>1. u = v
      BY <2>1, <2>6, <2>8
    <3>2. QED
      BY <1>1, <1>2, <1>3, <1>9, <2>3, <2>4, <2>8, <3>1, ReadiedFlip
  <2>9. QED
    BY <2>7, <2>8
<1>10. QED
  BY <1>8, <1>9
-----------------------------------------------------------------------------
(* And on the way back. *)

\* What a call of erase or eraseMin that frees e cells does to a tree of nodes S.
Erased(t, n, S, h, T, e, u) ==
  /\ u \in Nodes /\ Top(u) \in Links /\ Freed(u) = Freed(t) + e /\ Kept(t, u, S)
  /\ Ready(t, n) => Tree(u, Top(u), T, h) /\ (Black(t, n) => ~isRed(u, Top(u)))
  /\ \E g : Tree(u, Top(u), T, g) \/ Almost(u, Top(u), T, g)

LEMMA KeptMore ==
  ASSUME NEW t, NEW u, NEW S, NEW T, Kept(t, u, T), T \subseteq S
  PROVE  Kept(t, u, S)
BY DEF Kept

\* The left subtree of m has lost k.
LEMMA LeftFixed ==
  ASSUME NEW t \in Nodes, NEW n, NEW S, NEW h, NEW u \in Nodes, NEW m, NEW L, NEW R,
         NEW g, NEW e, Freed(u) = Freed(t), Kept(t, u, S), Node(u, m, S, e, L, R, g),
         Ready(u, Left(u, m)),
         \/ /\ e = h /\ (Black(u, m) <=> Black(t, n)) /\ ~isRed(u, Right(u, m))
            /\ Black(t, n) \/ Black(u, Left(u, m))
         \/ e = h /\ Black(u, m) /\ ~Black(t, n)
         \/ ~Ready(t, n),
         NEW k \in L, NEW T, T = S \ {k}, NEW M, M = L \ {k},
         NEW i, NEW w, Erased(u, Left(u, m), L, g, M, i, w),
         NEW v, v = WithLeft(w, m), NEW x, x = fixUp(v)
  PROVE  Erased(t, n, S, h, T, i, x)
<1>1. /\ w \in Nodes /\ Top(w) \in Links /\ Freed(w) = Freed(u) + i /\ Kept(u, w, L)
      /\ Tree(w, Top(w), M, g) /\ (Black(u, Left(u, m)) => ~isRed(w, Top(w)))
  BY DEF Erased
<1>2. /\ m \in Keys /\ Tree(u, Right(u, m), R, g) /\ S = L \cup {m} \cup R
      /\ g \in Nat \ {0} /\ e = g + (IF Black(u, m) THEN 1 ELSE 0)
  BY DEF Node
<1>3. /\ m \in S /\ m \notin L /\ m \notin R /\ L \cap R = {} /\ S \subseteq Keys
      /\ L \subseteq Keys /\ R \subseteq Keys
      /\ (\A y \in L : y < m) /\ (\A y \in R : m < y)
  BY NodeSize, NodeSides
<1>4. /\ v \in Nodes /\ Top(v) = m /\ Freed(v) = Freed(w)
      /\ Left(v, m) = Top(w) /\ Right(v, m) = Right(w, m) /\ (Black(v, m) <=> Black(w, m))
      /\ \A y \in Keys : y # m => Alike(w, v, y)
  BY <1>1, <1>2, WithLeftIs
<1>5. /\ Same(w, v, M) /\ Same(u, v, R) /\ Kept(u, v, S)
      /\ Right(v, m) = Right(u, m) /\ (Black(v, m) <=> Black(u, m))
  BY <1>1, <1>2, <1>3, <1>4 DEF Same, Kept, Alike
<1>6. Tree(v, Left(v, m), M, g) /\ Tree(v, Right(v, m), R, g)
  BY <1>1, <1>2, <1>4, <1>5, SameTree
<1>7. /\ isRed(v, Left(v, m)) <=> isRed(w, Top(w))
      /\ isRed(v, Right(v, m)) <=> isRed(u, Right(u, m))
  <2>1. Top(w) \in M \cup {Nil} /\ Right(u, m) \in R \cup {Nil}
    BY <1>1, <1>2, NilIsTree
  <2>2. QED
    BY <1>4, <1>5, <2>1, RedIs DEF Same, Alike
<1>8. Node(v, m, T, e, M, R, g)
  <2>1. T = M \cup {m} \cup R /\ \A y \in M : y < m
    BY <1>2, <1>3
  <2>2. QED
    BY <1>2, <1>3, <1>5, <1>6, <2>1 DEF Node
<1>9. /\ x \in Nodes /\ Freed(x) = Freed(v) /\ Top(x) \in Keys /\ Kept(v, x, T)
      /\ Black(v, m) => Tree(x, Top(x), T, e)
      /\ Black(v, m) /\ ~(isRed(v, Left(v, m)) /\ isRed(v, Right(v, m))) => ~isRed(x, Top(x))
      /\ ~isRed(v, Left(v, m)) /\ ~isRed(v, Right(v, m)) => Tree(x, Top(x), T, e)
      /\ \E j : Almost(x, Top(x), T, j)
  BY <1>4, <1>8, FixUpTree
<1>10. Kept(t, x, S)
  BY <1>5, <1>9, KeptAll, KeptMore
<1>11. Ready(t, n) => Tree(x, Top(x), T, h) /\ (Black(t, n) => ~isRed(x, Top(x)))
  <2>1. CASE /\ e = h /\ (Black(u, m) <=> Black(t, n)) /\ ~isRed(u, Right(u, m))
             /\ Black(t, n) \/ Black(u, Left(u, m))
    BY <1>1, <1>5, <1>7, <1>9, <2>1
  <2>2. CASE e = h /\ Black(u, m) /\ ~Black(t, n)
    BY <1>5, <1>9, <2>2
  <2>3. QED
    BY <2>1, <2>2
<1>12. Freed(x) = Freed(t) + i /\ Top(x) \in Links
  BY <1>1, <1>4, <1>9, KeysAre
<1>13. QED
  BY <1>9, <1>10, <1>11, <1>12 DEF Erased

\* The right subtree of n has lost a node: n itself may have, and another node
\* m is in its place.
Refilled(u, n, S, h, L, g, T, v) ==
  \E m, M :
    /\ v \in Nodes /\ m = Top(v) /\ Freed(v) = Freed(u) + 1 /\ Kept(u, v, S)
    /\ T \subseteq S /\ Node(v, m, T, h, L, M, g)
    /\ Black(v, m) <=> Black(u, n)
    /\ isRed(v, Left(v, m)) <=> isRed(u, Left(u, n))
    /\ Black(u, Right(u, n)) => ~isRed(v, Right(v, m))

LEMMA RightFixed ==
  ASSUME NEW u, NEW n, NEW S, NEW h, NEW L, NEW g, NEW T, NEW v,
         Refilled(u, n, S, h, L, g, T, v), NEW x, x = fixUp(v)
  PROVE  /\ x \in Nodes /\ Top(x) \in Links /\ Freed(x) = Freed(u) + 1 /\ Kept(u, x, S)
         /\ Black(u, n) => Tree(x, Top(x), T, h)
         /\ Black(u, n) /\ (~isRed(u, Left(u, n)) \/ Black(u, Right(u, n))) => ~isRed(x, Top(x))
         /\ ~isRed(u, Left(u, n)) /\ Black(u, Right(u, n)) => Tree(x, Top(x), T, h)
         /\ \E j : Almost(x, Top(x), T, j)
<1>1. PICK m, M :
        /\ v \in Nodes /\ m = Top(v) /\ Freed(v) = Freed(u) + 1 /\ Kept(u, v, S)
        /\ T \subseteq S /\ Node(v, m, T, h, L, M, g)
        /\ Black(v, m) <=> Black(u, n)
        /\ isRed(v, Left(v, m)) <=> isRed(u, Left(u, n))
        /\ Black(u, Right(u, n)) => ~isRed(v, Right(v, m))
  BY DEF Refilled
<1>2. /\ x \in Nodes /\ Freed(x) = Freed(v) /\ Top(x) \in Keys /\ Kept(v, x, T)
      /\ Black(v, m) => Tree(x, Top(x), T, h)
      /\ Black(v, m) /\ ~(isRed(v, Left(v, m)) /\ isRed(v, Right(v, m))) => ~isRed(x, Top(x))
      /\ ~isRed(v, Left(v, m)) /\ ~isRed(v, Right(v, m)) => Tree(x, Top(x), T, h)
      /\ \E j : Almost(x, Top(x), T, j)
  BY <1>1, FixUpTree
<1>3. Kept(u, x, S)
  BY <1>1, <1>2, KeptAll, KeptMore
<1>4. QED
  BY <1>1, <1>2, <1>3, KeysAre

LEMMA RightRefilled ==
  ASSUME NEW u \in Nodes, NEW n, NEW S, NEW h, NEW L, NEW R, NEW g,
         Fork(u, n, S, h, L, R, g), Tree(u, Left(u, n), L, g),
         NEW k \in R, NEW T, T = S \ {k}, NEW M, M = R \ {k},
         NEW w \in Nodes, Top(w) \in Links, Freed(w) = Freed(u) + 1, Kept(u, w, R),
         Tree(w, Top(w), M, g), Black(u, Right(u, n)) => ~isRed(w, Top(w)),
         NEW v, v = WithRight(w, n)
  PROVE  Refilled(u, n, S, h, L, g, T, v)
<1>1. /\ n \in Keys /\ n \in S /\ n \notin L /\ n \notin R /\ L \cap R = {}
      /\ S = L \cup {n} \cup R /\ S \subseteq Keys /\ L \subseteq Keys /\ R \subseteq Keys
      /\ Left(u, n) \in L \cup {Nil}
  BY ForkSize
<1>2. /\ (\A y \in L : y < n) /\ (\A y \in R : n < y)
      /\ g \in Nat \ {0} /\ h = g + (IF Black(u, n) THEN 1 ELSE 0)
  BY DEF Fork
<1>3. /\ v \in Nodes /\ Top(v) = n /\ Freed(v) = Freed(w)
      /\ Left(v, n) = Left(w, n) /\ Right(v, n) = Top(w) /\ (Black(v, n) <=> Black(w, n))
      /\ \A y \in Keys : y # n => Alike(w, v, y)
  BY <1>1, WithRightIs
<1>4. /\ Same(w, v, M) /\ Same(u, v, L) /\ Kept(u, v, S)
      /\ Left(v, n) = Left(u, n) /\ (Black(v, n) <=> Black(u, n))
  BY <1>1, <1>3 DEF Same, Kept, Alike
<1>5. Tree(v, Left(v, n), L, g) /\ Tree(v, Right(v, n), M, g)
  BY <1>3, <1>4, SameTree
<1>6. /\ isRed(v, Left(v, n)) <=> isRed(u, Left(u, n))
      /\ isRed(v, Right(v, n)) <=> isRed(w, Top(w))
  <2>1. Top(w) \in M \cup {Nil}
    BY NilIsTree
  <2>2. QED
    BY <1>1, <1>3, <1>4, <2>1, RedIs DEF Same, Alike
<1>7. Node(v, n, T, h, L, M, g)
  <2>1. T = L \cup {n} \cup M /\ \A y \in M : n < y
    BY <1>1, <1>2
  <2>2. QED
    BY <1>1, <1>2, <1>4, <1>5, <2>1 DEF Node
<1>8. QED
  BY <1>3, <1>4, <1>6, <1>7 DEF Refilled

-----------------------------------------------------------------------------
(* findMin and eraseMin *)

Least(m, S) == m \in S /\ \A y \in S : m <= y

LEMMA FindMinIs ==
  ASSUME NEW c, NEW t \in Nodes, NEW n \in Keys
  PROVE  findMin(c)[t][n] = IF Left(t, n) = Nil THEN n ELSE c.findMin[t][Left(t, n)]
BY DEF findMin, Left

LEMMA EraseMinIs ==
  ASSUME NEW c, NEW t \in Nodes, NEW n \in Keys, NEW u, u = ReadyLeft(t, n)
  PROVE  eraseMin(c)[t][n] =
           IF Left(t, n) = Nil THEN [t EXCEPT !.top = Nil]
           ELSE fixUp(WithLeft(c.eraseMin[u][Left(u, Top(u))], Top(u)))
BY DEF eraseMin, Left, Top

\* The least node is on the left, if one is there.
LEMMA LeastLeft ==
  ASSUME NEW t, NEW n, NEW S, NEW h, NEW L, NEW R, NEW f, Node(t, n, S, h, L, R, f)
  PROVE  /\ Left(t, n) = Nil => Least(n, S)
         /\ Left(t, n) # Nil => \A m : Least(m, S) <=> Least(m, L)
<1>1. Tree(t, Left(t, n), L, f) /\ S = L \cup {n} \cup R
  BY DEF Node
<1>2. /\ n \in Keys /\ (\A x \in L : x < n) /\ (\A x \in R : n < x)
      /\ L \subseteq Keys /\ R \subseteq Keys
  BY NodeSize, NodeSides
<1>3. n \in Nat /\ L \subseteq Nat /\ R \subseteq Nat
  BY <1>2, KeysAre
<1>4. /\ Left(t, n) = Nil => L = {}
      /\ Left(t, n) # Nil => Left(t, n) \in L
  BY <1>1, NilIsTree
<1>5. CASE Left(t, n) = Nil
  BY <1>1, <1>2, <1>3, <1>4, <1>5 DEF Least
<1>6. CASE Left(t, n) # Nil
  <2>1. PICK l \in L : TRUE
    BY <1>4, <1>6
  <2>2. ASSUME NEW m, Least(m, S) PROVE Least(m, L)
    <3>1. m <= l /\ m \in Nat /\ m \in S
      BY <1>1, <1>3, <2>1, <2>2 DEF Least
    <3>2. l < n /\ l \in Nat
      BY <1>2, <1>3, <2>1
    <3>3. m \in L
      BY <1>1, <1>2, <1>3, <3>1, <3>2
    <3>4. QED
      BY <1>1, <2>2, <3>3 DEF Least
  <2>3. ASSUME NEW m, Least(m, L) PROVE Least(m, S)
    <3>1. m \in S /\ m \in Nat /\ m < n
      BY <1>1, <1>2, <1>3, <2>3 DEF Least
    <3>2. ASSUME NEW y \in R PROVE m <= y
      BY <1>2, <1>3, <3>1, <3>2
    <3>3. QED
      BY <1>1, <1>3, <2>3, <3>1, <3>2 DEF Least
  <2>4. QED
    BY <1>6, <2>2, <2>3
<1>7. QED
  BY <1>5, <1>6

Mins(d) ==
  \A t, n, S, h : t \in Nodes /\ n # Nil /\ Tree(t, n, S, h) /\ Cardinality(S) <= d
                    => Least(Calls[d].findMin[t][n], S)

LEMMA MinStep ==
  ASSUME NEW d \in Nat, d # 0 => Mins(d - 1)
  PROVE  Mins(d)
<1>1. SUFFICES ASSUME NEW t, NEW n, NEW S, NEW h,
                      t \in Nodes, n # Nil, Tree(t, n, S, h), Cardinality(S) <= d
               PROVE  Least(Calls[d].findMin[t][n], S)
  BY DEF Mins
<1>2. PICK c : (d # 0 => c = Calls[d - 1]) /\ Calls[d].findMin = findMin(c)
  BY CallsAre
<1>3. PICK L, R, f : Node(t, n, S, h, L, R, f)
  BY <1>1, TreeIsNode
<1>4. n \in Keys /\ Tree(t, Left(t, n), L, f)
  BY <1>3 DEF Node
<1>5. /\ Cardinality(L) \in Nat /\ Cardinality(R) \in Nat /\ Cardinality(S) \in Nat
      /\ Cardinality(S) = Cardinality(L) + 1 + Cardinality(R)
  BY <1>3, NodeSize
<1>6. Cardinality(L) <= d - 1 /\ d # 0
  BY <1>1, <1>5
<1>7. Calls[d].findMin[t][n] = IF Left(t, n) = Nil THEN n ELSE c.findMin[t][Left(t, n)]
  BY <1>1, <1>2, <1>4, FindMinIs
<1>8. CASE Left(t, n) = Nil
  BY <1>3, <1>7, <1>8, LeastLeft
<1>9. CASE Left(t, n) # Nil
  <2>1. Least(c.findMin[t][Left(t, n)], L)
    BY <1>1, <1>2, <1>4, <1>6, <1>9 DEF Mins
  <2>2. QED
    BY <1>3, <1>7, <1>9, <2>1, LeastLeft
<1>10. QED
  BY <1>8, <1>9

LEMMA AllMin == \A d \in Nat : Mins(d)
<1> DEFINE S == {d \in Nat : Mins(d)}
<1>1. 0 \in S
  BY MinStep
<1>2. ASSUME NEW d \in Nat, d \in S PROVE d + 1 \in S
  <2>1. (d + 1) - 1 = d /\ d + 1 \in Nat
    OBVIOUS
  <2>2. Mins((d + 1) - 1)
    BY <1>2, <2>1
  <2>3. QED
    BY <2>1, <2>2, MinStep
<1>3. \A d \in Nat : d \in S
  <2> HIDE DEF S
  <2>1. QED
    BY <1>1, <1>2, Induction
<1>4. QED
  BY <1>3

\* A leaf in a tree that is ready to lose it.
LEMMA LeafTree ==
  ASSUME NEW t, NEW n, NEW S, NEW h, Tree(t, n, S, h), n # Nil,
         Left(t, n) = Nil \/ ~isRed(t, Left(t, n)), Left(t, n) = Nil \/ Right(t, n) = Nil
  PROVE  /\ S = {n} /\ Left(t, n) = Nil /\ Right(t, n) = Nil
         /\ Ready(t, n) => h = 1 /\ ~Black(t, n)
<1>1. PICK L, R, f : Node(t, n, S, h, L, R, f) /\ ~isRed(t, Right(t, n))
  BY TreeIsNode
<1>2. ~isRed(t, Left(t, n))
  BY RedIs
<1>3. Left(t, n) = Nil /\ Right(t, n) = Nil
  BY <1>1, <1>2, BlackChildren
<1>4. /\ Tree(t, Left(t, n), L, f) /\ Tree(t, Right(t, n), R, f) /\ S = L \cup {n} \cup R
      /\ f \in Nat \ {0} /\ h = f + (IF Black(t, n) THEN 1 ELSE 0)
  BY <1>1 DEF Node
<1>5. L = {} /\ R = {} /\ f = 1
  BY <1>3, <1>4, NilIsTree
<1>6. Ready(t, n) => ~Black(t, n)
  BY <1>2, RedIs DEF Ready
<1>7. QED
  BY <1>3, <1>4, <1>5, <1>6

EraseMins(d) ==
  \A t, n, S, h, m, T : /\ t \in Nodes /\ n # Nil /\ Tree(t, n, S, h) /\ Ready(t, n)
                        /\ Least(m, S) /\ T = S \ {m} /\ Cardinality(S) <= d
                        => Erased(t, n, S, h, T, 0, Calls[d].eraseMin[t][n])

LEMMA EraseMinStep ==
  ASSUME NEW d \in Nat, d # 0 => EraseMins(d - 1)
  PROVE  EraseMins(d)
<1>1. SUFFICES ASSUME NEW t, NEW n, NEW S, NEW h, NEW k, NEW T,
                      t \in Nodes, n # Nil, Tree(t, n, S, h), Ready(t, n),
                      Least(k, S), T = S \ {k}, Cardinality(S) <= d
               PROVE  Erased(t, n, S, h, T, 0, Calls[d].eraseMin[t][n])
  BY DEF EraseMins
<1>2. PICK c : (d # 0 => c = Calls[d - 1]) /\ Calls[d].eraseMin = eraseMin(c)
  BY CallsAre
<1>3. PICK L0, R0, f : Node(t, n, S, h, L0, R0, f)
  BY <1>1, TreeIsNode
<1>4. n \in Keys
  BY <1>3 DEF Node
<1>5. PICK u : u = ReadyLeft(t, n)
  OBVIOUS
<1>6. PICK x : x = Calls[d].eraseMin[t][n]
  OBVIOUS
<1>7. x = IF Left(t, n) = Nil THEN [t EXCEPT !.top = Nil]
          ELSE fixUp(WithLeft(c.eraseMin[u][Left(u, Top(u))], Top(u)))
  <2>1. x = eraseMin(c)[t][n]
    BY <1>2, <1>6
  <2>2. t \in Nodes
    BY <1>1
  <2>3. QED
    BY <1>4, <1>5, <2>1, <2>2, EraseMinIs
<1>8. CASE Left(t, n) = Nil
  <2>1. S = {n} /\ h = 1 /\ ~Black(t, n)
    BY <1>1, <1>8, LeafTree
  <2>2. k = n /\ T = {}
    BY <1>1, <2>1 DEF Least
  <2>3. /\ x \in Nodes /\ Top(x) = Nil /\ Freed(x) = Freed(t)
        /\ \A y \in Keys : Alike(t, x, y)
    BY <1>1, <1>7, <1>8, KeysAre, TopIs
  <2>4. Tree(x, Nil, T, h)
    BY <2>1, <2>2, NilIsTree
  <2>5. Freed(x) = Freed(t) + 0
    BY <1>1, <2>3, NodesAre DEF Freed
  <2>6. Kept(t, x, S)
    BY <2>3 DEF Kept
  <2>7. QED
    BY <1>6, <2>1, <2>3, <2>4, <2>5, <2>6, KeysAre DEF Erased
<1>9. CASE Left(t, n) # Nil
  <2>1. Readied(t, n, S, h, u)
    BY <1>1, <1>5, <1>9, ReadyLeftTree
  <2>2. PICK m, L, R, g, e :
    /\ u \in Nodes /\ m = Top(u) /\ Freed(u) = Freed(t) /\ Kept(t, u, S)
    /\ Node(u, m, S, e, L, R, g)
    /\ Left(u, m) # Nil /\ Ready(u, Left(u, m))
    /\ \A y \in S : y < n => y \in L
    /\ \/ /\ e = h /\ (Black(u, m) <=> Black(t, n)) /\ ~isRed(u, Right(u, m))
          /\ Black(t, n) \/ Black(u, Left(u, m))
       \/ e = h /\ Black(u, m) /\ ~Black(t, n)
       \/ ~Ready(t, n)
    BY <2>1 DEF Readied
  <2>3. Least(k, L) /\ k \in L
    <3>1. Least(k, L)
      BY <1>1, <2>2, LeastLeft
    <3>2. QED
      BY <3>1 DEF Least
  <2>4. /\ Cardinality(L) \in Nat /\ Cardinality(R) \in Nat /\ Cardinality(S) \in Nat
        /\ Cardinality(S) = Cardinality(L) + 1 + Cardinality(R)
    BY <2>2, NodeSize
  <2>5. Cardinality(L) <= d - 1 /\ d # 0
    BY <1>1, <2>4
  <2>6. PICK M : M = L \ {k}
    OBVIOUS
  <2>7. Tree(u, Left(u, m), L, g)
    BY <2>2 DEF Node
  <2>8. PICK w : w = c.eraseMin[u][Left(u, m)]
    OBVIOUS
  <2>9. Erased(u, Left(u, m), L, g, M, 0, w)
    BY <1>2, <2>2, <2>3, <2>5, <2>6, <2>7, <2>8 DEF EraseMins
  <2>10. PICK v : v = WithLeft(w, m)
    OBVIOUS
  <2>11. x = fixUp(v)
    BY <1>7, <1>9, <2>2, <2>8, <2>10
  <2>12. Erased(t, n, S, h, T, 0, x)
    BY <1>1, <2>2, <2>3, <2>6, <2>9, <2>10, <2>11, LeftFixed
  <2>13. QED
    BY <1>6, <2>12
<1>10. QED
  BY <1>8, <1>9

LEMMA AllEraseMin == \A d \in Nat : EraseMins(d)
<1> DEFINE S == {d \in Nat : EraseMins(d)}
<1>1. 0 \in S
  BY EraseMinStep
<1>2. ASSUME NEW d \in Nat, d \in S PROVE d + 1 \in S
  <2>1. (d + 1) - 1 = d /\ d + 1 \in Nat
    OBVIOUS
  <2>2. EraseMins((d + 1) - 1)
    BY <1>2, <2>1
  <2>3. QED
    BY <2>1, <2>2, EraseMinStep
<1>3. \A d \in Nat : d \in S
  <2> HIDE DEF S
  <2>1. QED
    BY <1>1, <1>2, Induction
<1>4. QED
  BY <1>3

-----------------------------------------------------------------------------
(* erase, of a key that is not less than the node's. *)

LEMMA ReplacedIs ==
  ASSUME NEW c, NEW t \in Nodes, NEW n \in Keys, NEW m \in Keys, m # n, NEW w \in Nodes,
         m = c.findMin[t][Right(t, n)], w = c.eraseMin[t][Right(t, n)],
         NEW v, v = Replaced(c, t, n)
  PROVE  /\ v \in Nodes /\ Top(v) = m /\ Freed(v) = Freed(w) + 1
         /\ Left(v, m) = Left(w, n) /\ Right(v, m) = Top(w) /\ (Black(v, m) <=> Black(w, n))
         /\ \A x \in Keys : x # n /\ x # m => Alike(w, v, x)
<1>0. PICK wl, wt, wb, wp : wl = w.left[n] /\ wt = w.top /\ wb = w.black[n] /\ wp = w.parent[n]
  OBVIOUS
<1>1. PICK l \in [Keys -> Links] : l = [w.left EXCEPT ![m] = wl]
  BY <1>0, NodesAre
<1>2. PICK r \in [Keys -> Links] : r = [w.right EXCEPT ![m] = wt]
  BY <1>0, NodesAre
<1>3. PICK b \in [Keys -> BOOLEAN] : b = [w.black EXCEPT ![m] = wb]
  BY <1>0, NodesAre
<1>4. PICK p \in [Keys -> Links] : p = [w.parent EXCEPT ![m] = wp]
  BY <1>0, NodesAre
<1>5. PICK a : a = [w EXCEPT !.right = r]
  OBVIOUS
<1>6. PICK e : e = [a EXCEPT !.left = l]
  OBVIOUS
<1>7. PICK f : f = [e EXCEPT !.black = b]
  OBVIOUS
<1>8. PICK g : g = [f EXCEPT !.parent = p]
  OBVIOUS
<1>9. PICK z : z = [g EXCEPT !.top = m]
  OBVIOUS
<1>10. Has(a, w.left, r, w.black, w.parent, w.top, w.freed)
  BY <1>5, NodesAre, PutRight
<1>11. Has(e, l, r, w.black, w.parent, w.top, w.freed)
  BY <1>6, <1>10, PutLeft
<1>12. Has(f, l, r, b, w.parent, w.top, w.freed)
  BY <1>7, <1>11, PutBlack
<1>13. Has(g, l, r, b, p, w.top, w.freed)
  BY <1>8, <1>12, PutParent
<1>14. Has(z, l, r, b, p, m, w.freed)
  BY <1>9, <1>13, KeysAre, PutTop
<1>15. v = erase_(z, n)
  <2>1. a.left = w.left /\ e.black = w.black /\ f.parent = w.parent
    BY <1>10, <1>11, <1>12 DEF Has
  <2>2. z = [w EXCEPT !.right[m] = wt, !.left[m] = wl, !.black[m] = wb,
                      !.parent[m] = wp, !.top = m]
    <3>1. a = [w EXCEPT !.right[m] = wt]
      BY <1>2, <1>5
    <3>2. e = [w EXCEPT !.right[m] = wt, !.left[m] = wl]
      BY <1>1, <1>6, <2>1, <3>1
    <3>3. f = [w EXCEPT !.right[m] = wt, !.left[m] = wl, !.black[m] = wb]
      BY <1>3, <1>7, <2>1, <3>2
    <3>4. g = [w EXCEPT !.right[m] = wt, !.left[m] = wl, !.black[m] = wb, !.parent[m] = wp]
      BY <1>4, <1>8, <2>1, <3>3
    <3>5. QED
      BY <1>9, <3>4
  <2>3. m = c.findMin[t][t.right[n]] /\ w = c.eraseMin[t][t.right[n]]
    BY DEF Right
  <2>4. QED
    BY <1>0, <2>2, <2>3 DEF Replaced
<1>16. /\ l[m] = w.left[n] /\ r[m] = w.top /\ (b[m] <=> w.black[n])
       /\ \A x \in Keys \ {m} : l[x] = w.left[x] /\ r[x] = w.right[x] /\ (b[x] <=> w.black[x])
  <2>1. l[m] = w.left[n] /\ \A x \in Keys \ {m} : l[x] = w.left[x]
    BY <1>0, <1>1, NodesAre
  <2>2. r[m] = w.top /\ \A x \in Keys \ {m} : r[x] = w.right[x]
    BY <1>0, <1>2, NodesAre
  <2>3. (b[m] <=> w.black[n]) /\ \A x \in Keys \ {m} : (b[x] <=> w.black[x])
    BY <1>0, <1>3, NodesAre
  <2>4. QED
    BY <2>1, <2>2, <2>3
<1>17. /\ z \in Nodes /\ Top(z) = m /\ Freed(z) = Freed(w)
       /\ Left(z, m) = Left(w, n) /\ Right(z, m) = Top(w) /\ (Black(z, m) <=> Black(w, n))
       /\ \A x \in Keys : x # m => Alike(w, z, x)
  BY <1>14, <1>16 DEF Has, Alike, Left, Right, Black, Top, Freed
<1>18. /\ v \in Nodes /\ Top(v) = Top(z) /\ Freed(v) = Freed(z) + 1
       /\ \A x \in Keys : x # n => Alike(z, v, x)
  BY <1>15, <1>17, EraseIs
<1>19. QED
  BY <1>17, <1>18 DEF Alike

LEMMA ReplacedRefilled ==
  ASSUME NEW u \in Nodes, NEW n, NEW S, NEW h, NEW L, NEW R, NEW g,
         Fork(u, n, S, h, L, R, g), Tree(u, Left(u, n), L, g),
         NEW T, T = S \ {n}, NEW m, Least(m, R), NEW M, M = R \ {m},
         NEW w, Erased(u, Right(u, n), R, g, M, 0, w), Ready(u, Right(u, n)),
         NEW c, m = c.findMin[u][Right(u, n)], w = c.eraseMin[u][Right(u, n)],
         NEW v, v = Replaced(c, u, n)
  PROVE  Refilled(u, n, S, h, L, g, T, v)
<1>1. /\ n \in Keys /\ n \in S /\ n \notin L /\ n \notin R /\ L \cap R = {}
      /\ S = L \cup {n} \cup R /\ S \subseteq Keys /\ L \subseteq Keys /\ R \subseteq Keys
      /\ Left(u, n) \in L \cup {Nil}
  BY ForkSize
<1>2. /\ (\A y \in L : y < n) /\ (\A y \in R : n < y)
      /\ g \in Nat \ {0} /\ h = g + (IF Black(u, n) THEN 1 ELSE 0)
  BY DEF Fork
<1>3. m \in R /\ m \in Keys /\ m # n /\ \A y \in R : m <= y
  BY <1>1 DEF Least
<1>4. /\ w \in Nodes /\ Top(w) \in Links /\ Freed(w) = Freed(u) + 0 /\ Kept(u, w, R)
      /\ Tree(w, Top(w), M, g) /\ (Black(u, Right(u, n)) => ~isRed(w, Top(w)))
  BY DEF Erased
<1>5. Freed(w) = Freed(u)
  BY <1>4, NodesAre DEF Freed
<1>6. /\ v \in Nodes /\ Top(v) = m /\ Freed(v) = Freed(w) + 1
      /\ Left(v, m) = Left(w, n) /\ Right(v, m) = Top(w) /\ (Black(v, m) <=> Black(w, n))
      /\ \A x \in Keys : x # n /\ x # m => Alike(w, v, x)
  BY <1>1, <1>3, <1>4, ReplacedIs
<1>7. /\ Same(w, v, M) /\ Same(u, v, L) /\ Kept(u, v, S)
      /\ Left(v, m) = Left(u, n) /\ (Black(v, m) <=> Black(u, n))
  BY <1>1, <1>3, <1>4, <1>6 DEF Same, Kept, Alike
<1>8. Tree(v, Left(v, m), L, g) /\ Tree(v, Right(v, m), M, g)
  BY <1>4, <1>6, <1>7, SameTree
<1>9. /\ isRed(v, Left(v, m)) <=> isRed(u, Left(u, n))
      /\ isRed(v, Right(v, m)) <=> isRed(w, Top(w))
  <2>0. PICK x, y : x = Left(u, n) /\ y = Top(w)
    OBVIOUS
  <2>1. y \in M \cup {Nil}
    <3>1. Tree(w, y, M, g)
      BY <1>4, <2>0
    <3>2. QED
      BY <3>1, NilIsTree
  <2>2. Left(v, m) = x /\ Right(v, m) = y
    BY <1>6, <1>7, <2>0
  <2>3. x # Nil => (Black(v, x) <=> Black(u, x))
    BY <1>1, <1>7, <2>0 DEF Same, Alike
  <2>4. y # Nil => (Black(v, y) <=> Black(w, y))
    BY <1>7, <2>1 DEF Same, Alike
  <2>5. isRed(v, x) <=> isRed(u, x)
    BY <2>3, RedIs
  <2>6. isRed(v, y) <=> isRed(w, y)
    BY <2>4, RedIs
  <2>7. QED
    BY <2>0, <2>2, <2>5, <2>6
<1>10. Node(v, m, T, h, L, M, g)
  <2>1. T = L \cup {m} \cup M
    BY <1>1, <1>3
  <2>2. n \in Nat /\ m \in Nat /\ L \subseteq Nat /\ R \subseteq Nat
    BY <1>1, <1>3, KeysAre
  <2>3. (\A y \in L : y < m) /\ (\A y \in M : m < y)
    BY <1>2, <1>3, <2>2
  <2>4. QED
    BY <1>2, <1>3, <1>7, <1>8, <2>1, <2>3 DEF Node
<1>11. QED
  BY <1>1, <1>4, <1>5, <1>6, <1>7, <1>9, <1>10 DEF Refilled

\* The child that the call before it turned: its right child is red.
Leans(t, n, S, h) ==
  \E L, R, f : /\ Node(t, n, S, h, L, R, f)
               /\ Black(t, n) /\ ~isRed(t, Left(t, n)) /\ isRed(t, Right(t, n))

\* The way to a right child, or to a node that its right subtree replaces.
Righted(t, n, k, S, h, w) ==
  \E m, L, R, g, e :
    /\ w \in Nodes /\ m = Top(w) /\ Freed(w) = Freed(t) /\ Kept(t, w, S)
    /\ Fork(w, m, S, e, L, R, g) /\ Tree(w, Left(w, m), L, g)
    /\ Right(w, m) # Nil /\ (k = m \/ k \in R)
    /\ \/ Tree(w, Right(w, m), R, g) /\ Ready(w, Right(w, m))
       \/ Leans(w, Right(w, m), R, g) /\ k \in R /\ ~(k < Right(w, m))
    /\ \/ /\ e = h /\ (Black(w, m) <=> Black(t, n)) /\ ~isRed(w, Left(w, m))
          /\ Black(w, m) \/ Black(w, Right(w, m))
       \/ e = h /\ Black(w, m) /\ ~Black(t, n)
       \/ ~Ready(t, n) /\ ~isRed(t, Right(t, n))

\* The left child is red: it takes n's place.
LEMMA RightedTurn ==
  ASSUME NEW t \in Nodes, NEW n, NEW S, NEW h, NEW L, NEW R, NEW f, NEW k,
         Node(t, n, S, h, L, R, f), isRed(t, Left(t, n)), ~isRed(t, Right(t, n)), Black(t, n),
         k = n \/ k \in R, NEW u, u = rotateRight(t, n)
  PROVE  /\ Righted(t, n, k, S, h, u)
         /\ isRed(u, Right(u, Top(u))) /\ Right(u, Top(u)) # Nil
<1>1. PICK l, r : l = Left(t, n) /\ r = Right(t, n)
  OBVIOUS
<1>2. Fork(t, n, S, h, L, R, f) /\ Tree(t, l, L, f) /\ Tree(t, r, R, f)
  BY <1>1, NodeIsFork
<1>3. PICK A, B : Node(t, l, L, f, A, B, f) /\ ~isRed(t, Right(t, l)) /\ ~isRed(t, Left(t, l))
  BY <1>1, <1>2, RedTree
<1>4. PICK M : M = B \cup {n} \cup R
  OBVIOUS
<1>5. /\ u \in Nodes /\ Top(u) = l /\ Freed(u) = Freed(t) /\ Kept(t, u, S)
      /\ Node(u, n, M, f, B, R, f) /\ Fork(u, l, S, h, A, M, f)
      /\ Tree(u, Left(t, l), A, f)
      /\ Left(u, l) = Left(t, l) /\ Right(u, l) = n
      /\ Left(u, n) = Right(t, l) /\ Right(u, n) = r
      /\ ~Black(u, n) /\ (Black(u, l) <=> Black(t, n))
      /\ ~isRed(u, Left(t, l)) /\ ~isRed(u, Right(t, l)) /\ ~isRed(u, r)
  BY <1>1, <1>2, <1>3, <1>4, RotateRightTree
<1>6. n # Nil /\ isRed(u, n)
  <2>1. n \in Keys
    BY DEF Node
  <2>2. QED
    BY <1>5, <2>1, KeysAre, RedIs
<1>7. Tree(u, n, M, f)
  BY <1>5, NodeIsTree
<1>8. k \in M /\ Ready(u, n)
  BY <1>4, <1>6 DEF Ready
<1>9. QED
  BY <1>5, <1>6, <1>7, <1>8 DEF Righted

\* A call that finds the right child or the left one of it red goes on to it.
LEMMA RightedStay ==
  ASSUME NEW t, NEW n, NEW S, NEW h, NEW L, NEW R, NEW f, NEW k, NEW u \in Nodes,
         Node(u, n, S, h, L, R, f), n = Top(u), Freed(u) = Freed(t), Kept(t, u, S),
         ~isRed(u, Left(u, n)), Right(u, n) # Nil, k = n \/ k \in R,
         Ready(u, Right(u, n)), Black(u, n) <=> Black(t, n),
         Black(u, n) \/ ~isRed(u, Right(u, n))
  PROVE  Righted(t, n, k, S, h, u)
<1>1. /\ Fork(u, n, S, h, L, R, f) /\ Tree(u, Left(u, n), L, f) /\ Tree(u, Right(u, n), R, f)
  BY NodeIsFork
<1>2. Black(u, n) \/ Black(u, Right(u, n))
  BY RedIs
<1>3. QED
  BY <1>1, <1>2 DEF Righted

LEMMA RightedMove ==
  ASSUME NEW t, NEW n, NEW S, NEW h, NEW L, NEW R, NEW f, NEW k, NEW u \in Nodes,
         NEW l, NEW r, NEW A, NEW B, NEW e, NEW C, NEW D, NEW d,
         Node(u, n, S, h, L, R, f), l = Left(u, n), r = Right(u, n),
         Freed(u) = Freed(t), Kept(t, u, S),
         Node(u, l, L, f, A, B, e), Node(u, r, R, f, C, D, d),
         ~isRed(u, l), ~isRed(u, r), ~isRed(u, Right(u, l)),
         ~isRed(u, Left(u, r)), ~isRed(u, Right(u, r)),
         k = n \/ k \in R, ~(k < n), Black(u, n) <=> Black(t, n),
         Black(t, n) => ~Ready(t, n) /\ ~isRed(t, Right(t, n)),
         NEW w, w = moveRedRight(u, n)
  PROVE  Righted(t, n, k, S, h, w)
<1>1. /\ Fork(u, n, S, h, L, R, f) /\ n \in Keys /\ n # Nil
      /\ f \in Nat /\ h = f + (IF Black(u, n) THEN 1 ELSE 0)
  BY NodeIsFork, KeysAre DEF Node
<1>2. l \in Keys /\ l # Nil /\ r \in Keys /\ r # Nil
  BY KeysAre DEF Node
<1>3. PICK g : g = f - 1
  OBVIOUS
<1>4. PICK v : v = flipColors(u, n)
  OBVIOUS
<1>5. PICK x : x = rotateRight(v, n)
  OBVIOUS
<1>6. PICK j : j = g + (IF Black(v, n) THEN 1 ELSE 0)
  OBVIOUS
<1>7. /\ v \in Nodes /\ Top(v) = n /\ Freed(v) = Freed(u)
      /\ Kept(u, v, S)
      /\ Node(v, l, L, g, A, B, g) /\ Node(v, r, R, g, C, D, g)
      /\ Fork(v, n, S, j, L, R, g)
      /\ Left(v, n) = l /\ Right(v, n) = r /\ (Black(v, n) <=> ~Black(u, n))
      /\ Left(v, l) = Left(u, l) /\ Right(v, l) = Right(u, l)
      /\ Left(v, r) = Left(u, r) /\ Right(v, r) = Right(u, r)
      /\ isRed(v, l) /\ isRed(v, r)
      /\ ~isRed(v, Right(u, l))
      /\ ~isRed(v, Left(u, r)) /\ ~isRed(v, Right(u, r))
  BY <1>1, <1>3, <1>4, <1>6, FlipBlackTree
<1>8. Tree(v, r, R, g)
  BY <1>7, NodeIsTree
<1>9. w = IF isRed(v, Left(v, l)) THEN flipColors(x, Top(x)) ELSE v
  BY <1>4, <1>5, <1>7, MoveRedRightIs
<1>10. CASE ~isRed(v, Left(v, l))
  <2>1. w = v /\ Tree(v, l, L, g) /\ Ready(v, r)
    BY <1>7, <1>9, <1>10, NodeIsTree DEF Ready
  <2>2. ~Black(t, n) => j = h /\ Black(v, n)
    BY <1>1, <1>3, <1>6, <1>7
  <2>3. Freed(v) = Freed(t) /\ Kept(t, v, S)
    BY <1>7, KeptAll
  <2>4. QED
    BY <1>2, <1>7, <1>8, <2>1, <2>2, <2>3 DEF Righted
<1>11. CASE isRed(v, Left(v, l))
  <2>1. PICK M : M = B \cup {n} \cup R
    OBVIOUS
  <2>2. PICK i : i = Left(v, l)
    OBVIOUS
  <2>3. /\ x \in Nodes /\ Top(x) = l /\ Freed(x) = Freed(v) /\ Kept(v, x, S)
        /\ Node(x, n, M, g, B, R, g) /\ Fork(x, l, S, j, A, M, g)
        /\ Tree(x, i, A, g)
        /\ Left(x, l) = i /\ Right(x, l) = n
        /\ Left(x, n) = Right(v, l) /\ Right(x, n) = r
        /\ ~Black(x, n) /\ (Black(x, l) <=> Black(v, n))
        /\ isRed(x, i) /\ ~isRed(x, Right(v, l)) /\ isRed(x, r)
    BY <1>5, <1>7, <1>8, <1>11, <2>1, <2>2, RotateRightTree
  <2>4. PICK E, F : Node(x, i, A, g, E, F, g) /\ ~isRed(x, Right(x, i)) /\ ~isRed(x, Left(x, i))
    BY <2>3, RedTree
  <2>5. w = flipColors(x, l) /\ isRed(x, n)
    BY <1>1, <1>9, <1>11, <2>3, RedIs
  <2>6. /\ w \in Nodes /\ Top(w) = l /\ Freed(w) = Freed(x) /\ Kept(x, w, S)
        /\ Node(w, i, A, g + 1, E, F, g) /\ Node(w, n, M, g + 1, B, R, g)
        /\ Fork(w, l, S, (g + 1) + (IF Black(w, l) THEN 1 ELSE 0), A, M, g + 1)
        /\ Left(w, l) = i /\ Right(w, l) = n /\ (Black(w, l) <=> ~Black(x, l))
        /\ Left(w, i) = Left(x, i) /\ Right(w, i) = Right(x, i)
        /\ Left(w, n) = Left(x, n) /\ Right(w, n) = Right(x, n)
        /\ ~isRed(w, i) /\ ~isRed(w, n)
        /\ ~isRed(w, Left(x, i)) /\ ~isRed(w, Right(x, i))
        /\ ~isRed(w, Left(x, n)) /\ isRed(w, Right(x, n))
    BY <2>3, <2>4, <2>5, FlipRedTree
  <2>7. Black(w, n)
    BY <1>1, <2>6, RedIs
  <2>8. Tree(w, i, A, g + 1)
    BY <2>6, NodeIsTree
  <2>9. Leans(w, n, M, g + 1)
    BY <2>6, <2>7 DEF Leans
  <2>10. g + 1 = f /\ h = (g + 1) + (IF Black(w, l) THEN 1 ELSE 0) /\ (Black(w, l) <=> Black(t, n))
    BY <1>1, <1>3, <1>7, <2>3, <2>6
  <2>11. Fork(w, l, S, h, A, M, g + 1)
    BY <2>6, <2>10
  <2>12. Freed(w) = Freed(t) /\ Kept(t, w, S)
    BY <1>7, <2>3, <2>6, KeptAll
  <2>13. k \in M
    BY <2>1
  <2>14. QED
    BY <1>1, <2>6, <2>7, <2>8, <2>9, <2>10, <2>11, <2>12, <2>13 DEF Righted
<1>12. QED
  BY <1>10, <1>11

LEMMA EraseLeftIs ==
  ASSUME NEW c, NEW t \in Nodes, NEW n \in Keys, NEW k \in Keys, k < n,
         NEW u, u = ReadyLeft(t, n)
  PROVE  erase(c)[t][n][k] = fixUp(WithLeft(c.erase[u][Left(u, Top(u))][k], Top(u)))
BY DEF erase, Left, Top

LEMMA EraseRightIs ==
  ASSUME NEW c, NEW t \in Nodes, NEW n \in Keys, NEW k \in Keys, ~(k < n),
         NEW u, u = IF isRed(t, Left(t, n)) THEN rotateRight(t, n) ELSE [t EXCEPT !.top = n],
         NEW r, r = Right(u, Top(u)),
         NEW w, w = IF ~isRed(u, r) /\ ~isRed(u, Left(u, r))
                    THEN moveRedRight(u, Top(u)) ELSE u
  PROVE  erase(c)[t][n][k] =
           IF k = Top(u) /\ r = Nil
           THEN [erase_(u, k) EXCEPT !.top = Nil]
           ELSE fixUp(IF k = Top(w) THEN Replaced(c, w, Top(w))
                      ELSE WithRight(c.erase[w][Right(w, Top(w))][k], Top(w)))
<1>1. /\ t.left[n] = Left(t, n) /\ u.top = Top(u) /\ u.right[u.top] = r
      /\ u.left[r] = Left(u, r) /\ w.top = Top(w) /\ w.right[w.top] = Right(w, Top(w))
  BY DEF Left, Right, Top
<1>2. erase(c)[t][n][k] =
        LET a == IF isRed(t, t.left[n]) THEN rotateRight(t, n) ELSE [t EXCEPT !.top = n]
            b == a.right[a.top]
        IN IF k = a.top /\ b = Nil
           THEN [erase_(a, k) EXCEPT !.top = Nil]
           ELSE LET e == IF ~isRed(a, b) /\ ~isRed(a, a.left[b])
                         THEN moveRedRight(a, a.top) ELSE a
                IN fixUp(IF k = e.top THEN Replaced(c, e, e.top)
                         ELSE WithRight(c.erase[e][e.right[e.top]][k], e.top))
  BY DEF erase
<1>3. QED
  BY <1>1, <1>2

\* Whether the key is the node's own, with no child, or the call goes on.
Started(t, n, k, S, h, u, r, w) ==
  IF k = Top(u) /\ r = Nil
  THEN /\ Tree(t, n, S, h) /\ k = n /\ S = {n} /\ (Ready(t, n) => h = 1 /\ ~Black(t, n))
       /\ u = [t EXCEPT !.top = n]
  ELSE Righted(t, n, k, S, h, w)

LEMMA RightStart ==
  ASSUME NEW t \in Nodes, NEW n, NEW S, NEW h, NEW k \in S, n # Nil, ~(k < n),
         Tree(t, n, S, h) \/ Leans(t, n, S, h),
         NEW u, u = IF isRed(t, Left(t, n)) THEN rotateRight(t, n) ELSE [t EXCEPT !.top = n],
         NEW r, r = Right(u, Top(u)),
         NEW w, w = IF ~isRed(u, r) /\ ~isRed(u, Left(u, r))
                    THEN moveRedRight(u, Top(u)) ELSE u
  PROVE  Started(t, n, k, S, h, u, r, w)
<1>1. PICK L, R, f :
        /\ Node(t, n, S, h, L, R, f)
        /\ \/ /\ Tree(t, n, S, h) /\ ~isRed(t, Right(t, n))
              /\ Black(t, n) \/ ~isRed(t, Left(t, n))
           \/ Black(t, n) /\ ~isRed(t, Left(t, n)) /\ isRed(t, Right(t, n))
  BY TreeIsNode DEF Leans
<1>2. n \in Keys /\ n \in S /\ S \subseteq Keys /\ (k = n \/ k \in R) /\ R \subseteq Keys
  <2>1. n \in Keys /\ n \in S /\ S \subseteq Keys /\ R \subseteq Keys
    BY <1>1, NodeSize, NodeSides
  <2>2. k # n => k \in L \/ k \in R
    BY <1>1, NodeSides
  <2>3. k \in L => k < n
    BY <1>1, NodeSides
  <2>4. QED
    BY <2>1, <2>2, <2>3
<1>3. CASE isRed(t, Left(t, n))
  <2>1. u = rotateRight(t, n) /\ ~isRed(t, Right(t, n)) /\ Black(t, n)
    BY <1>1, <1>3
  <2>2. /\ Righted(t, n, k, S, h, u)
        /\ isRed(u, r) /\ r # Nil
    BY <1>1, <1>2, <1>3, <2>1, RightedTurn
  <2>3. w = u
    BY <2>2
  <2>4. QED
    BY <2>2, <2>3 DEF Started
<1>4. CASE ~isRed(t, Left(t, n))
  <2>1. u = [t EXCEPT !.top = n]
    BY <1>4
  <2>2. /\ u \in Nodes /\ Top(u) = n /\ Freed(u) = Freed(t)
        /\ \A y \in Keys : Alike(t, u, y)
    BY <1>2, <2>1, KeysAre, TopIs
  <2>3. /\ Same(t, u, S) /\ Kept(t, u, S)
        /\ Left(u, n) = Left(t, n) /\ Right(u, n) = Right(t, n) /\ (Black(u, n) <=> Black(t, n))
    BY <1>2, <2>2 DEF Same, Kept, Alike
  <2>4. /\ Node(u, n, S, h, L, R, f)
        /\ ~isRed(u, Left(u, n))
        /\ isRed(u, Right(u, n)) <=> isRed(t, Right(t, n))
    BY <1>1, <1>4, <2>3, SameNode
  <2>5. CASE k = n /\ r = Nil
    <3>1. Tree(t, n, S, h) /\ Right(t, n) = Nil
      <4>1. Right(t, n) = Nil
        BY <2>2, <2>3, <2>5
      <4>2. ~isRed(t, Right(t, n))
        BY <4>1, RedIs
      <4>3. QED
        BY <1>1, <4>1, <4>2
    <3>2. S = {n} /\ (Ready(t, n) => h = 1 /\ ~Black(t, n))
      BY <1>4, <3>1, LeafTree
    <3>3. QED
      BY <2>1, <2>2, <2>5, <3>1, <3>2 DEF Started
  <2>6. CASE ~(k = n /\ r = Nil)
    <3>1. r = Right(u, n)
      BY <2>2
    <3>2. Tree(u, r, R, f)
      BY <2>4, <3>1 DEF Node
    <3>3. r # Nil
      BY <1>2, <2>6, <3>2, NilIsTree
    <3>4. CASE isRed(u, r) \/ isRed(u, Left(u, r))
      <4>1. w = u
        BY <3>4
      <4>2. Ready(u, r)
        BY <3>4 DEF Ready
      <4>3. Black(u, n) \/ ~isRed(u, r)
        BY <1>1, <2>3, <2>4, <3>1
      <4>4. Righted(t, n, k, S, h, u)
        BY <1>2, <2>2, <2>3, <2>4, <3>1, <3>3, <4>2, <4>3, RightedStay
      <4>5. QED
        BY <2>2, <2>6, <4>1, <4>4 DEF Started
    <3>5. CASE ~isRed(u, r) /\ ~isRed(u, Left(u, r))
      <4>1. w = moveRedRight(u, n)
        BY <2>2, <3>5
      <4>2. PICK l : l = Left(u, n)
        OBVIOUS
      <4>3. /\ \E A, B, e : Node(u, l, L, f, A, B, e) /\ ~isRed(u, Right(u, l))
            /\ \E C, D, d : Node(u, r, R, f, C, D, d) /\ ~isRed(u, Right(u, r))
        BY <2>4, <3>1, <3>3, <3>5, <4>2, BlackChildren
      <4>4. PICK A, B, e : Node(u, l, L, f, A, B, e) /\ ~isRed(u, Right(u, l))
        BY <4>3
      <4>5. PICK C, D, d : Node(u, r, R, f, C, D, d) /\ ~isRed(u, Right(u, r))
        BY <4>3
      <4>6. ~isRed(t, Right(t, n)) /\ (Black(t, n) => ~Ready(t, n))
        BY <1>4, <2>4, <3>1, <3>5, RedIs DEF Ready
      <4>7. Righted(t, n, k, S, h, w)
        BY <1>2, <2>2, <2>3, <2>4, <3>1, <3>5, <4>1, <4>2, <4>4, <4>5, <4>6, RightedMove
      <4>8. QED
        BY <2>2, <2>6, <4>7 DEF Started
    <3>6. QED
      BY <3>4, <3>5
  <2>7. QED
    BY <2>2, <2>5, <2>6
<1>5. QED
  BY <1>3, <1>4

\* The nodes S have lost one.
Lost(t, S, h, T, x) ==
  /\ x \in Nodes /\ Top(x) \in Links /\ Freed(x) = Freed(t) + 1 /\ Kept(t, x, S)
  /\ Tree(x, Top(x), T, h) /\ ~isRed(x, Top(x))

\* What a call of erase does to either.
Erases1(t, n, k, S, h, T, x) ==
  /\ Tree(t, n, S, h) => Erased(t, n, S, h, T, 1, x)
  /\ Leans(t, n, S, h) /\ ~(k < n) => Lost(t, S, h, T, x)

Erases(d) ==
  \A t, n, k, S, h, T :
    t \in Nodes /\ k \in S /\ T = S \ {k} /\ Cardinality(S) <= d
      => Erases1(t, n, k, S, h, T, Calls[d].erase[t][n][k])

\* A key that is less than n's.
LEMMA EraseOnLeft ==
  ASSUME NEW d \in Nat, d # 0 => Erases(d - 1), NEW c, d # 0 => c = Calls[d - 1],
         NEW t \in Nodes, NEW n, NEW S, NEW h, Tree(t, n, S, h), Cardinality(S) <= d,
         NEW k \in S, k < n, NEW T, T = S \ {k}, NEW x, x = erase(c)[t][n][k]
  PROVE  Erased(t, n, S, h, T, 1, x)
<1>1. n \in Keys /\ k \in Keys /\ n # Nil
  <2>1. n \in S \cup {Nil} /\ S \subseteq Keys /\ n \in Links
    BY NilIsTree, TreeSize
  <2>2. k \in Nat
    BY <2>1, KeysAre
  <2>3. n # Nil
    BY <2>2 DEF Nil
  <2>4. QED
    BY <2>1, <2>3
<1>2. PICK L0, R0, f : Node(t, n, S, h, L0, R0, f)
  BY <1>1, TreeIsNode
<1>3. Left(t, n) # Nil
  <2>1. k \in L0 /\ Tree(t, Left(t, n), L0, f)
    BY <1>2, NodeSides DEF Node
  <2>2. QED
    BY <2>1, NilIsTree
<1>4. PICK u : u = ReadyLeft(t, n)
  OBVIOUS
<1>5. x = fixUp(WithLeft(c.erase[u][Left(u, Top(u))][k], Top(u)))
  BY <1>1, <1>4, EraseLeftIs
<1>6. Readied(t, n, S, h, u)
  BY <1>1, <1>3, <1>4, ReadyLeftTree
<1>7. PICK m, L, R, g, e :
    /\ u \in Nodes /\ m = Top(u) /\ Freed(u) = Freed(t) /\ Kept(t, u, S)
    /\ Node(u, m, S, e, L, R, g)
    /\ Left(u, m) # Nil /\ Ready(u, Left(u, m))
    /\ \A y \in S : y < n => y \in L
    /\ \/ /\ e = h /\ (Black(u, m) <=> Black(t, n)) /\ ~isRed(u, Right(u, m))
          /\ Black(t, n) \/ Black(u, Left(u, m))
       \/ e = h /\ Black(u, m) /\ ~Black(t, n)
       \/ ~Ready(t, n)
  BY <1>6 DEF Readied
<1>8. k \in L
  BY <1>7
<1>9. /\ Cardinality(L) \in Nat /\ Cardinality(R) \in Nat /\ Cardinality(S) \in Nat
      /\ Cardinality(S) = Cardinality(L) + 1 + Cardinality(R)
  BY <1>7, NodeSize
<1>10. Cardinality(L) <= d - 1 /\ d # 0
  BY <1>9
<1>11. PICK M : M = L \ {k}
  OBVIOUS
<1>12. Tree(u, Left(u, m), L, g)
  BY <1>7 DEF Node
<1>13. PICK w : w = c.erase[u][Left(u, m)][k]
  OBVIOUS
<1>14. Erased(u, Left(u, m), L, g, M, 1, w)
  BY <1>7, <1>8, <1>10, <1>11, <1>12, <1>13 DEF Erases, Erases1
<1>15. PICK v : v = WithLeft(w, m)
  OBVIOUS
<1>16. x = fixUp(v)
  BY <1>5, <1>7, <1>13, <1>15
<1>17. QED
  BY <1>7, <1>8, <1>11, <1>14, <1>15, <1>16, LeftFixed

\* The right subtree has lost a node, or n itself is gone.
LEMMA RightErased ==
  ASSUME NEW t, NEW n, NEW S, NEW h, NEW u, NEW m, NEW L, NEW g, NEW e, NEW T, NEW v,
         Freed(u) = Freed(t), Kept(t, u, S),
         \/ /\ e = h /\ (Black(u, m) <=> Black(t, n)) /\ ~isRed(u, Left(u, m))
            /\ Black(u, m) \/ Black(u, Right(u, m))
         \/ e = h /\ Black(u, m) /\ ~Black(t, n)
         \/ ~Ready(t, n) /\ ~isRed(t, Right(t, n)),
         Refilled(u, m, S, e, L, g, T, v), NEW x, x = fixUp(v)
  PROVE  /\ Erased(t, n, S, h, T, 1, x)
         /\ Ready(t, n) \/ isRed(t, Right(t, n)) =>
              /\ Tree(x, Top(x), T, h)
              /\ Black(t, n) => ~isRed(x, Top(x))
<1>1. /\ x \in Nodes /\ Top(x) \in Links /\ Freed(x) = Freed(u) + 1 /\ Kept(u, x, S)
      /\ Black(u, m) => Tree(x, Top(x), T, e)
      /\ Black(u, m) /\ (~isRed(u, Left(u, m)) \/ Black(u, Right(u, m))) => ~isRed(x, Top(x))
      /\ ~isRed(u, Left(u, m)) /\ Black(u, Right(u, m)) => Tree(x, Top(x), T, e)
      /\ \E j : Almost(x, Top(x), T, j)
  BY RightFixed
<1>2. Kept(t, x, S) /\ Freed(x) = Freed(t) + 1
  BY <1>1, KeptAll
<1>3. Ready(t, n) \/ isRed(t, Right(t, n)) =>
        /\ Tree(x, Top(x), T, h)
        /\ Black(t, n) => ~isRed(x, Top(x))
  <2>1. CASE /\ e = h /\ (Black(u, m) <=> Black(t, n)) /\ ~isRed(u, Left(u, m))
             /\ Black(u, m) \/ Black(u, Right(u, m))
    BY <1>1, <2>1
  <2>2. CASE e = h /\ Black(u, m) /\ ~Black(t, n)
    BY <1>1, <2>2
  <2>3. QED
    BY <2>1, <2>2
<1>4. QED
  BY <1>1, <1>2, <1>3 DEF Erased

\* Once the call has gone on: n is replaced, or the key is below n.
LEMMA EraseGoesOn ==
  ASSUME NEW d \in Nat, d # 0 => Erases(d - 1) /\ Mins(d - 1) /\ EraseMins(d - 1),
         NEW c, d # 0 => c = Calls[d - 1],
         NEW t \in Nodes, NEW n, NEW S, NEW h, Cardinality(S) <= d, IsFiniteSet(S),
         NEW k \in S, NEW T, T = S \ {k}, NEW u, Righted(t, n, k, S, h, u),
         NEW x, x = fixUp(IF k = Top(u) THEN Replaced(c, u, Top(u))
                          ELSE WithRight(c.erase[u][Right(u, Top(u))][k], Top(u)))
  PROVE  /\ Erased(t, n, S, h, T, 1, x)
         /\ Ready(t, n) \/ isRed(t, Right(t, n)) =>
              /\ Tree(x, Top(x), T, h)
              /\ Black(t, n) => ~isRed(x, Top(x))
<1>1. PICK m, L, R, g, e :
    /\ u \in Nodes /\ m = Top(u) /\ Freed(u) = Freed(t) /\ Kept(t, u, S)
    /\ Fork(u, m, S, e, L, R, g) /\ Tree(u, Left(u, m), L, g)
    /\ Right(u, m) # Nil /\ (k = m \/ k \in R)
    /\ \/ Tree(u, Right(u, m), R, g) /\ Ready(u, Right(u, m))
       \/ Leans(u, Right(u, m), R, g) /\ k \in R /\ ~(k < Right(u, m))
    /\ \/ /\ e = h /\ (Black(u, m) <=> Black(t, n)) /\ ~isRed(u, Left(u, m))
          /\ Black(u, m) \/ Black(u, Right(u, m))
       \/ e = h /\ Black(u, m) /\ ~Black(t, n)
       \/ ~Ready(t, n) /\ ~isRed(t, Right(t, n))
  BY DEF Righted
<1>2. /\ m \in S /\ m \notin R /\ S = L \cup {m} \cup R /\ R \subseteq S
  BY <1>1, ForkSize
<1>3. Cardinality(R) <= d - 1 /\ d # 0
  <2>1. IsFiniteSet(R) /\ R \subseteq S \ {m}
    BY <1>2, FS_Subset
  <2>2. Cardinality(S \ {m}) = Cardinality(S) - 1 /\ IsFiniteSet(S \ {m})
    BY <1>2, FS_RemoveElement
  <2>3. Cardinality(R) <= Cardinality(S \ {m}) /\ Cardinality(R) \in Nat
    BY <2>1, <2>2, FS_Subset, FS_CardinalityType
  <2>4. Cardinality(S) \in Nat
    BY FS_CardinalityType
  <2>5. QED
    BY <2>2, <2>3, <2>4
<1>4. PICK v : v = IF k = m THEN Replaced(c, u, m) ELSE WithRight(c.erase[u][Right(u, m)][k], m)
  OBVIOUS
<1>5. x = fixUp(v)
  BY <1>1, <1>4
<1>6. Refilled(u, m, S, e, L, g, T, v)
  <2>1. CASE k = m
    <3>1. Tree(u, Right(u, m), R, g) /\ Ready(u, Right(u, m))
      BY <1>1, <1>2, <2>1
    <3>2. PICK a, w, M : /\ a = c.findMin[u][Right(u, m)]
                         /\ w = c.eraseMin[u][Right(u, m)]
                         /\ M = R \ {a}
      OBVIOUS
    <3>3. Least(a, R)
      BY <1>1, <1>3, <3>1, <3>2 DEF Mins
    <3>4. Erased(u, Right(u, m), R, g, M, 0, w)
      BY <1>1, <1>3, <3>1, <3>2, <3>3 DEF EraseMins
    <3>5. v = Replaced(c, u, m) /\ T = S \ {m}
      BY <1>4, <2>1
    <3>6. QED
      BY <1>1, <3>1, <3>2, <3>3, <3>4, <3>5, ReplacedRefilled
  <2>2. CASE k # m
    <3>1. k \in R
      BY <1>1, <2>2
    <3>2. PICK w, M : w = c.erase[u][Right(u, m)][k] /\ M = R \ {k}
      OBVIOUS
    <3>3. /\ w \in Nodes /\ Top(w) \in Links /\ Freed(w) = Freed(u) + 1 /\ Kept(u, w, R)
          /\ Tree(w, Top(w), M, g) /\ (Black(u, Right(u, m)) => ~isRed(w, Top(w)))
      <4>1. CASE Tree(u, Right(u, m), R, g) /\ Ready(u, Right(u, m))
        <5>1. Erased(u, Right(u, m), R, g, M, 1, w)
          BY <1>1, <1>3, <3>1, <3>2, <4>1 DEF Erases, Erases1
        <5>2. QED
          BY <4>1, <5>1 DEF Erased
      <4>2. CASE Leans(u, Right(u, m), R, g) /\ k \in R /\ ~(k < Right(u, m))
        <5>1. Lost(u, R, g, M, w)
          BY <1>1, <1>3, <3>1, <3>2, <4>2 DEF Erases, Erases1
        <5>2. QED
          BY <5>1 DEF Lost
      <4>3. QED
        BY <1>1, <4>1, <4>2
    <3>4. v = WithRight(w, m)
      BY <1>4, <2>2, <3>2
    <3>5. QED
      BY <1>1, <3>1, <3>2, <3>3, <3>4, RightRefilled
  <2>3. QED
    BY <2>1, <2>2
<1>7. QED
  BY <1>1, <1>5, <1>6, RightErased

\* A key that is n's or more.
LEMMA EraseOnRight ==
  ASSUME NEW d \in Nat, d # 0 => Erases(d - 1) /\ Mins(d - 1) /\ EraseMins(d - 1),
         NEW c, d # 0 => c = Calls[d - 1],
         NEW t \in Nodes, NEW n, NEW S, NEW h, Cardinality(S) <= d, n # Nil, IsFiniteSet(S),
         Tree(t, n, S, h) \/ Leans(t, n, S, h), n \in Keys, S \subseteq Keys,
         NEW k \in S, ~(k < n), NEW T, T = S \ {k}, NEW x, x = erase(c)[t][n][k]
  PROVE  /\ Tree(t, n, S, h) => Erased(t, n, S, h, T, 1, x)
         /\ Leans(t, n, S, h) => Lost(t, S, h, T, x)
<1>1. PICK u : u = IF isRed(t, Left(t, n)) THEN rotateRight(t, n) ELSE [t EXCEPT !.top = n]
  OBVIOUS
<1>2. PICK r : r = Right(u, Top(u))
  OBVIOUS
<1>3. PICK w : w = IF ~isRed(u, r) /\ ~isRed(u, Left(u, r)) THEN moveRedRight(u, Top(u)) ELSE u
  OBVIOUS
<1>4. x = IF k = Top(u) /\ r = Nil
          THEN [erase_(u, k) EXCEPT !.top = Nil]
          ELSE fixUp(IF k = Top(w) THEN Replaced(c, w, Top(w))
                     ELSE WithRight(c.erase[w][Right(w, Top(w))][k], Top(w)))
  <2>1. k \in Keys
    OBVIOUS
  <2>2. QED
    BY <1>1, <1>2, <1>3, <2>1, EraseRightIs
<1>5. Started(t, n, k, S, h, u, r, w)
  BY <1>1, <1>2, <1>3, RightStart
<1>6. Leans(t, n, S, h) => Black(t, n) /\ isRed(t, Right(t, n))
  BY DEF Leans
<1>7. CASE k = Top(u) /\ r = Nil
  <2>1. /\ Tree(t, n, S, h) /\ k = n /\ S = {n} /\ (Ready(t, n) => h = 1 /\ ~Black(t, n))
        /\ u = [t EXCEPT !.top = n]
    BY <1>5, <1>7 DEF Started
  <2>2. /\ u \in Nodes /\ Freed(u) = Freed(t) /\ \A y \in Keys : Alike(t, u, y)
    BY <2>1, KeysAre, TopIs
  <2>3. PICK v : v = erase_(u, k)
    OBVIOUS
  <2>4. /\ v \in Nodes /\ Freed(v) = Freed(u) + 1 /\ \A y \in Keys : y # k => Alike(u, v, y)
    BY <2>2, <2>3, EraseIs
  <2>5. x = [v EXCEPT !.top = Nil]
    BY <1>4, <1>7, <2>3
  <2>6. /\ x \in Nodes /\ Top(x) = Nil /\ Freed(x) = Freed(v) /\ \A y \in Keys : Alike(v, x, y)
    BY <2>4, <2>5, KeysAre, TopIs
  <2>7. Kept(t, x, S)
    BY <2>1, <2>2, <2>4, <2>6 DEF Kept, Alike
  <2>8. T = {} /\ Tree(x, Nil, T, 1)
    <3>1. T = {}
      BY <2>1
    <3>2. QED
      BY <3>1, NilIsTree
  <2>9. ~isRed(x, Nil)
    BY RedIs
  <2>10. Erased(t, n, S, h, T, 1, x)
    BY <2>1, <2>2, <2>4, <2>6, <2>7, <2>8, <2>9, KeysAre DEF Erased
  <2>11. ~Leans(t, n, S, h)
    <3>1. ~isRed(t, Right(t, n))
      BY <2>1, TreeIsNode
    <3>2. QED
      BY <1>6, <3>1
  <2>12. QED
    BY <2>10, <2>11
<1>8. CASE ~(k = Top(u) /\ r = Nil)
  <2>1. Righted(t, n, k, S, h, w)
    BY <1>5, <1>8 DEF Started
  <2>2. x = fixUp(IF k = Top(w) THEN Replaced(c, w, Top(w))
                  ELSE WithRight(c.erase[w][Right(w, Top(w))][k], Top(w)))
    BY <1>4, <1>8
  <2>3. /\ Erased(t, n, S, h, T, 1, x)
        /\ Ready(t, n) \/ isRed(t, Right(t, n)) =>
             /\ Tree(x, Top(x), T, h)
             /\ Black(t, n) => ~isRed(x, Top(x))
    BY <2>1, <2>2, EraseGoesOn
  <2>4. Leans(t, n, S, h) => Lost(t, S, h, T, x)
    BY <1>6, <2>3 DEF Erased, Lost
  <2>5. QED
    BY <2>3, <2>4
<1>9. QED
  BY <1>7, <1>8

LEMMA EraseStep ==
  ASSUME NEW d \in Nat, d # 0 => Erases(d - 1)
  PROVE  Erases(d)
<1>1. SUFFICES ASSUME NEW t, NEW n, NEW k, NEW S, NEW h, NEW T,
                      t \in Nodes, k \in S, T = S \ {k}, Cardinality(S) <= d
               PROVE  Erases1(t, n, k, S, h, T, Calls[d].erase[t][n][k])
  BY DEF Erases
<1>2. PICK c : (d # 0 => c = Calls[d - 1]) /\ Calls[d].erase = erase(c)
  BY CallsAre
<1>3. PICK x : x = erase(c)[t][n][k]
  OBVIOUS
<1>4. d # 0 => Erases(d - 1) /\ Mins(d - 1) /\ EraseMins(d - 1)
  <2>1. d # 0 => d - 1 \in Nat
    OBVIOUS
  <2>2. QED
    BY <2>1, AllMin, AllEraseMin
<1>5. Tree(t, n, S, h) \/ Leans(t, n, S, h) =>
        n # Nil /\ n \in Keys /\ S \subseteq Keys /\ IsFiniteSet(S)
  <2>1. CASE Tree(t, n, S, h)
    <3>1. S # {} /\ S \subseteq Keys /\ IsFiniteSet(S)
      BY <1>1, <2>1, TreeSize
    <3>2. n # Nil /\ n \in S \cup {Nil}
      BY <2>1, <3>1, NilIsTree
    <3>3. QED
      BY <3>1, <3>2
  <2>2. CASE Leans(t, n, S, h)
    <3>1. PICK L, R, f : Node(t, n, S, h, L, R, f)
      BY <2>2 DEF Leans
    <3>2. n \in Keys /\ S \subseteq Keys /\ IsFiniteSet(S)
      BY <3>1, NodeSize, NodeSides
    <3>3. QED
      BY <3>2, KeysAre
  <2>3. QED
    BY <2>1, <2>2
<1>6. CASE k < n
  <2>1. Tree(t, n, S, h) => Erased(t, n, S, h, T, 1, x)
    BY <1>1, <1>2, <1>3, <1>6, EraseOnLeft
  <2>2. QED
    BY <1>2, <1>3, <1>6, <2>1 DEF Erases1
<1>7. CASE ~(k < n)
  <2>1. SUFFICES ASSUME Tree(t, n, S, h) \/ Leans(t, n, S, h)
                 PROVE  /\ Tree(t, n, S, h) => Erased(t, n, S, h, T, 1, x)
                        /\ Leans(t, n, S, h) => Lost(t, S, h, T, x)
    BY <1>2, <1>3 DEF Erases1
  <2>2. QED
    BY <1>1, <1>2, <1>3, <1>4, <1>5, <1>7, <2>1, EraseOnRight
<1>8. QED
  BY <1>6, <1>7

LEMMA AllErase == \A d \in Nat : Erases(d)
<1> DEFINE S == {d \in Nat : Erases(d)}
<1>1. 0 \in S
  BY EraseStep
<1>2. ASSUME NEW d \in Nat, d \in S PROVE d + 1 \in S
  <2>1. (d + 1) - 1 = d /\ d + 1 \in Nat
    OBVIOUS
  <2>2. Erases((d + 1) - 1)
    BY <1>2, <2>1
  <2>3. QED
    BY <2>1, <2>2, EraseStep
<1>3. \A d \in Nat : d \in S
  <2> HIDE DEF S
  <2>1. QED
    BY <1>1, <1>2, Induction
<1>4. QED
  BY <1>3

-----------------------------------------------------------------------------
(* What the properties and the operations read in a tree. *)

MeasuresTo(g, m) == g = [i \in 0..m |-> Measuring(IF i = 0 THEN << >> ELSE g[i - 1])]

LEMMA MeasuresAgree ==
  ASSUME NEW g, NEW h, NEW m \in Nat, NEW l \in Nat, MeasuresTo(g, m), MeasuresTo(h, l)
  PROVE  \A i \in Nat : i <= m /\ i <= l => g[i] = h[i]
<1> DEFINE S == {i \in Nat : i <= m /\ i <= l => g[i] = h[i]}
<1>0. /\ \A i \in 0..m : g[i] = Measuring(IF i = 0 THEN << >> ELSE g[i - 1])
      /\ \A i \in 0..l : h[i] = Measuring(IF i = 0 THEN << >> ELSE h[i - 1])
  BY DEF MeasuresTo
<1>1. 0 \in S
  BY <1>0
<1>2. ASSUME NEW n \in Nat, n \in S PROVE n + 1 \in S
  <2>1. SUFFICES ASSUME n + 1 <= m, n + 1 <= l PROVE g[n + 1] = h[n + 1]
    OBVIOUS
  <2>2. g[n] = h[n]
    BY <1>2, <2>1
  <2>3. n + 1 \in 0..m /\ n + 1 \in 0..l /\ n + 1 # 0 /\ (n + 1) - 1 = n
    BY <2>1
  <2>4. g[n + 1] = Measuring(g[n]) /\ h[n + 1] = Measuring(h[n])
    BY <1>0, <2>3
  <2>5. QED
    BY <2>2, <2>4
<1>3. \A n \in Nat : n \in S
  <2> HIDE DEF S
  <2>1. QED
    BY <1>1, <1>2, Induction
<1>4. QED
  BY <1>3

LEMMA MeasuresExist == \A m \in Nat : \E g : MeasuresTo(g, m)
<1> DEFINE S == {m \in Nat : \E g : MeasuresTo(g, m)}
<1>1. 0 \in S
  <2>1. MeasuresTo([i \in 0..0 |-> Measuring(<< >>)], 0)
    BY DEF MeasuresTo
  <2>2. QED
    BY <2>1
<1>2. ASSUME NEW n \in Nat, n \in S PROVE n + 1 \in S
  <2>1. PICK g : MeasuresTo(g, n)
    BY <1>2
  <2>2. PICK h : h = [i \in 0..(n + 1) |-> IF i <= n THEN g[i] ELSE Measuring(g[n])]
    OBVIOUS
  <2>3. ASSUME NEW i \in 0..(n + 1)
        PROVE  h[i] = Measuring(IF i = 0 THEN << >> ELSE h[i - 1])
    <3>1. CASE i <= n
      <4>1. i \in 0..n /\ h[i] = g[i]
        BY <2>2, <3>1
      <4>2. g[i] = Measuring(IF i = 0 THEN << >> ELSE g[i - 1])
        BY <2>1, <4>1 DEF MeasuresTo
      <4>3. i # 0 => h[i - 1] = g[i - 1]
        BY <2>2, <3>1
      <4>4. QED
        BY <4>1, <4>2, <4>3
    <3>2. CASE ~(i <= n)
      <4>1. i = n + 1 /\ i # 0 /\ i - 1 = n /\ n \in 0..(n + 1)
        BY <3>2
      <4>2. h[i] = Measuring(g[n]) /\ h[n] = g[n]
        BY <2>2, <3>2, <4>1
      <4>3. QED
        BY <4>1, <4>2
    <3>3. QED
      BY <3>1, <3>2
  <2>4. h = [i \in 0..(n + 1) |-> h[i]]
    BY <2>2
  <2>5. MeasuresTo(h, n + 1)
    BY <2>3, <2>4 DEF MeasuresTo
  <2>6. QED
    BY <2>5
<1>3. \A n \in Nat : n \in S
  <2> HIDE DEF S
  <2>1. QED
    BY <1>1, <1>2, Induction
<1>4. QED
  BY <1>3

\* The measures are what their definitions say of those one call deeper.
LEMMA MeasuresIs ==
  \A d \in Nat : Measures[d] = Measuring(IF d = 0 THEN << >> ELSE Measures[d - 1])
<1> DEFINE G(m) == CHOOSE g : MeasuresTo(g, m)
           F == [m \in Nat |-> G(m)[m]]
<1>1. \A m \in Nat : MeasuresTo(G(m), m)
  BY MeasuresExist
<1>2. ASSUME NEW d \in Nat
      PROVE  F[d] = Measuring(IF d = 0 THEN << >> ELSE F[d - 1])
  <2>1. G(d)[d] = Measuring(IF d = 0 THEN << >> ELSE G(d)[d - 1])
    <3>1. d \in 0..d
      OBVIOUS
    <3>2. QED
      BY <1>1, <3>1 DEF MeasuresTo
  <2>2. d # 0 => G(d)[d - 1] = G(d - 1)[d - 1]
    <3> HIDE DEF G
    <3>1. SUFFICES ASSUME d # 0 PROVE G(d)[d - 1] = G(d - 1)[d - 1]
      OBVIOUS
    <3>2. d - 1 \in Nat /\ d - 1 <= d
      BY <3>1
    <3>3. QED
      BY <1>1, <3>2, MeasuresAgree
  <2>3. F[d] = G(d)[d] /\ (d # 0 => F[d - 1] = G(d - 1)[d - 1])
    OBVIOUS
  <2>4. QED
    BY <2>1, <2>2, <2>3
<1>3. F = [d \in Nat |-> Measuring(IF d = 0 THEN << >> ELSE F[d - 1])]
  <2>1. F = [d \in Nat |-> F[d]]
    OBVIOUS
  <2>2. QED
    BY <1>2, <2>1
<1>4. Measures = [d \in Nat |-> Measuring(IF d = 0 THEN << >> ELSE Measures[d - 1])]
  <2> HIDE DEF F
  <2>1. QED
    BY <1>3 DEF Measures
<1>5. QED
  BY <1>4

LEMMA MeasuresAre ==
  ASSUME NEW d \in Nat
  PROVE  \E c : /\ d # 0 => c = Measures[d - 1]
               /\ Measures[d].below = below(c)
               /\ Measures[d].blackHeight = blackHeight(c)
<1>1. PICK c : c = IF d = 0 THEN << >> ELSE Measures[d - 1]
  OBVIOUS
<1>2. Measures[d] = Measuring(c)
  BY <1>1, MeasuresIs
<1>3. /\ Measuring(c).below = below(c)
      /\ Measuring(c).blackHeight = blackHeight(c)
  BY DEF Measuring
<1>4. QED
  BY <1>1, <1>2, <1>3

\* No red node is on the right, or below a red node.
Leaning(t, S) ==
  \A x \in S : ~isRed(t, Right(t, x)) /\ (Black(t, x) \/ ~isRed(t, Left(t, x)))

\* What the measures and the functions that only read find in a tree.
ReadsOf(c, e, t, n, S, h) ==
  /\ e.below[t][n] = S
  /\ e.blackHeight[t][n] = h
  /\ \A k \in Keys : c.find[t][n][k] = IF k \in S THEN k ELSE Nil
  /\ c.forEach[t][n] \in Seq(Keys) /\ Len(c.forEach[t][n]) = Cardinality(S)
  /\ Leaning(t, S)

Reads(d) ==
  \A t, n, S, h : t \in Nodes /\ Tree(t, n, S, h) /\ Cardinality(S) <= d
                    => ReadsOf(Calls[d], Measures[d], t, n, S, h)

LEMMA BelowIs ==
  ASSUME NEW e, NEW t \in Nodes, NEW n \in Links, NEW b, b = below(e)[t][n],
         NEW l, l = e.below[t][Left(t, n)], NEW r, r = e.below[t][Right(t, n)]
  PROVE  (n = Nil => b = {}) /\ (n # Nil => b = {n} \cup l \cup r)
BY DEF below, Left, Right

LEMMA BlackHeightIs ==
  ASSUME NEW e, NEW t \in Nodes, NEW n \in Links, NEW l, l = e.blackHeight[t][Left(t, n)]
  PROVE  blackHeight(e)[t][n] =
           IF n = Nil THEN 1
           ELSE IF l # e.blackHeight[t][Right(t, n)] \/ l = Nil THEN Nil
           ELSE l + (IF Black(t, n) THEN 1 ELSE 0)
BY DEF blackHeight, Left, Right, Black

LEMMA FindIs ==
  ASSUME NEW c, NEW t \in Nodes, NEW n \in Links, NEW k \in Keys
  PROVE  find(c)[t][n][k] = IF n = Nil \/ n = k THEN n
                            ELSE IF k < n THEN c.find[t][Left(t, n)][k]
                            ELSE c.find[t][Right(t, n)][k]
BY DEF find, Left, Right

LEMMA ForEachIs ==
  ASSUME NEW c, NEW t \in Nodes, NEW n \in Links
  PROVE  forEach(c)[t][n] =
           IF n = Nil THEN << >>
           ELSE c.forEach[t][Left(t, n)] \o <<n>> \o c.forEach[t][Right(t, n)]
BY DEF forEach, Left, Right

LEMMA ReadsStep ==
  ASSUME NEW d \in Nat, d # 0 => Reads(d - 1)
  PROVE  Reads(d)
<1>1. SUFFICES ASSUME NEW t, NEW n, NEW S, NEW h,
                      t \in Nodes, Tree(t, n, S, h), Cardinality(S) <= d
               PROVE  ReadsOf(Calls[d], Measures[d], t, n, S, h)
  BY DEF Reads
<1>2. PICK c : /\ d # 0 => c = Calls[d - 1]
               /\ Calls[d].find = find(c) /\ Calls[d].forEach = forEach(c)
  BY CallsAre
<1>3. PICK e : /\ d # 0 => e = Measures[d - 1]
               /\ Measures[d].below = below(e) /\ Measures[d].blackHeight = blackHeight(e)
  BY MeasuresAre
<1>4. PICK b, a, s : /\ b = below(e)[t][n] /\ a = blackHeight(e)[t][n]
                     /\ s = forEach(c)[t][n]
  OBVIOUS
<1>5. SUFFICES /\ b = S /\ a = h
               /\ \A k \in Keys : find(c)[t][n][k] = IF k \in S THEN k ELSE Nil
               /\ s \in Seq(Keys) /\ Len(s) = Cardinality(S)
               /\ Leaning(t, S)
  BY <1>2, <1>3, <1>4 DEF ReadsOf
<1>6. n \in Links /\ t \in Nodes
  BY <1>1, NilIsTree
<1>7. CASE n = Nil
  <2>1. n = Nil \/ S = {} => n = Nil /\ S = {} /\ h = 1
    BY <1>1, NilIsTree
  <2>2. S = {} /\ h = 1
    BY <1>7, <2>1
  <2>3. b = {} /\ a = 1 /\ s = << >>
    <3>1. b = {}
      BY <1>4, <1>6, <1>7, BelowIs
    <3>2. blackHeight(e)[t][n] = 1
      BY <1>6, <1>7, BlackHeightIs
    <3>3. forEach(c)[t][n] = << >>
      BY <1>6, <1>7, ForEachIs
    <3>4. QED
      BY <1>4, <3>1, <3>2, <3>3
  <2>4. \A k \in Keys : find(c)[t][n][k] = Nil
    BY <1>6, <1>7, FindIs
  <2>5. Cardinality(S) = 0
    BY <2>2, FS_EmptySet
  <2>6. QED
    BY <2>2, <2>3, <2>4, <2>5 DEF Leaning
<1>8. CASE n # Nil
  <2>1. PICK L, R, f : /\ Node(t, n, S, h, L, R, f)
                       /\ ~isRed(t, Right(t, n)) /\ (Black(t, n) \/ ~isRed(t, Left(t, n)))
    BY <1>1, <1>8, TreeIsNode
  <2>2. PICK l, r : l = Left(t, n) /\ r = Right(t, n)
    OBVIOUS
  <2>3. /\ n \in Keys /\ Tree(t, l, L, f) /\ Tree(t, r, R, f) /\ S = L \cup {n} \cup R
        /\ f \in Nat \ {0} /\ h = f + (IF Black(t, n) THEN 1 ELSE 0)
    BY <2>1, <2>2 DEF Node
  <2>4. /\ Cardinality(L) \in Nat /\ Cardinality(R) \in Nat /\ Cardinality(S) \in Nat
        /\ Cardinality(S) = Cardinality(L) + 1 + Cardinality(R)
    BY <2>1, NodeSize
  <2>5. Cardinality(L) <= d - 1 /\ Cardinality(R) <= d - 1 /\ d # 0
    BY <1>1, <2>4
  <2>6. ReadsOf(c, e, t, l, L, f) /\ ReadsOf(c, e, t, r, R, f)
    BY <1>1, <1>2, <1>3, <2>3, <2>5 DEF Reads
  <2>7. /\ e.below[t][l] = L /\ e.below[t][r] = R
        /\ e.blackHeight[t][l] = f /\ e.blackHeight[t][r] = f
    BY <2>6 DEF ReadsOf
  <2>8. b = S
    <3>1. b = {n} \cup L \cup R
      BY <1>4, <1>6, <1>8, <2>2, <2>7, BelowIs
    <3>2. QED
      BY <2>3, <3>1
  <2>9. a = h
    <3>1. f # Nil
      BY <2>3 DEF Nil
    <3>2. a = f + (IF Black(t, n) THEN 1 ELSE 0)
      BY <1>4, <1>6, <1>8, <2>2, <2>7, <3>1, BlackHeightIs
    <3>3. QED
      BY <2>3, <3>2
  <2>10. ASSUME NEW k \in Keys PROVE find(c)[t][n][k] = IF k \in S THEN k ELSE Nil
    <3>1. /\ c.find[t][l][k] = IF k \in L THEN k ELSE Nil
          /\ c.find[t][r][k] = IF k \in R THEN k ELSE Nil
      BY <2>6 DEF ReadsOf
    <3>2. find(c)[t][n][k] = IF n = Nil \/ n = k THEN n
                             ELSE IF k < n THEN c.find[t][l][k] ELSE c.find[t][r][k]
      BY <1>6, <2>2, FindIs
    <3>3. k = n \/ k < n \/ n < k
      BY <2>3, KeysAre
    <3>4. /\ k < n /\ k \in S => k \in L
          /\ n < k /\ k \in S => k \in R
          /\ n < k => ~(k < n) /\ k # n
          /\ k < n => k # n
      <4>1. k \in Nat /\ n \in Nat
        BY <2>3, KeysAre
      <4>2. QED
        BY <2>1, <4>1, NodeSides
    <3>5. QED
      BY <1>8, <2>3, <3>1, <3>2, <3>3, <3>4
  <2>11. s \in Seq(Keys) /\ Len(s) = Cardinality(S)
    <3>1. PICK p, q : p = c.forEach[t][l] /\ q = c.forEach[t][r]
      OBVIOUS
    <3>2. /\ p \in Seq(Keys) /\ Len(p) = Cardinality(L)
          /\ q \in Seq(Keys) /\ Len(q) = Cardinality(R)
      BY <2>6, <3>1 DEF ReadsOf
    <3>3. s = p \o <<n>> \o q
      BY <1>4, <1>6, <1>8, <2>2, <3>1, ForEachIs
    <3>4. <<n>> \in Seq(Keys) /\ Len(<<n>>) = 1
      BY <2>3
    <3>8. PICK z : z = p \o <<n>>
      OBVIOUS
    <3>5. z \in Seq(Keys) /\ Len(z) = Len(p) + 1
      BY <3>2, <3>4, <3>8
    <3>9. s = z \o q
      BY <3>3, <3>8
    <3>6. s \in Seq(Keys)
      BY <3>2, <3>5, <3>9
    <3>10. Len(s) = Len(z) + Len(q)
      <4>1. q \in Seq(Keys)
        BY <3>2
      <4>2. Len(z \o q) = Len(z) + Len(q)
        BY <3>5, <4>1, ConcatProperties
      <4>3. QED
        BY <3>9, <4>2
    <3>7. QED
      BY <2>4, <3>2, <3>5, <3>6, <3>10
  <2>12. Leaning(t, S)
    <3>1. Leaning(t, L) /\ Leaning(t, R)
      BY <2>6 DEF ReadsOf
    <3>2. QED
      BY <2>1, <2>3, <3>1 DEF Leaning
  <2>13. QED
    BY <2>8, <2>9, <2>10, <2>11, <2>12
<1>9. QED
  BY <1>7, <1>8

LEMMA AllReads == \A d \in Nat : Reads(d)
<1> DEFINE S == {d \in Nat : Reads(d)}
<1>1. 0 \in S
  BY ReadsStep
<1>2. ASSUME NEW d \in Nat, d \in S PROVE d + 1 \in S
  <2>1. (d + 1) - 1 = d /\ d + 1 \in Nat
    OBVIOUS
  <2>2. Reads((d + 1) - 1)
    BY <1>2, <2>1
  <2>3. QED
    BY <2>1, <2>2, ReadsStep
<1>3. \A d \in Nat : d \in S
  <2> HIDE DEF S
  <2>1. QED
    BY <1>1, <1>2, Induction
<1>4. QED
  BY <1>3

\* A tree has no more nodes than there are keys.
LEMMA TreeFits ==
  ASSUME NEW t, NEW n, NEW S, NEW h, Tree(t, n, S, h)
  PROVE  Cardinality(Keys) \in Nat /\ Cardinality(S) <= Cardinality(Keys)
BY TreeSize, KeysAre, FS_Subset, FS_CardinalityType

LEMMA CallReads ==
  ASSUME NEW t \in Nodes, NEW n, NEW S, NEW h, Tree(t, n, S, h)
  PROVE  /\ Below(t, n) = S /\ BlackHeight(t, n) = h
         /\ \A k \in Keys : Call.find[t][n][k] = IF k \in S THEN k ELSE Nil
         /\ Len(Call.forEach[t][n]) = Cardinality(S)
         /\ Leaning(t, S)
<1>1. PICK d : d = Cardinality(Keys)
  OBVIOUS
<1>2. d \in Nat /\ Cardinality(S) <= d
  BY <1>1, TreeFits
<1>3. ReadsOf(Calls[d], Measures[d], t, n, S, h)
  BY <1>2, AllReads DEF Reads
<1>4. Call = Calls[d] /\ Below(t, n) = Measures[d].below[t][n]
        /\ BlackHeight(t, n) = Measures[d].blackHeight[t][n]
  BY <1>1 DEF Call, Below, BlackHeight
<1>5. QED
  BY <1>3, <1>4 DEF ReadsOf

LEMMA CallInserts ==
  ASSUME NEW t \in Nodes, NEW n, NEW S, NEW h, Tree(t, n, S, h), NEW k \in Keys,
         NEW T, T = S \cup {k}
  PROVE  Inserted(t, n, k, S, h, T, Call.insert[t][n][k])
<1>1. Cardinality(Keys) \in Nat /\ Cardinality(S) <= Cardinality(Keys)
  BY TreeFits
<1>2. QED
  BY <1>1, AllInsert DEF Inserts, Call

LEMMA CallErases ==
  ASSUME NEW t \in Nodes, NEW n, NEW S, NEW h, Tree(t, n, S, h), NEW k \in S,
         NEW T, T = S \ {k}
  PROVE  Erased(t, n, S, h, T, 1, Call.erase[t][n][k])
<1>1. Cardinality(Keys) \in Nat /\ Cardinality(S) <= Cardinality(Keys)
  BY TreeFits
<1>2. Erases1(t, n, k, S, h, T, Call.erase[t][n][k])
  BY <1>1, AllErase DEF Erases, Call
<1>3. QED
  BY <1>2 DEF Erases1

-----------------------------------------------------------------------------
(* Subtrees, and iteration. *)

Parent(t, x) == t.parent[x]

\* The nodes T are next to each other among S, and have their children.
Between(t, S, T) ==
  /\ T \subseteq S
  /\ \A s \in S : \A a, b \in T : a < s /\ s < b => s \in T
  /\ \A x \in T : Left(t, x) \in T \cup {Nil} /\ Right(t, x) \in T \cup {Nil}

\* Below every node of a tree is a tree.
Subtree(t, S, y, T) == y \in T /\ Between(t, S, T) /\ \E g : Tree(t, y, T, g)

Subtrees(d) ==
  \A t, n, S, h : Tree(t, n, S, h) /\ Cardinality(S) <= d
                    => \A y \in S : \E T : Subtree(t, S, y, T)

LEMMA SubtreesStep ==
  ASSUME NEW d \in Nat, d # 0 => Subtrees(d - 1)
  PROVE  Subtrees(d)
<1>1. SUFFICES ASSUME NEW t, NEW n, NEW S, NEW h, NEW y \in S,
                      Tree(t, n, S, h), Cardinality(S) <= d
               PROVE  \E T : Subtree(t, S, y, T)
  BY DEF Subtrees
<1>2. n # Nil /\ S \subseteq Keys
  BY <1>1, NilIsTree, TreeSize
<1>3. PICK L, R, f : Node(t, n, S, h, L, R, f)
  BY <1>1, <1>2, TreeIsNode
<1>4. /\ Tree(t, Left(t, n), L, f) /\ Tree(t, Right(t, n), R, f) /\ S = L \cup {n} \cup R
      /\ (\A x \in L : x < n) /\ (\A x \in R : n < x) /\ n \in Keys
  BY <1>3 DEF Node
<1>5. /\ Cardinality(L) \in Nat /\ Cardinality(R) \in Nat /\ Cardinality(S) \in Nat
      /\ Cardinality(S) = Cardinality(L) + 1 + Cardinality(R)
  BY <1>3, NodeSize
<1>6. Cardinality(L) <= d - 1 /\ Cardinality(R) <= d - 1 /\ d # 0
  BY <1>1, <1>5
<1>7. /\ \A x \in L : \E T : Subtree(t, L, x, T)
      /\ \A x \in R : \E T : Subtree(t, R, x, T)
  BY <1>4, <1>6 DEF Subtrees
<1>8. n \in Nat /\ S \subseteq Nat /\ L \subseteq Nat /\ R \subseteq Nat
  BY <1>2, <1>4, KeysAre
<1>9. CASE y \in L
  <2>1. PICK T : Subtree(t, L, y, T)
    BY <1>7, <1>9
  <2>2. T \subseteq L /\ (\A s \in L : \A a, b \in T : a < s /\ s < b => s \in T)
    BY <2>1 DEF Subtree, Between
  <2>3. ASSUME NEW s \in S, NEW a \in T, NEW b \in T, a < s, s < b PROVE s \in T
    <3>1. s < n
      BY <1>4, <1>8, <2>2, <2>3
    <3>2. s \in L
      BY <1>4, <1>8, <2>3, <3>1
    <3>3. QED
      BY <2>2, <2>3, <3>2
  <2>4. Subtree(t, S, y, T)
    BY <1>4, <2>1, <2>2, <2>3 DEF Subtree, Between
  <2>5. QED
    BY <2>4
<1>10. CASE y \in R
  <2>1. PICK T : Subtree(t, R, y, T)
    BY <1>7, <1>10
  <2>2. T \subseteq R /\ (\A s \in R : \A a, b \in T : a < s /\ s < b => s \in T)
    BY <2>1 DEF Subtree, Between
  <2>3. ASSUME NEW s \in S, NEW a \in T, NEW b \in T, a < s, s < b PROVE s \in T
    <3>1. n < s
      BY <1>4, <1>8, <2>2, <2>3
    <3>2. s \in R
      BY <1>4, <1>8, <2>3, <3>1
    <3>3. QED
      BY <2>2, <2>3, <3>2
  <2>4. Subtree(t, S, y, T)
    BY <1>4, <2>1, <2>2, <2>3 DEF Subtree, Between
  <2>5. QED
    BY <2>4
<1>11. CASE y = n
  <2>1. Left(t, n) \in L \cup {Nil} /\ Right(t, n) \in R \cup {Nil}
    BY <1>4, NilIsTree
  <2>2. \A x \in L : Left(t, x) \in L \cup {Nil} /\ Right(t, x) \in L \cup {Nil}
    <3>1. ASSUME NEW x \in L
          PROVE  Left(t, x) \in L \cup {Nil} /\ Right(t, x) \in L \cup {Nil}
      <4>1. PICK T : Subtree(t, L, x, T)
        BY <1>7
      <4>2. QED
        BY <4>1 DEF Subtree, Between
    <3>2. QED
      BY <3>1
  <2>3. \A x \in R : Left(t, x) \in R \cup {Nil} /\ Right(t, x) \in R \cup {Nil}
    <3>1. ASSUME NEW x \in R
          PROVE  Left(t, x) \in R \cup {Nil} /\ Right(t, x) \in R \cup {Nil}
      <4>1. PICK T : Subtree(t, R, x, T)
        BY <1>7
      <4>2. QED
        BY <4>1 DEF Subtree, Between
    <3>2. QED
      BY <3>1
  <2>4. Between(t, S, S)
    BY <1>4, <2>1, <2>2, <2>3 DEF Between
  <2>5. Subtree(t, S, y, S)
    BY <1>1, <1>11, <2>4 DEF Subtree
  <2>6. QED
    BY <2>5
<1>12. QED
  BY <1>4, <1>9, <1>10, <1>11

LEMMA AllSubtrees == \A d \in Nat : Subtrees(d)
<1> DEFINE S == {d \in Nat : Subtrees(d)}
<1>1. 0 \in S
  BY SubtreesStep
<1>2. ASSUME NEW d \in Nat, d \in S PROVE d + 1 \in S
  <2>1. (d + 1) - 1 = d /\ d + 1 \in Nat
    OBVIOUS
  <2>2. Subtrees((d + 1) - 1)
    BY <1>2, <2>1
  <2>3. QED
    BY <2>1, <2>2, SubtreesStep
<1>3. \A d \in Nat : d \in S
  <2> HIDE DEF S
  <2>1. QED
    BY <1>1, <1>2, Induction
<1>4. QED
  BY <1>3

LEMMA SubtreeOf ==
  ASSUME NEW t, NEW n, NEW S, NEW h, Tree(t, n, S, h), NEW y \in S
  PROVE  /\ \E T : Subtree(t, S, y, T)
         /\ Left(t, y) \in S \cup {Nil} /\ Right(t, y) \in S \cup {Nil}
<1>1. Cardinality(S) \in Nat
  BY TreeSize
<1>2. \E T : Subtree(t, S, y, T)
  BY <1>1, AllSubtrees DEF Subtrees
<1>3. QED
  BY <1>2 DEF Subtree, Between

LEMMA OneTree ==
  ASSUME NEW t \in Nodes, NEW n, NEW S, NEW h, Tree(t, n, S, h),
         NEW T, NEW g, Tree(t, n, T, g)
  PROVE  T = S
<1>1. Below(t, n) = S
  BY CallReads
<1>2. Below(t, n) = T
  BY CallReads
<1>3. QED
  BY <1>1, <1>2

\* Above every node of P but n is its parent, which is in P too.
Path(t, n, P) ==
  /\ n \in P
  /\ \A y \in P : y # n => /\ Parent(t, y) \in P
                           /\ Left(t, Parent(t, y)) = y \/ Right(t, Parent(t, y)) = y

\* Only the parents differ, and those of S but for n's.
Marks(t, u, S, n) ==
  /\ u \in Nodes /\ Top(u) = Top(t) /\ Freed(u) = Freed(t)
  /\ \A x \in Keys : Alike(t, u, x) /\ (x \notin S \/ x = n => Parent(u, x) = Parent(t, x))

LEMMA MarkIs ==
  ASSUME NEW t \in Nodes, NEW n \in Keys, NEW l \in Keys, NEW u, u = [t EXCEPT !.parent[l] = n]
  PROVE  /\ u \in Nodes /\ Top(u) = Top(t) /\ Freed(u) = Freed(t) /\ Parent(u, l) = n
         /\ \A x \in Keys : Alike(t, u, x) /\ (x # l => Parent(u, x) = Parent(t, x))
<1>1. PICK p \in [Keys -> Links] : p = [t.parent EXCEPT ![l] = n]
  BY NodesAre, KeysAre
<1>2. u = [t EXCEPT !.parent = p]
  BY <1>1
<1>3. Has(u, t.left, t.right, t.black, p, t.top, t.freed)
  BY <1>2, NodesAre, PutParent
<1>4. p[l] = n /\ \A x \in Keys \ {l} : p[x] = t.parent[x]
  BY <1>1, NodesAre
<1>5. QED
  BY <1>3, <1>4 DEF Has, Alike, Left, Right, Black, Parent, Top, Freed

LEMMA TopParents ==
  ASSUME NEW t \in Nodes, NEW n \in Links, NEW u, u = [t EXCEPT !.top = n]
  PROVE  \A x : Parent(u, x) = Parent(t, x)
<1>1. Has(u, t.left, t.right, t.black, t.parent, n, t.freed)
  BY NodesAre, PutTop
<1>2. u.parent = t.parent
  BY <1>1 DEF Has
<1>3. QED
  BY <1>2 DEF Parent

\* startIterating marks the way to the least node below n.
Spined(t, n, S, s) ==
  /\ Marks(t, s.nodes, S, n)
  /\ Least(s.at, S)
  /\ \E P : P \subseteq S /\ s.at \in P /\ Path(s.nodes, n, P)

Starts(d) ==
  \A t, n, S, h : t \in Nodes /\ n # Nil /\ Tree(t, n, S, h) /\ Cardinality(S) <= d
                    => Spined(t, n, S, Calls[d].startIterating[t][n])

LEMMA StartIs ==
  ASSUME NEW c, NEW t \in Nodes, NEW n \in Keys, NEW l, l = Left(t, n),
         NEW u, u = [t EXCEPT !.parent[l] = n]
  PROVE  startIterating(c)[t][n] =
           IF l = Nil THEN [nodes |-> t, at |-> n] ELSE c.startIterating[u][l]
<1>1. t.left[n] = l
  BY DEF Left
<1>2. startIterating(c)[t][n] =
        IF t.left[n] = Nil THEN [nodes |-> t, at |-> n]
        ELSE c.startIterating[[t EXCEPT !.parent[t.left[n]] = n]][t.left[n]]
  BY DEF startIterating
<1>3. QED
  BY <1>1, <1>2

LEMMA StartStep ==
  ASSUME NEW d \in Nat, d # 0 => Starts(d - 1)
  PROVE  Starts(d)
<1>1. SUFFICES ASSUME NEW t, NEW n, NEW S, NEW h,
                      t \in Nodes, n # Nil, Tree(t, n, S, h), Cardinality(S) <= d
               PROVE  Spined(t, n, S, Calls[d].startIterating[t][n])
  BY DEF Starts
<1>2. PICK c : (d # 0 => c = Calls[d - 1]) /\ Calls[d].startIterating = startIterating(c)
  BY CallsAre
<1>3. PICK L, R, f : Node(t, n, S, h, L, R, f)
  BY <1>1, TreeIsNode
<1>4. /\ n \in Keys /\ n \in S /\ n \notin L /\ L \subseteq S /\ S \subseteq Keys
      /\ Tree(t, Left(t, n), L, f)
  <2>1. n \in S /\ n \notin L /\ S \subseteq Keys
    BY <1>3, NodeSize
  <2>2. QED
    BY <1>3, <2>1 DEF Node
<1>5. /\ Cardinality(L) \in Nat /\ Cardinality(R) \in Nat /\ Cardinality(S) \in Nat
      /\ Cardinality(S) = Cardinality(L) + 1 + Cardinality(R)
  BY <1>3, NodeSize
<1>6. Cardinality(L) <= d - 1 /\ d # 0
  BY <1>1, <1>5
<1>7. PICK l : l = Left(t, n)
  OBVIOUS
<1>8. PICK u : u = [t EXCEPT !.parent[l] = n]
  OBVIOUS
<1>9. PICK s : s = startIterating(c)[t][n]
  OBVIOUS
<1>10. s = IF l = Nil THEN [nodes |-> t, at |-> n] ELSE c.startIterating[u][l]
  BY <1>1, <1>4, <1>7, <1>8, <1>9, StartIs
<1>11. SUFFICES Spined(t, n, S, s)
  BY <1>2, <1>9
<1>12. CASE l = Nil
  <2>1. s.nodes = t /\ s.at = n
    BY <1>10, <1>12
  <2>2. Least(n, S)
    BY <1>3, <1>7, <1>12, LeastLeft
  <2>3. Marks(t, t, S, n)
    BY <1>1 DEF Marks, Alike
  <2>4. {n} \subseteq S /\ n \in {n} /\ Path(t, n, {n})
    BY <1>4 DEF Path
  <2>5. QED
    BY <2>1, <2>2, <2>3, <2>4 DEF Spined
<1>13. CASE l # Nil
  <2>1. l \in L /\ l \in Keys
    BY <1>4, <1>7, <1>13, NilIsTree
  <2>2. /\ u \in Nodes /\ Top(u) = Top(t) /\ Freed(u) = Freed(t) /\ Parent(u, l) = n
        /\ \A x \in Keys : Alike(t, u, x) /\ (x # l => Parent(u, x) = Parent(t, x))
    BY <1>1, <1>4, <1>8, <2>1, MarkIs
  <2>3. Tree(u, l, L, f)
    <3>1. Same(t, u, L)
      BY <1>4, <2>2 DEF Same
    <3>2. QED
      BY <1>4, <1>7, <3>1, SameTree
  <2>4. s = c.startIterating[u][l]
    BY <1>10, <1>13
  <2>5. Spined(u, l, L, s)
    BY <1>2, <1>6, <1>13, <2>2, <2>3, <2>4 DEF Starts
  <2>6. PICK v, m : v = s.nodes /\ m = s.at
    OBVIOUS
  <2>7. PICK P : /\ Marks(u, v, L, l) /\ Least(m, L)
                 /\ P \subseteq L /\ m \in P /\ Path(v, l, P)
    BY <2>5, <2>6 DEF Spined
  <2>8. Marks(t, v, S, n)
    BY <1>4, <2>1, <2>2, <2>7 DEF Marks, Alike
  <2>9. Least(m, S)
    BY <1>3, <1>7, <1>13, <2>7, LeastLeft
  <2>10. PICK Q : Q = P \cup {n}
    OBVIOUS
  <2>11. Parent(v, l) = n /\ Left(v, n) = l
    BY <1>4, <1>7, <2>1, <2>2, <2>7 DEF Marks, Alike
  <2>12. Q \subseteq S /\ m \in Q /\ n \in Q
    BY <1>4, <2>7, <2>10
  <2>13. Path(v, n, Q)
    BY <2>7, <2>10, <2>11, <2>12 DEF Path
  <2>14. QED
    BY <2>6, <2>8, <2>9, <2>12, <2>13 DEF Spined
<1>14. QED
  BY <1>12, <1>13

LEMMA AllStart == \A d \in Nat : Starts(d)
<1> DEFINE S == {d \in Nat : Starts(d)}
<1>1. 0 \in S
  BY StartStep
<1>2. ASSUME NEW d \in Nat, d \in S PROVE d + 1 \in S
  <2>1. (d + 1) - 1 = d /\ d + 1 \in Nat
    OBVIOUS
  <2>2. Starts((d + 1) - 1)
    BY <1>2, <2>1
  <2>3. QED
    BY <2>1, <2>2, StartStep
<1>3. \A d \in Nat : d \in S
  <2> HIDE DEF S
  <2>1. QED
    BY <1>1, <1>2, Induction
<1>4. QED
  BY <1>3

LEMMA CallStarts ==
  ASSUME NEW t \in Nodes, NEW n, n # Nil, NEW S, NEW h, Tree(t, n, S, h)
  PROVE  Spined(t, n, S, Call.startIterating[t][n])
<1>1. Cardinality(Keys) \in Nat /\ Cardinality(S) <= Cardinality(Keys)
  BY TreeFits
<1>2. QED
  BY <1>1, AllStart DEF Starts, Call

-----------------------------------------------------------------------------
(* The next node, above one that has nothing on its right. *)

\* The least of S that is greater than x.
After(r, S, x) ==
  /\ r = Nil => \A y \in S : y <= x
  /\ r # Nil => r \in S /\ x < r /\ \A y \in S : x < y => r <= y

\* x is the greatest node below y, which is on the path P.
Climbing(t, n, S, P, y, T, x) ==
  /\ t \in Nodes /\ (\E h : Tree(t, n, S, h))
  /\ P \subseteq S /\ Path(t, n, P) /\ Parent(t, n) = Nil
  /\ y \in P /\ Subtree(t, S, y, T) /\ x \in T /\ \A z \in T : z <= x

Climbs(d) ==
  \A t, n, S, P, y, T, x :
    Climbing(t, n, S, P, y, T, x) /\ Cardinality(S) <= d + Cardinality(T)
      => /\ Calls[d].Ascend[t][y] \in P \cup {Nil}
         /\ After(Calls[d].Ascend[t][y], S, x)

LEMMA AscendIs ==
  ASSUME NEW c, NEW t \in Nodes, NEW n \in Keys, NEW p, p = Parent(t, n)
  PROVE  /\ p = Nil \/ Left(t, p) = n => Ascend(c)[t][n] = p
         /\ p # Nil /\ Left(t, p) # n => Ascend(c)[t][n] = c.Ascend[t][p]
BY DEF Ascend, Left, Parent

\* At the root, x is the greatest of all.
LEMMA ClimbedOut ==
  ASSUME NEW t, NEW n, NEW S, NEW P, NEW y, NEW T, NEW x, Climbing(t, n, S, P, y, T, x),
         Parent(t, y) = Nil
  PROVE  After(Nil, S, x)
<1>1. PICK h : Tree(t, n, S, h)
  BY DEF Climbing
<1>2. PICK g : Tree(t, y, T, g)
  BY DEF Climbing, Subtree
<1>3. S \subseteq Keys
  BY <1>1, TreeSize
<1>4. y = n
  BY <1>3, KeysAre DEF Climbing, Path
<1>5. t \in Nodes
  BY DEF Climbing
<1>6. T = S
  BY <1>1, <1>2, <1>4, <1>5, OneTree
<1>7. QED
  BY <1>6 DEF Climbing, After

\* From a left child, the next node is its parent.
LEMMA ClimbedLeft ==
  ASSUME NEW t \in Nodes, NEW S, S \subseteq Keys, NEW p, NEW U, Subtree(t, S, p, U),
         NEW T, NEW g, Tree(t, Left(t, p), T, g), p # Nil,
         NEW x \in T, \A z \in T : z <= x
  PROVE  After(p, S, x)
<1>1. PICK e : Tree(t, p, U, e)
  BY DEF Subtree
<1>2. PICK L, R, f : Node(t, p, U, e, L, R, f)
  BY <1>1, TreeIsNode
<1>3. Tree(t, Left(t, p), L, f) /\ L \subseteq U
  BY <1>2 DEF Node
<1>4. T = L
  BY <1>3, OneTree
<1>5. p \in U /\ x \in U /\ U \subseteq S
  BY <1>3, <1>4 DEF Subtree, Between
<1>6. x < p
  BY <1>2, <1>4, NodeSides
<1>7. S \subseteq Nat
  BY KeysAre
<1>8. ASSUME NEW z \in S, x < z, ~(p <= z) PROVE FALSE
  <2>1. z < p
    BY <1>5, <1>7, <1>8
  <2>2. z \in U
    BY <1>5, <1>8, <2>1 DEF Subtree, Between
  <2>3. z \in L
    BY <1>2, <2>1, <2>2, NodeSides
  <2>4. z <= x
    BY <1>4, <2>3
  <2>5. QED
    BY <1>5, <1>7, <1>8, <2>4
<1>9. QED
  BY <1>5, <1>6, <1>8 DEF After

\* From a right child, x is the greatest node below the parent too.
LEMMA ClimbedRight ==
  ASSUME NEW t \in Nodes, NEW S, S \subseteq Keys, NEW p, NEW U, Subtree(t, S, p, U),
         NEW T, NEW g, Tree(t, Right(t, p), T, g), p # Nil,
         NEW x \in T, \A z \in T : z <= x
  PROVE  /\ x \in U /\ \A z \in U : z <= x
         /\ Cardinality(T) \in Nat /\ Cardinality(U) \in Nat /\ Cardinality(S) \in Nat
         /\ Cardinality(T) + 1 <= Cardinality(U) /\ Cardinality(U) <= Cardinality(S)
<1>1. PICK e : Tree(t, p, U, e)
  BY DEF Subtree
<1>2. PICK L, R, f : Node(t, p, U, e, L, R, f)
  BY <1>1, TreeIsNode
<1>3. Tree(t, Right(t, p), R, f) /\ R \subseteq U
  BY <1>2 DEF Node
<1>4. T = R
  BY <1>3, OneTree
<1>5. U \subseteq S /\ U \subseteq Nat /\ p \in U
  BY KeysAre DEF Subtree, Between
<1>6. ASSUME NEW z \in U PROVE z <= x
  <2>1. CASE p < z
    BY <1>2, <1>4, <1>6, <2>1, NodeSides
  <2>2. CASE ~(p < z)
    <3>1. p < x /\ x \in U
      BY <1>2, <1>3, <1>4, NodeSides
    <3>2. QED
      BY <1>5, <2>2, <3>1
  <2>3. QED
    BY <2>1, <2>2
<1>7. /\ Cardinality(T) \in Nat /\ Cardinality(U) \in Nat /\ Cardinality(L) \in Nat
      /\ Cardinality(U) = Cardinality(L) + 1 + Cardinality(R)
  BY <1>2, <1>4, NodeSize
<1>8. IsFiniteSet(S)
  BY KeysAre, FS_Subset
<1>9. Cardinality(S) \in Nat /\ Cardinality(U) <= Cardinality(S)
  BY <1>5, <1>8, FS_Subset, FS_CardinalityType
<1>10. QED
  BY <1>3, <1>4, <1>6, <1>7, <1>9

LEMMA ClimbStep ==
  ASSUME NEW d \in Nat, d # 0 => Climbs(d - 1)
  PROVE  Climbs(d)
<1>1. SUFFICES ASSUME NEW t, NEW n, NEW S, NEW P, NEW y, NEW T, NEW x,
                      Climbing(t, n, S, P, y, T, x),
                      Cardinality(S) <= d + Cardinality(T)
               PROVE  /\ Calls[d].Ascend[t][y] \in P \cup {Nil}
                      /\ After(Calls[d].Ascend[t][y], S, x)
  BY DEF Climbs
<1>2. PICK c : (d # 0 => c = Calls[d - 1]) /\ Calls[d].Ascend = Ascend(c)
  BY CallsAre
<1>3. PICK p : p = Parent(t, y)
  OBVIOUS
<1>4. PICK r : r = Ascend(c)[t][y]
  OBVIOUS
<1>5. SUFFICES r \in P \cup {Nil} /\ After(r, S, x)
  BY <1>2, <1>4
<1>6. PICK h : Tree(t, n, S, h)
  BY <1>1 DEF Climbing
<1>7. /\ t \in Nodes /\ S \subseteq Keys /\ y \in S /\ y \in Keys
      /\ x \in T /\ (\A z \in T : z <= x) /\ P \subseteq S
  <2>1. S \subseteq Keys
    BY <1>6, TreeSize
  <2>2. QED
    BY <1>1, <2>1 DEF Climbing
<1>8. CASE p = Nil
  <2>1. r = Nil
    <3>1. p = Nil \/ Left(t, p) = y => Ascend(c)[t][y] = p
      BY <1>3, <1>7, AscendIs
    <3>2. QED
      BY <1>4, <1>8, <3>1
  <2>2. After(Nil, S, x)
    BY <1>1, <1>3, <1>8, ClimbedOut
  <2>3. QED
    BY <2>1, <2>2
<1>9. CASE p # Nil
  <2>1. p \in P /\ (Left(t, p) = y \/ Right(t, p) = y)
    BY <1>1, <1>3, <1>9 DEF Climbing, Path
  <2>2. PICK U : Subtree(t, S, p, U)
    BY <1>6, <1>7, <2>1, SubtreeOf
  <2>3. PICK g : Tree(t, y, T, g)
    BY <1>1 DEF Climbing, Subtree
  <2>4. CASE Left(t, p) = y
    <3>1. r = p
      BY <1>3, <1>4, <1>7, <2>4, AscendIs
    <3>2. Tree(t, Left(t, p), T, g)
      BY <2>3, <2>4
    <3>3. After(p, S, x)
      BY <1>7, <1>9, <2>2, <3>2, ClimbedLeft
    <3>4. QED
      BY <2>1, <3>1, <3>3
  <2>5. CASE Left(t, p) # y
    <3>1. Tree(t, Right(t, p), T, g)
      BY <2>1, <2>3, <2>5
    <3>2. /\ x \in U /\ \A z \in U : z <= x
          /\ Cardinality(T) \in Nat /\ Cardinality(U) \in Nat /\ Cardinality(S) \in Nat
          /\ Cardinality(T) + 1 <= Cardinality(U) /\ Cardinality(U) <= Cardinality(S)
      BY <1>7, <1>9, <2>2, <3>1, ClimbedRight
    <3>3. d # 0 /\ d - 1 \in Nat /\ Cardinality(S) <= (d - 1) + Cardinality(U)
      BY <1>1, <3>2
    <3>4. Climbing(t, n, S, P, p, U, x)
      BY <1>1, <2>1, <2>2, <3>2 DEF Climbing
    <3>5. r = c.Ascend[t][p]
      BY <1>3, <1>4, <1>7, <1>9, <2>5, AscendIs
    <3>6. QED
      BY <1>2, <3>3, <3>4, <3>5 DEF Climbs
  <2>6. QED
    BY <2>4, <2>5
<1>10. QED
  BY <1>8, <1>9

LEMMA AllClimb == \A d \in Nat : Climbs(d)
<1> DEFINE S == {d \in Nat : Climbs(d)}
<1>1. 0 \in S
  BY ClimbStep
<1>2. ASSUME NEW d \in Nat, d \in S PROVE d + 1 \in S
  <2>1. (d + 1) - 1 = d /\ d + 1 \in Nat
    OBVIOUS
  <2>2. Climbs((d + 1) - 1)
    BY <1>2, <2>1
  <2>3. QED
    BY <2>1, <2>2, ClimbStep
<1>3. \A d \in Nat : d \in S
  <2> HIDE DEF S
  <2>1. QED
    BY <1>1, <1>2, Induction
<1>4. QED
  BY <1>3

LEMMA CallAscends ==
  ASSUME NEW t, NEW n, NEW S, NEW P, NEW y, NEW T, NEW x, Climbing(t, n, S, P, y, T, x),
         NEW r, r = Call.Ascend[t][y]
  PROVE  r \in P \cup {Nil} /\ After(r, S, x)
<1>1. PICK h, g : Tree(t, n, S, h) /\ Tree(t, y, T, g)
  BY DEF Climbing, Subtree
<1>2. Cardinality(Keys) \in Nat /\ Cardinality(S) <= Cardinality(Keys)
  BY <1>1, TreeFits
<1>3. Cardinality(T) \in Nat /\ Cardinality(S) \in Nat
  BY <1>1, TreeSize
<1>4. PICK d \in Nat : d = Cardinality(Keys)
  BY <1>2
<1>5. Cardinality(S) <= d + Cardinality(T)
  BY <1>2, <1>3, <1>4
<1>6. Calls[d].Ascend[t][y] \in P \cup {Nil} /\ After(Calls[d].Ascend[t][y], S, x)
  BY <1>5, AllClimb DEF Climbs
<1>7. Call = Calls[d]
  BY <1>4 DEF Call
<1>8. QED
  BY <1>6, <1>7

-----------------------------------------------------------------------------
(* nextNode, and the root. *)

LEMMA NextIs ==
  ASSUME NEW t \in Nodes, NEW n \in Keys, NEW r, r = Right(t, n),
         NEW u, u = [t EXCEPT !.parent[r] = n], NEW s, s = nextNode(t, n)
  PROVE  /\ r # Nil => s = Call.startIterating[u][r]
         /\ r = Nil => s.nodes = t /\ s.at = Call.Ascend[t][n]
<1>1. t.right[n] = r
  BY DEF Right
<1>2. s = IF r # Nil THEN Call.startIterating[u][r]
          ELSE [nodes |-> t, at |-> Call.Ascend[t][n]]
  BY <1>1 DEF nextNode
<1>3. QED
  BY <1>2

\* An iteration of the tree below n stands at x.
Iterating(t, n, S, x) == \E P : P \subseteq S /\ x \in P /\ Path(t, n, P)

\* What it does to the nodes S below n.
Nexted(t, n, S, x, s) ==
  /\ Marks(t, s.nodes, S, n)
  /\ After(s.at, S, x)
  /\ s.at # Nil => Iterating(s.nodes, n, S, s.at)

LEMMA NextUp ==
  ASSUME NEW t \in Nodes, NEW n, NEW S, NEW h, Tree(t, n, S, h), Parent(t, n) = Nil,
         NEW x \in S, Iterating(t, n, S, x), Right(t, x) = Nil,
         NEW r, r = Call.Ascend[t][x]
  PROVE  After(r, S, x) /\ (r # Nil => Iterating(t, n, S, r))
<1>1. PICK P : P \subseteq S /\ x \in P /\ Path(t, n, P)
  BY DEF Iterating
<1>2. PICK T : Subtree(t, S, x, T)
  BY SubtreeOf
<1>3. PICK g : Tree(t, x, T, g)
  BY <1>2 DEF Subtree
<1>4. S \subseteq Keys
  BY TreeSize
<1>5. x \in T /\ x # Nil /\ T \subseteq Nat
  BY <1>2, <1>4, KeysAre DEF Subtree, Between
<1>6. PICK L, R, f : Node(t, x, T, g, L, R, f)
  BY <1>3, <1>5, TreeIsNode
<1>7. Tree(t, Nil, R, f)
  BY <1>6 DEF Node
<1>8. R = {}
  <2>1. Nil = Nil \/ R = {} => Nil = Nil /\ R = {} /\ f = 1
    BY <1>7, NilIsTree
  <2>2. QED
    BY <2>1
<1>9. ASSUME NEW z \in T PROVE z <= x
  <2>1. ~(x < z)
    BY <1>6, <1>8, <1>9, NodeSides
  <2>2. QED
    BY <1>5, <1>9, <2>1
<1>10. Climbing(t, n, S, P, x, T, x)
  BY <1>1, <1>2, <1>5, <1>9 DEF Climbing
<1>11. r \in P \cup {Nil} /\ After(r, S, x)
  BY <1>10, CallAscends
<1>12. QED
  BY <1>1, <1>11 DEF Iterating

\* A path that leaves x for its right subtree R.
LEMMA PathTurns ==
  ASSUME NEW t \in Nodes, NEW n, NEW S, NEW h, Tree(t, n, S, h),
         NEW P, P \subseteq S, NEW x \in P, Path(t, n, P),
         NEW r \in Keys, r = Right(t, x),
         NEW R, NEW f, Tree(t, r, R, f), R \subseteq S, x \notin R,
         NEW u, Parent(u, r) = x,
         \A y \in Keys : Alike(t, u, y) /\ (y # r => Parent(u, y) = Parent(t, y)),
         NEW v, Marks(u, v, R, r),
         NEW O, O \subseteq R, NEW m \in O, Path(v, r, O)
  PROVE  Iterating(v, n, S, m) /\ Parent(v, n) = Parent(t, n)
<1>1. S \subseteq Keys /\ Nil \notin Keys /\ n \in S
  BY TreeSize, KeysAre DEF Path
<1>2. n \notin R
  <2>1. SUFFICES ASSUME n \in R PROVE FALSE
    OBVIOUS
  <2>2. PICK U : Subtree(t, R, n, U)
    BY <2>1, SubtreeOf
  <2>3. PICK g : Tree(t, n, U, g)
    BY <2>2 DEF Subtree
  <2>4. U = S
    BY <2>3, OneTree
  <2>5. QED
    BY <2>2, <2>4 DEF Subtree, Between
<1>3. r \in R
  BY NilIsTree, KeysAre
<1>4. PICK Q : Q = (P \ R) \cup O
  OBVIOUS
<1>5. Q \subseteq S /\ m \in Q /\ n \in Q
  BY <1>2, <1>4 DEF Path
<1>6. \A y \in Keys : Left(v, y) = Left(t, y) /\ Right(v, y) = Right(t, y)
  BY DEF Marks, Alike
<1>7. /\ Parent(v, r) = x
      /\ \A y \in Keys : y \notin R => Parent(v, y) = Parent(t, y)
  BY <1>3 DEF Marks
<1>8. ASSUME NEW y \in Q, y # n
      PROVE  /\ Parent(v, y) \in Q
             /\ Left(v, Parent(v, y)) = y \/ Right(v, Parent(v, y)) = y
  <2>1. CASE y \in O /\ y # r
    <3>1. /\ Parent(v, y) \in O
          /\ Left(v, Parent(v, y)) = y \/ Right(v, Parent(v, y)) = y
      BY <2>1 DEF Path
    <3>2. QED
      BY <1>4, <3>1
  <2>2. CASE y = r
    BY <1>1, <1>4, <1>6, <1>7, <2>2
  <2>3. CASE y \notin O
    <3>1. y \in P /\ y \notin R /\ y \in Keys
      BY <1>1, <1>4, <2>3
    <3>2. PICK p : p = Parent(t, y)
      OBVIOUS
    <3>3. p \in P /\ p \in Keys /\ (Left(t, p) = y \/ Right(t, p) = y)
      BY <1>1, <1>8, <3>1, <3>2 DEF Path
    <3>4. p \notin R
      <4>1. p \in R => Left(t, p) \in R \cup {Nil} /\ Right(t, p) \in R \cup {Nil}
        BY SubtreeOf
      <4>2. QED
        BY <1>1, <3>1, <3>3, <4>1
    <3>5. Parent(v, y) = p /\ p \in Q
      BY <1>4, <1>7, <3>1, <3>2, <3>3, <3>4
    <3>6. QED
      BY <1>6, <3>3, <3>5
  <2>4. QED
    BY <2>1, <2>2, <2>3
<1>9. Path(v, n, Q)
  BY <1>5, <1>8 DEF Path
<1>10. QED
  BY <1>1, <1>2, <1>5, <1>7, <1>9 DEF Iterating

\* The least node on x's right is the next one.
LEMMA RightIsNext ==
  ASSUME NEW t, NEW S, S \subseteq Keys, NEW x, NEW T, Between(t, S, T), x \in T,
         NEW g, NEW L, NEW R, NEW f, Node(t, x, T, g, L, R, f), NEW m, Least(m, R)
  PROVE  After(m, S, x) /\ m # Nil /\ x \notin R /\ R \subseteq S
<1>1. T \subseteq S /\ R \subseteq T /\ x \notin R
  BY NodeSize DEF Between, Node
<1>2. m \in S /\ x < m /\ m \in R /\ m \in T
  BY <1>1, NodeSides DEF Least
<1>3. S \subseteq Nat /\ Nil \notin S
  BY KeysAre
<1>4. ASSUME NEW z \in S, x < z, ~(m <= z) PROVE FALSE
  <2>1. z < m
    BY <1>2, <1>3, <1>4
  <2>2. z \in T
    BY <1>2, <1>4, <2>1 DEF Between
  <2>3. z \in R
    BY <1>4, <2>2, NodeSides
  <2>4. QED
    BY <1>4, <2>3 DEF Least
<1>5. QED
  BY <1>1, <1>2, <1>3, <1>4 DEF After

LEMMA NextDown ==
  ASSUME NEW t \in Nodes, NEW n, NEW S, NEW h, Tree(t, n, S, h),
         NEW x \in S, Iterating(t, n, S, x), NEW r, r = Right(t, x), r # Nil,
         NEW u, u = [t EXCEPT !.parent[r] = x], NEW s, s = Call.startIterating[u][r]
  PROVE  Nexted(t, n, S, x, s)
<1>1. PICK P : P \subseteq S /\ x \in P /\ Path(t, n, P)
  BY DEF Iterating
<1>2. PICK T : Subtree(t, S, x, T)
  BY SubtreeOf
<1>3. PICK g : Tree(t, x, T, g)
  BY <1>2 DEF Subtree
<1>4. S \subseteq Keys
  BY TreeSize
<1>5. x \in T /\ x # Nil /\ Between(t, S, T) /\ x \in Keys
  BY <1>2, <1>4, KeysAre DEF Subtree
<1>6. PICK L, R, f : Node(t, x, T, g, L, R, f)
  BY <1>3, <1>5, TreeIsNode
<1>7. Tree(t, r, R, f)
  BY <1>6 DEF Node
<1>8. r \in R /\ R \subseteq Keys /\ r \in Keys
  <2>1. r \in R /\ R \subseteq Keys
    BY <1>7, NilIsTree, TreeSize
  <2>2. QED
    BY <2>1
<1>9. /\ u \in Nodes /\ Top(u) = Top(t) /\ Freed(u) = Freed(t) /\ Parent(u, r) = x
      /\ \A y \in Keys : Alike(t, u, y) /\ (y # r => Parent(u, y) = Parent(t, y))
  BY <1>5, <1>8, MarkIs
<1>10. Tree(u, r, R, f)
  <2>1. Same(t, u, R)
    BY <1>8, <1>9 DEF Same
  <2>2. QED
    BY <1>7, <2>1, SameTree
<1>11. Spined(u, r, R, s)
  BY <1>9, <1>10, CallStarts
<1>12. PICK v, m : v = s.nodes /\ m = s.at
  OBVIOUS
<1>13. PICK O : /\ Marks(u, v, R, r) /\ Least(m, R)
                /\ O \subseteq R /\ m \in O /\ Path(v, r, O)
  BY <1>11, <1>12 DEF Spined
<1>14. After(m, S, x) /\ m # Nil /\ x \notin R /\ R \subseteq S
  BY <1>4, <1>5, <1>6, <1>13, RightIsNext
<1>15. Iterating(v, n, S, m) /\ Parent(v, n) = Parent(t, n)
  BY <1>1, <1>7, <1>8, <1>9, <1>13, <1>14, PathTurns
<1>16. Marks(t, v, S, n)
  BY <1>8, <1>9, <1>13, <1>14, <1>15 DEF Marks, Alike
<1>17. QED
  BY <1>12, <1>14, <1>15, <1>16 DEF Nexted

LEMMA NodeNexts ==
  ASSUME NEW t \in Nodes, NEW n, NEW S, NEW h, Tree(t, n, S, h), Parent(t, n) = Nil,
         NEW x \in S, Iterating(t, n, S, x), NEW s, s = nextNode(t, x)
  PROVE  Nexted(t, n, S, x, s)
<1>1. PICK r : r = Right(t, x)
  OBVIOUS
<1>2. PICK u : u = [t EXCEPT !.parent[r] = x]
  OBVIOUS
<1>3. x \in Keys
  BY TreeSize
<1>4. /\ r # Nil => s = Call.startIterating[u][r]
      /\ r = Nil => s.nodes = t /\ s.at = Call.Ascend[t][x]
  BY <1>1, <1>2, <1>3, NextIs
<1>5. CASE r # Nil
  BY <1>1, <1>2, <1>4, <1>5, NextDown
<1>6. CASE r = Nil
  <2>1. s.nodes = t /\ s.at = Call.Ascend[t][x]
    BY <1>4, <1>6
  <2>2. After(s.at, S, x) /\ (s.at # Nil => Iterating(t, n, S, s.at))
    BY <1>1, <1>6, <2>1, NextUp
  <2>3. Marks(t, t, S, n)
    BY DEF Marks, Alike
  <2>4. QED
    BY <2>1, <2>2, <2>3 DEF Nexted
<1>7. QED
  BY <1>5, <1>6

LEMMA RootedIs ==
  ASSUME NEW t \in Nodes, NEW n, n = Top(t), NEW u, u = Rooted(t)
  PROVE  /\ u \in Nodes /\ Top(u) = n /\ Freed(u) = 0
         /\ n # Nil => Black(u, n) /\ Parent(u, n) = Nil
         /\ \A x : Left(u, x) = Left(t, x) /\ Right(u, x) = Right(t, x)
         /\ \A x \in Keys : x # n => (Black(u, x) <=> Black(t, x))
<1>1. t.top = n /\ n \in Links /\ 0 \in Nat
  BY NodesAre DEF Top
<1>2. CASE n = Nil
  <2>1. u = [t EXCEPT !.freed = 0]
    BY <1>1, <1>2 DEF Rooted
  <2>2. Has(u, t.left, t.right, t.black, t.parent, t.top, 0)
    BY <1>1, <2>1, NodesAre, PutFreed
  <2>3. QED
    BY <1>1, <1>2, <2>2 DEF Has, Left, Right, Black, Top, Freed
<1>3. CASE n # Nil
  <2>1. n \in Keys
    BY <1>1, <1>3 DEF Links
  <2>2. PICK b \in [Keys -> BOOLEAN] : b = [t.black EXCEPT ![n] = TRUE]
    BY NodesAre
  <2>3. PICK p \in [Keys -> Links] : p = [t.parent EXCEPT ![n] = Nil]
    BY NodesAre, KeysAre
  <2>4. PICK a : a = [t EXCEPT !.black = b]
    OBVIOUS
  <2>5. PICK c : c = [a EXCEPT !.parent = p]
    OBVIOUS
  <2>6. PICK d : d = [c EXCEPT !.freed = 0]
    OBVIOUS
  <2>7. Has(a, t.left, t.right, b, t.parent, t.top, t.freed)
    BY <2>4, NodesAre, PutBlack
  <2>8. Has(c, t.left, t.right, b, p, t.top, t.freed)
    BY <2>5, <2>7, PutParent
  <2>9. Has(d, t.left, t.right, b, p, t.top, 0)
    BY <1>1, <2>6, <2>8, PutFreed
  <2>10. u = d
    <3>1. a.parent = t.parent
      BY <2>7 DEF Has
    <3>2. u = [t EXCEPT !.black[n] = TRUE, !.parent[n] = Nil, !.freed = 0]
      BY <1>1, <1>3 DEF Rooted
    <3>3. QED
      BY <2>2, <2>3, <2>4, <2>5, <2>6, <3>1, <3>2
  <2>11. /\ b[n] /\ (\A x \in Keys \ {n} : b[x] <=> t.black[x])
         /\ p[n] = Nil
    BY <2>1, <2>2, <2>3, NodesAre
  <2>12. QED
    BY <1>1, <2>9, <2>10, <2>11 DEF Has, Left, Right, Black, Parent, Top, Freed
<1>4. QED
  BY <1>2, <1>3

\* With a black root, the nodes are a tree again.
LEMMA RootedTree ==
  ASSUME NEW t \in Nodes, NEW n, n = Top(t), NEW T, NEW g,
         Tree(t, n, T, g) \/ Almost(t, n, T, g), NEW u, u = Rooted(t)
  PROVE  \E e : Tree(u, n, T, e)
<1>1. /\ u \in Nodes
      /\ n # Nil => Black(u, n)
      /\ \A x : Left(u, x) = Left(t, x) /\ Right(u, x) = Right(t, x)
      /\ \A x \in Keys : x # n => (Black(u, x) <=> Black(t, x))
  BY RootedIs
<1>2. CASE n = Nil
  <2>1. Tree(t, n, T, g)
    BY <1>2, AlmostIsTree, KeysAre
  <2>2. T \subseteq Keys
    BY <2>1, TreeSize
  <2>3. Same(t, u, T)
    BY <1>1, <1>2, <2>2, KeysAre DEF Same, Alike
  <2>4. QED
    BY <2>1, <2>3, SameTree
<1>3. CASE n # Nil
  <2>1. Almost(t, n, T, g)
    BY <1>3, TreeIsAlmost
  <2>2. PICK L, R, f : Node(t, n, T, g, L, R, f) /\ ~isRed(t, Right(t, n))
    BY <2>1 DEF Almost
  <2>3. /\ n \notin L /\ n \notin R /\ L \subseteq Keys /\ R \subseteq Keys
    BY <2>2, NodeSize
  <2>4. Tree(t, Left(t, n), L, f) /\ Tree(t, Right(t, n), R, f)
    BY <2>2 DEF Node
  <2>5. Same(t, u, L) /\ Same(t, u, R)
    BY <1>1, <2>3 DEF Same, Alike
  <2>6. Tree(u, Left(u, n), L, f) /\ Tree(u, Right(u, n), R, f)
    BY <1>1, <2>4, <2>5, SameTree
  <2>7. PICK e : e = f + 1
    OBVIOUS
  <2>8. Node(u, n, T, e, L, R, f)
    BY <1>1, <1>3, <2>2, <2>6, <2>7 DEF Node
  <2>9. ~isRed(u, Right(u, n))
    <3>1. Right(t, n) \in R \cup {Nil}
      BY <2>4, NilIsTree
    <3>2. Right(t, n) # Nil => Right(t, n) \in Keys /\ Right(t, n) # n
      BY <2>3, <3>1
    <3>3. QED
      BY <1>1, <2>2, <3>2, RedIs
  <2>10. QED
    BY <1>1, <1>3, <2>8, <2>9, NodeIsTree
<1>4. QED
  BY <1>2, <1>3

-----------------------------------------------------------------------------
(* The inductive invariant. *)

\* The nodes S are in a red-black tree with a black root.
Sound(t, S) ==
  /\ t \in Nodes /\ Freed(t) = 0
  /\ \E h : Tree(t, Top(t), S, h)
  /\ Top(t) # Nil => Black(t, Top(t)) /\ Parent(t, Top(t)) = Nil

\* They have the cells that are not free, and an iteration stands at one of them.
TreeOf(S) ==
  /\ Sound(nodes, S)
  /\ mSize = Cardinality(S)
  /\ freeCells = mCapacity - mSize
  /\ mSize <= mCapacity
  /\ mCapacity \in NodeMaxes \cup {0}
  /\ value \in [Keys -> Values \cup {Nil}]
  /\ iter # Nil => iter \in S /\ Iterating(nodes, Top(nodes), S, iter)

TreeInv == \E S : TreeOf(S)

LEMMA SoundReads ==
  ASSUME NEW t, NEW S, Sound(t, S), NEW n, n = Top(t)
  PROVE  /\ t.top = n /\ n \in S \cup {Nil} /\ (n = Nil <=> S = {})
         /\ S \subseteq Keys /\ IsFiniteSet(S) /\ Cardinality(S) \in Nat
         /\ Below(t, n) = S /\ BlackHeight(t, n) # Nil
         /\ \A k \in Keys : Call.find[t][n][k] = IF k \in S THEN k ELSE Nil
         /\ Len(Call.forEach[t][n]) = Cardinality(S)
         /\ Leaning(t, S) /\ ~isRed(t, n)
<1>1. PICK h : Tree(t, n, S, h)
  BY DEF Sound
<1>2. t \in Nodes /\ (n # Nil => Black(t, n))
  BY DEF Sound
<1>3. /\ Below(t, n) = S /\ BlackHeight(t, n) = h
      /\ \A k \in Keys : Call.find[t][n][k] = IF k \in S THEN k ELSE Nil
      /\ Len(Call.forEach[t][n]) = Cardinality(S)
      /\ Leaning(t, S)
  BY <1>1, <1>2, CallReads
<1>4. S \subseteq Keys /\ IsFiniteSet(S) /\ Cardinality(S) \in Nat /\ h \in Nat \ {0}
  BY <1>1, TreeSize
<1>5. n = Nil \/ S = {} => n = Nil /\ S = {} /\ h = 1
  BY <1>1, NilIsTree
<1>6. n \in S \cup {Nil}
  BY <1>1, NilIsTree
<1>7. t.top = n /\ h # Nil
  BY <1>4 DEF Top, Nil
<1>8. ~isRed(t, n)
  BY <1>2, RedIs
<1>9. QED
  BY <1>3, <1>4, <1>5, <1>6, <1>7, <1>8

\* The tree of an action's nodes is the one its definition names.
LEMMA InTreeIs ==
  ASSUME NEW S, Sound(nodes, S)
  PROVE  InTree = S
<1>1. nodes.top = Top(nodes)
  BY DEF Top
<1>2. Below(nodes, Top(nodes)) = S
  BY SoundReads
<1>3. QED
  BY <1>1, <1>2 DEF InTree

LEMMA NewInTreeIs ==
  ASSUME NEW S, Sound(nodes', S)
  PROVE  InTree' = S
<1>1. nodes'.top = Top(nodes')
  BY DEF Top
<1>2. Below(nodes', Top(nodes')) = S
  BY SoundReads
<1>3. QED
  BY <1>1, <1>2 DEF InTree

LEMMA SoundEmpty ==
  /\ Sound(NoNodes, {}) /\ Top(NoNodes) = Nil
<1>1. Nil \in Links /\ 0 \in Nat
  BY KeysAre
<1>2. NoNodes \in Nodes /\ NoNodes.top = Nil /\ NoNodes.freed = 0
  BY <1>1 DEF NoNodes, Nodes
<1>3. Tree(NoNodes, Nil, {}, 1)
  BY NilIsTree
<1>4. QED
  BY <1>2, <1>3 DEF Sound, Top, Freed

\* Nodes of which only parents changed.
LEMMA SoundMarked ==
  ASSUME NEW t, NEW S, Sound(t, S), NEW n, n = Top(t), NEW u, Marks(t, u, S, n)
  PROVE  Sound(u, S) /\ Top(u) = n
<1>1. PICK h : Tree(t, n, S, h)
  BY DEF Sound
<1>2. u \in Nodes /\ Top(u) = n /\ Freed(u) = 0
  BY DEF Sound, Marks
<1>3. n # Nil => n \in Keys
  BY SoundReads
<1>4. n # Nil => Black(u, n) /\ Parent(u, n) = Nil
  BY <1>3 DEF Sound, Marks, Alike
<1>5. Same(t, u, S)
  <2>1. S \subseteq Keys
    BY <1>1, TreeSize
  <2>2. QED
    BY <2>1 DEF Marks, Same
<1>6. Tree(u, n, S, h)
  BY <1>1, <1>5, SameTree
<1>7. QED
  BY <1>2, <1>4, <1>6 DEF Sound

LEMMA SoundRooted ==
  ASSUME NEW t \in Nodes, NEW n, n = Top(t), NEW T,
         \E g : Tree(t, n, T, g) \/ Almost(t, n, T, g), NEW u, u = Rooted(t)
  PROVE  Sound(u, T)
<1>1. PICK g : Tree(t, n, T, g) \/ Almost(t, n, T, g)
  OBVIOUS
<1>2. PICK e : Tree(u, n, T, e)
  BY <1>1, RootedTree
<1>3. /\ u \in Nodes /\ Top(u) = n /\ Freed(u) = 0
      /\ n # Nil => Black(u, n) /\ Parent(u, n) = Nil
  BY RootedIs
<1>4. QED
  BY <1>2, <1>3 DEF Sound

LEMMA SoundInserts ==
  ASSUME NEW t, NEW S, Sound(t, S), NEW n, n = Top(t), NEW k \in Keys, NEW T, T = S \cup {k},
         NEW u, u = Call.insert[t][n][k]
  PROVE  /\ Sound(Rooted(u), T)
         /\ Cardinality(T) = Cardinality(S) + 1 - u.freed /\ u.freed \in 0..1
<1>1. PICK h : Tree(t, n, S, h)
  BY DEF Sound
<1>2. t \in Nodes /\ Freed(t) = 0
  BY DEF Sound
<1>3. Inserted(t, n, k, S, h, T, u)
  BY <1>1, <1>2, CallInserts
<1>4. u \in Nodes /\ Almost(u, Top(u), T, h)
  BY <1>3 DEF Inserted
<1>5. Sound(Rooted(u), T)
  BY <1>4, SoundRooted
<1>6. u.freed = IF k \in S THEN 1 ELSE 0
  BY <1>2, <1>3 DEF Inserted, Freed
<1>7. IsFiniteSet(S) /\ Cardinality(S) \in Nat
  BY <1>1, TreeSize
<1>8. Cardinality(T) = IF k \in S THEN Cardinality(S) ELSE Cardinality(S) + 1
  BY <1>7, FS_AddElement
<1>9. QED
  BY <1>5, <1>6, <1>7, <1>8

LEMMA SoundErases ==
  ASSUME NEW t, NEW S, Sound(t, S), NEW n, n = Top(t), NEW k \in S, NEW T, T = S \ {k},
         NEW u, u = Call.erase[t][n][k]
  PROVE  Sound(Rooted(u), T) /\ u.freed = 1 /\ Cardinality(T) = Cardinality(S) - 1
<1>1. PICK h : Tree(t, n, S, h)
  BY DEF Sound
<1>2. t \in Nodes /\ Freed(t) = 0
  BY DEF Sound
<1>3. Erased(t, n, S, h, T, 1, u)
  BY <1>1, <1>2, CallErases
<1>4. u \in Nodes /\ \E g : Tree(u, Top(u), T, g) \/ Almost(u, Top(u), T, g)
  BY <1>3 DEF Erased
<1>5. Sound(Rooted(u), T)
  BY <1>4, SoundRooted
<1>6. u.freed = 1
  BY <1>2, <1>3 DEF Erased, Freed
<1>7. IsFiniteSet(S) /\ Cardinality(S) \in Nat
  BY <1>1, TreeSize
<1>8. Cardinality(T) = Cardinality(S) - 1
  BY <1>7, FS_RemoveElement
<1>9. QED
  BY <1>5, <1>6, <1>8

LEMMA SoundStarts ==
  ASSUME NEW t, NEW S, Sound(t, S), NEW n, n = Top(t), n # Nil,
         NEW s, s = Call.startIterating[t][n], NEW u, u = [s.nodes EXCEPT !.top = n]
  PROVE  /\ Sound(u, S) /\ Top(u) = n
         /\ Least(s.at, S) /\ Iterating(u, n, S, s.at)
<1>1. PICK h : Tree(t, n, S, h)
  BY DEF Sound
<1>2. Spined(t, n, S, s)
  BY <1>1, CallStarts DEF Sound
<1>3. PICK v : v = s.nodes
  OBVIOUS
<1>4. Marks(t, v, S, n)
  BY <1>2, <1>3 DEF Spined
<1>5. v \in Nodes /\ Top(v) = n
  BY <1>4 DEF Marks
<1>6. u = v
  BY <1>3, <1>5 DEF Top, Nodes
<1>7. Sound(u, S) /\ Top(u) = n
  BY <1>4, <1>6, SoundMarked
<1>8. QED
  BY <1>2, <1>3, <1>6, <1>7 DEF Spined, Iterating

LEMMA SoundNexts ==
  ASSUME NEW t, NEW S, Sound(t, S), NEW n, n = Top(t), NEW x \in S, Iterating(t, n, S, x),
         NEW s, s = nextNode(t, x)
  PROVE  /\ Sound(s.nodes, S) /\ Top(s.nodes) = n
         /\ After(s.at, S, x) /\ (s.at # Nil => Iterating(s.nodes, n, S, s.at))
<1>1. PICK h : Tree(t, n, S, h)
  BY DEF Sound
<1>2. n # Nil
  <2>1. n = Nil \/ S = {} => n = Nil /\ S = {} /\ h = 1
    BY <1>1, NilIsTree
  <2>2. QED
    BY <2>1
<1>3. t \in Nodes /\ Parent(t, n) = Nil
  BY <1>2 DEF Sound
<1>4. Nexted(t, n, S, x, s)
  BY <1>1, <1>3, NodeNexts
<1>5. Marks(t, s.nodes, S, n)
  BY <1>4 DEF Nexted
<1>6. Sound(s.nodes, S) /\ Top(s.nodes) = n
  BY <1>5, SoundMarked
<1>7. QED
  BY <1>4, <1>6 DEF Nexted

-----------------------------------------------------------------------------
(* Each action, from the nodes S to the nodes T. *)

LEMMA InitTree == TreeInit => TreeOf({})
<1>1. Sound(NoNodes, {})
  BY SoundEmpty
<1>2. Cardinality({}) = 0 /\ Cardinality({}) \in Nat
  BY FS_EmptySet
<1>3. QED
  BY <1>1, <1>2 DEF TreeInit, TreeOf

LEMMA SetBufferTree ==
  ASSUME NEW S, TreeOf(S), NEW n \in NodeMaxes, SetBuffer(n)
  PROVE  TreeOf(S)' /\ S = {} /\ iter' = Nil
<1>1. /\ Sound(nodes, S) /\ mSize = Cardinality(S) /\ mSize <= mCapacity
      /\ value \in [Keys -> Values \cup {Nil}]
      /\ iter # Nil => iter \in S
  BY DEF TreeOf
<1>2. /\ mCapacity = 0 /\ mCapacity' = n /\ freeCells' = n
      /\ nodes' = nodes /\ value' = value /\ mSize' = mSize /\ iter' = iter
  BY DEF SetBuffer
<1>3. IsFiniteSet(S) /\ Cardinality(S) \in Nat
  BY <1>1, SoundReads
<1>4. Cardinality(S) = 0
  BY <1>1, <1>2, <1>3
<1>5. S = {}
  BY <1>3, <1>4, FS_EmptySet
<1>6. n \in Nat /\ n - 0 = n
  BY TreeMapAssumption
<1>7. mSize' <= mCapacity' /\ freeCells' = mCapacity' - mSize'
  BY <1>1, <1>2, <1>4, <1>6
<1>8. QED
  BY <1>1, <1>2, <1>5, <1>7 DEF TreeOf

LEMMA InsertFullTree ==
  ASSUME NEW S, TreeOf(S), NEW k \in Keys, NEW v \in Values, InsertFull(k, v)
  PROVE  /\ TreeOf(S)' /\ UNCHANGED <<mCapacity, iter>>
         /\ k \notin S => UNCHANGED value
         /\ k \in S => value' = [value EXCEPT ![k] = v]
<1>1. Sound(nodes, S) /\ value \in [Keys -> Values \cup {Nil}]
  BY DEF TreeOf
<1>2. /\ value' = IF Call.find[nodes][nodes.top][k] # Nil THEN [value EXCEPT ![k] = v] ELSE value
      /\ nodes' = nodes /\ mSize' = mSize /\ mCapacity' = mCapacity
      /\ freeCells' = freeCells /\ iter' = iter
  BY DEF InsertFull
<1>3. nodes.top = Top(nodes)
  BY DEF Top
<1>4. Call.find[nodes][nodes.top][k] = IF k \in S THEN k ELSE Nil
  BY <1>1, <1>3, SoundReads
<1>5. k # Nil
  BY KeysAre
<1>6. /\ k \notin S => value' = value
      /\ k \in S => value' = [value EXCEPT ![k] = v]
  BY <1>2, <1>4, <1>5
<1>7. value' \in [Keys -> Values \cup {Nil}]
  BY <1>1, <1>6
<1>8. TreeOf(S)'
  BY <1>2, <1>7 DEF TreeOf
<1>9. QED
  BY <1>2, <1>6, <1>8

LEMMA InsertNodeTree ==
  ASSUME NEW S, TreeOf(S), NEW k \in Keys, NEW v \in Values, InsertNode(k, v),
         NEW T, T = S \cup {k}
  PROVE  /\ TreeOf(T)' /\ Cardinality(S) < mCapacity
         /\ value' = [value EXCEPT ![k] = v] /\ iter' = Nil /\ UNCHANGED mCapacity
<1>1. /\ Sound(nodes, S) /\ value \in [Keys -> Values \cup {Nil}]
      /\ mSize = Cardinality(S) /\ freeCells = mCapacity - mSize
      /\ mCapacity \in NodeMaxes \cup {0}
  BY DEF TreeOf
<1>2. PICK n : n = Top(nodes)
  OBVIOUS
<1>3. PICK u : u = Call.insert[nodes][n][k]
  OBVIOUS
<1>4. /\ mSize < mCapacity /\ nodes' = Rooted(u) /\ mSize' = mSize + 1 - u.freed
      /\ freeCells' = freeCells - 1 + u.freed
      /\ value' = [value EXCEPT ![k] = v] /\ iter' = Nil /\ mCapacity' = mCapacity
  BY <1>2, <1>3 DEF InsertNode, Top
<1>5. /\ Sound(Rooted(u), T)
      /\ Cardinality(T) = Cardinality(S) + 1 - u.freed /\ u.freed \in 0..1
  BY <1>1, <1>2, <1>3, SoundInserts
<1>6. Cardinality(S) \in Nat /\ mCapacity \in Nat
  BY <1>1, SoundReads, TreeMapAssumption
<1>7. /\ mSize' = Cardinality(T) /\ mSize' <= mCapacity'
      /\ freeCells' = mCapacity' - mSize'
  BY <1>1, <1>4, <1>5, <1>6
<1>8. value' \in [Keys -> Values \cup {Nil}]
  BY <1>1, <1>4
<1>9. TreeOf(T)'
  BY <1>1, <1>4, <1>5, <1>7, <1>8 DEF TreeOf
<1>10. QED
  BY <1>1, <1>4, <1>9

LEMMA EraseTree ==
  ASSUME NEW S, TreeOf(S), NEW k \in Keys, Erase(k), NEW T, T = S \ {k}
  PROVE  /\ TreeOf(T)' /\ k \in S
         /\ value' = [value EXCEPT ![k] = Nil] /\ iter' = Nil /\ UNCHANGED mCapacity
<1>1. /\ Sound(nodes, S) /\ value \in [Keys -> Values \cup {Nil}]
      /\ mSize = Cardinality(S) /\ freeCells = mCapacity - mSize
      /\ mCapacity \in NodeMaxes \cup {0} /\ mSize <= mCapacity
  BY DEF TreeOf
<1>2. PICK n : n = Top(nodes)
  OBVIOUS
<1>3. PICK u : u = Call.erase[nodes][n][k]
  OBVIOUS
<1>4. /\ Call.find[nodes][n][k] # Nil
      /\ nodes' = Rooted(u) /\ mSize' = mSize - u.freed
      /\ freeCells' = freeCells + u.freed
      /\ value' = [value EXCEPT ![k] = Nil] /\ iter' = Nil /\ mCapacity' = mCapacity
  BY <1>2, <1>3 DEF Erase, Top
<1>5. Call.find[nodes][n][k] = IF k \in S THEN k ELSE Nil
  BY <1>1, <1>2, SoundReads
<1>6. k \in S
  BY <1>4, <1>5
<1>7. Sound(Rooted(u), T)
  BY <1>1, <1>2, <1>3, <1>6, SoundErases
<1>8. u.freed = 1 /\ Cardinality(T) = Cardinality(S) - 1
  BY <1>1, <1>2, <1>3, <1>6, SoundErases
<1>9. Cardinality(S) \in Nat /\ mCapacity \in Nat
  <2>1. Cardinality(S) \in Nat
    BY <1>1, SoundReads
  <2>2. mCapacity \in Nat
    BY <1>1, TreeMapAssumption
  <2>3. QED
    BY <2>1, <2>2
<1>10. /\ mSize' = Cardinality(T) /\ mSize' <= mCapacity'
       /\ freeCells' = mCapacity' - mSize'
  BY <1>1, <1>4, <1>8, <1>9
<1>11. value' \in [Keys -> Values \cup {Nil}]
  BY <1>1, <1>4
<1>12. TreeOf(T)'
  BY <1>1, <1>4, <1>7, <1>10, <1>11 DEF TreeOf
<1>13. QED
  BY <1>4, <1>6, <1>12

LEMMA ClearTree ==
  ASSUME NEW S, TreeOf(S), Clear
  PROVE  TreeOf({})' /\ iter' = Nil /\ UNCHANGED mCapacity
<1>1. /\ Sound(nodes, S) /\ mSize = Cardinality(S) /\ freeCells = mCapacity - mSize
      /\ mCapacity \in NodeMaxes \cup {0}
  BY DEF TreeOf
<1>2. PICK n : n = Top(nodes)
  OBVIOUS
<1>3. /\ freeCells' = freeCells + Len(Call.forEach[nodes][n]) /\ nodes' = NoNodes
      /\ value' = [k \in Keys |-> Nil] /\ mSize' = 0 /\ iter' = Nil /\ mCapacity' = mCapacity
  BY <1>2 DEF Clear, Top
<1>4. Len(Call.forEach[nodes][n]) = Cardinality(S) /\ Cardinality(S) \in Nat
  BY <1>1, <1>2, SoundReads
<1>5. mCapacity \in Nat
  BY <1>1, TreeMapAssumption
<1>6. freeCells' = mCapacity' - mSize' /\ mSize' <= mCapacity'
  BY <1>1, <1>3, <1>4, <1>5
<1>7. Cardinality({}) = 0
  BY FS_EmptySet
<1>8. value' \in [Keys -> Values \cup {Nil}]
  BY <1>3
<1>9. QED
  BY <1>1, <1>3, <1>6, <1>7, <1>8, SoundEmpty DEF TreeOf

LEMMA DestroyTree ==
  ASSUME NEW S, TreeOf(S), Destroy
  PROVE  TreeOf({})' /\ iter' = Nil /\ mCapacity' = 0
<1>1. /\ nodes' = NoNodes /\ value' = [k \in Keys |-> Nil] /\ mSize' = 0
      /\ iter' = Nil /\ mCapacity' = 0 /\ freeCells' = 0
  BY DEF Destroy
<1>2. Cardinality({}) = 0
  BY FS_EmptySet
<1>3. value' \in [Keys -> Values \cup {Nil}]
  BY <1>1
<1>4. QED
  BY <1>1, <1>2, <1>3, SoundEmpty DEF TreeOf

LEMMA StartIteratingTree ==
  ASSUME NEW S, TreeOf(S), StartIterating
  PROVE  /\ TreeOf(S)' /\ UNCHANGED <<value, mCapacity>>
         /\ IF S = {} THEN iter' = Nil ELSE Least(iter', S)
<1>1. Sound(nodes, S)
  BY DEF TreeOf
<1>2. PICK n : n = Top(nodes)
  OBVIOUS
<1>3. nodes.top = n /\ (n = Nil <=> S = {}) /\ S \subseteq Keys
  BY <1>1, <1>2, SoundReads
<1>4. /\ value' = value /\ mSize' = mSize /\ mCapacity' = mCapacity
      /\ freeCells' = freeCells
  BY DEF StartIterating
<1>5. CASE n = Nil
  <2>1. iter' = Nil /\ nodes' = nodes
    BY <1>3, <1>5 DEF StartIterating
  <2>2. TreeOf(S)'
    BY <1>4, <2>1 DEF TreeOf
  <2>3. QED
    BY <1>3, <1>4, <1>5, <2>1, <2>2
<1>6. CASE n # Nil
  <2>1. PICK s : s = Call.startIterating[nodes][n]
    OBVIOUS
  <2>2. nodes' = [s.nodes EXCEPT !.top = n] /\ iter' = s.at
    BY <1>3, <1>6, <2>1 DEF StartIterating
  <2>3. PICK u : u = [s.nodes EXCEPT !.top = n]
    OBVIOUS
  <2>4. /\ Sound(u, S) /\ Top(u) = n
        /\ Least(s.at, S) /\ Iterating(u, n, S, s.at)
    BY <1>1, <1>2, <1>6, <2>1, <2>3, SoundStarts
  <2>5. nodes' = u /\ iter' \in S
    BY <2>2, <2>3, <2>4 DEF Least
  <2>6. TreeOf(S)'
    BY <1>4, <2>2, <2>4, <2>5 DEF TreeOf
  <2>7. QED
    BY <1>3, <1>4, <1>6, <2>2, <2>4, <2>6
<1>7. QED
  BY <1>5, <1>6

LEMMA NextNodeTree ==
  ASSUME NEW S, TreeOf(S), NextNode
  PROVE  /\ TreeOf(S)' /\ UNCHANGED <<value, mCapacity>>
         /\ iter # Nil /\ iter \in S /\ After(iter', S, iter)
<1>1. PICK n : n = Top(nodes)
  OBVIOUS
<1>2. /\ Sound(nodes, S) /\ iter # Nil /\ iter \in S /\ Iterating(nodes, n, S, iter)
  BY <1>1 DEF TreeOf, NextNode
<1>3. PICK s : s = nextNode(nodes, iter)
  OBVIOUS
<1>4. /\ nodes' = s.nodes /\ iter' = s.at
      /\ value' = value /\ mSize' = mSize /\ mCapacity' = mCapacity
      /\ freeCells' = freeCells
  BY <1>3 DEF NextNode
<1>5. /\ Sound(s.nodes, S) /\ Top(s.nodes) = n
      /\ After(s.at, S, iter) /\ (s.at # Nil => Iterating(s.nodes, n, S, s.at))
  BY <1>1, <1>2, <1>3, SoundNexts
<1>6. iter' # Nil => iter' \in S
  BY <1>4, <1>5 DEF After
<1>7. TreeOf(S)'
  BY <1>4, <1>5, <1>6 DEF TreeOf
<1>8. QED
  BY <1>2, <1>4, <1>5, <1>7

LEMMA NextTree ==
  ASSUME TreeInv, [TreeNext]_treeVars
  PROVE  TreeInv'
<1>1. PICK S : TreeOf(S)
  BY DEF TreeInv
<1>2. SUFFICES \E T : TreeOf(T)'
  BY DEF TreeInv
<1>3. ASSUME NEW n \in NodeMaxes, SetBuffer(n) PROVE TreeOf(S)'
  BY <1>1, <1>3, SetBufferTree
<1>4. ASSUME NEW e \in Entries, InsertFull(e[1], e[2]) \/ InsertNode(e[1], e[2])
      PROVE  \E T : TreeOf(T)'
  <2>1. PICK k \in Keys, v \in Values : k = e[1] /\ v = e[2]
    BY TreeMapAssumption
  <2>2. ASSUME InsertFull(k, v) PROVE TreeOf(S)'
    BY <1>1, <2>2, InsertFullTree
  <2>3. ASSUME InsertNode(k, v) PROVE TreeOf(S \cup {k})'
    BY <1>1, <2>3, InsertNodeTree
  <2>4. QED
    BY <1>4, <2>1, <2>2, <2>3
<1>5. ASSUME NEW k \in Keys, Erase(k) PROVE TreeOf(S \ {k})'
  BY <1>1, <1>5, EraseTree
<1>6. ASSUME Clear PROVE TreeOf({})'
  BY <1>1, <1>6, ClearTree
<1>7. ASSUME Destroy PROVE TreeOf({})'
  BY <1>1, <1>7, DestroyTree
<1>8. ASSUME StartIterating PROVE TreeOf(S)'
  BY <1>1, <1>8, StartIteratingTree
<1>9. ASSUME NextNode PROVE TreeOf(S)'
  BY <1>1, <1>9, NextNodeTree
<1>10. ASSUME UNCHANGED treeVars PROVE TreeOf(S)'
  BY <1>1, <1>10 DEF treeVars, TreeOf
<1>11. QED
  BY <1>3, <1>4, <1>5, <1>6, <1>7, <1>8, <1>9, <1>10 DEF TreeNext

-----------------------------------------------------------------------------
(* The properties. *)

LEMMA InvTypes == TreeInv => TreeTypeOK /\ CellsAccounted /\ Balanced
<1>1. SUFFICES ASSUME NEW S, TreeOf(S) PROVE TreeTypeOK /\ CellsAccounted /\ Balanced
  BY DEF TreeInv
<1>2. /\ Sound(nodes, S) /\ value \in [Keys -> Values \cup {Nil}]
      /\ mSize = Cardinality(S) /\ freeCells = mCapacity - mSize
      /\ mCapacity \in NodeMaxes \cup {0} /\ mSize <= mCapacity
      /\ iter # Nil => iter \in S
  BY <1>1 DEF TreeOf
<1>3. InTree = S
  BY <1>2, InTreeIs
<1>4. PICK n : n = Top(nodes)
  OBVIOUS
<1>5. /\ nodes.top = n /\ n \in S \cup {Nil}
      /\ Cardinality(S) \in Nat
      /\ BlackHeight(nodes, n) # Nil
      /\ Leaning(nodes, S) /\ ~isRed(nodes, n)
  BY <1>2, <1>4, SoundReads
<1>6. TreeTypeOK
  <2>1. nodes \in Nodes
    BY <1>2 DEF Sound
  <2>2. mCapacity \in Nat
    BY <1>2, TreeMapAssumption
  <2>3. freeCells \in 0..mCapacity
    BY <1>2, <1>5, <2>2
  <2>4. QED
    BY <1>2, <1>3, <1>5, <2>1, <2>3 DEF TreeTypeOK
<1>7. CellsAccounted
  BY <1>2, <1>3 DEF CellsAccounted
<1>8. Balanced
  <2>1. ASSUME NEW x \in S
        PROVE  /\ ~isRed(nodes, nodes.right[x])
               /\ isRed(nodes, x) => ~isRed(nodes, nodes.left[x])
    <3>1. /\ ~isRed(nodes, Right(nodes, x))
          /\ Black(nodes, x) \/ ~isRed(nodes, Left(nodes, x))
      BY <1>5, <2>1 DEF Leaning
    <3>2. nodes.right[x] = Right(nodes, x) /\ nodes.left[x] = Left(nodes, x)
      BY DEF Left, Right
    <3>3. QED
      BY <3>1, <3>2, RedIs
  <2>2. QED
    BY <1>3, <1>5, <2>1 DEF Balanced
<1>9. QED
  BY <1>6, <1>7, <1>8

\* In every state the nodes are a red-black tree, whose path to the client's
\* iteration is marked, and the rest of the cells is free.
THEOREM TreeStays == TreeSpec => []TreeInv
<1>1. TreeInit => TreeInv
  BY InitTree DEF TreeInv
<1>2. TreeInv /\ [TreeNext]_treeVars => TreeInv'
  BY NextTree
<1>3. QED
  BY <1>1, <1>2, PTL DEF TreeSpec

\* Every state has the types of the declarations: the root and the iteration are
\* nodes of the tree, never a cell that was freed.
THEOREM TreeTypes == TreeSpec => []TreeTypeOK
<1>1. TreeInv => TreeTypeOK
  BY InvTypes
<1>2. QED
  BY <1>1, TreeStays, PTL

\* No cell is lost or handed out twice: mSize counts the nodes that the root
\* reaches, and the free list has the others.
THEOREM TreeCells == TreeSpec => []CellsAccounted
<1>1. TreeInv => CellsAccounted
  BY InvTypes
<1>2. QED
  BY <1>1, TreeStays, PTL

\* insert, eraseMin and erase, with the rotations and colour flips they do on the
\* way down and up, leave a left-leaning red-black tree behind.
THEOREM TreeBalanced == TreeSpec => []Balanced
<1>1. TreeInv => Balanced
  BY InvTypes
<1>2. QED
  BY <1>1, TreeStays, PTL

-----------------------------------------------------------------------------
(* The map. *)

LEMMA SameCount == \A S : Sorted!Cardinality(S) = Cardinality(S)
BY DEF Sorted!Cardinality, Cardinality

Puts(p, m, S, k, v) == p = [x \in S \cup {k} |-> IF x = k THEN v ELSE m[x]]
Drops(p, m, S, k) == p = [x \in S \ {k} |-> m[x]]

\* What the map does, in terms of the nodes S and T of a step.
LEMMA MapIs ==
  ASSUME NEW S, TreeOf(S), NEW T, TreeOf(T)',
         NEW m, m = [x \in S |-> value[x]], NEW p, p = [x \in T |-> value'[x]]
  PROVE  /\ DOMAIN m = S /\ DOMAIN p = T
         /\ \A n : Sorted!SetCapacity(n) <=>
                     S = {} /\ mCapacity' = n /\ iter' = Nil /\ p = m
         /\ \A k, v : Sorted!Put(k, v) <=>
                        /\ k \in S \/ Cardinality(S) < mCapacity
                        /\ Puts(p, m, S, k, v)
                        /\ iter' \in {iter, Nil} /\ mCapacity' = mCapacity
         /\ \A k : Sorted!Remove(k) <=>
                     /\ Drops(p, m, S, k)
                     /\ iter' = Nil /\ mCapacity' = mCapacity
         /\ \A c : Sorted!Empty(c) <=> p = << >> /\ iter' = Nil /\ mCapacity' = c
         /\ Sorted!First <=> iter' = Sorted!Least(S) /\ p = m /\ mCapacity' = mCapacity
         /\ UNCHANGED Sorted!mapVars <=> p = m /\ mCapacity' = mCapacity /\ iter' = iter
<1>1. Sound(nodes, S) /\ Sound(nodes', T)
  BY DEF TreeOf
<1>2. InTree = S
  BY <1>1, InTreeIs
<1>3. InTree' = T
  BY <1>1, NewInTreeIs
<1>4. /\ [x \in InTree |-> value[x]] = m
      /\ [x \in InTree |-> value[x]]' = p
  BY <1>2, <1>3
<1>5. DOMAIN m = S /\ DOMAIN p = T
  OBVIOUS
<1>6. \A n : Sorted!SetCapacity(n) <=>
              S = {} /\ mCapacity' = n /\ iter' = Nil /\ p = m
  BY <1>4, <1>5 DEF Sorted!SetCapacity, Sorted!NoKey, Nil
<1>7. \A k, v : Sorted!Put(k, v) <=>
                 /\ k \in S \/ Cardinality(S) < mCapacity
                 /\ Puts(p, m, S, k, v)
                 /\ iter' \in {iter, Nil} /\ mCapacity' = mCapacity
  BY <1>4, <1>5, SameCount DEF Sorted!Put, Sorted!NoKey, Nil, Puts
<1>8. \A k : Sorted!Remove(k) <=>
              /\ Drops(p, m, S, k)
              /\ iter' = Nil /\ mCapacity' = mCapacity
  BY <1>4, <1>5 DEF Sorted!Remove, Sorted!Restrict, Sorted!NoKey, Nil, Drops
<1>9. \A c : Sorted!Empty(c) <=> p = << >> /\ iter' = Nil /\ mCapacity' = c
  BY <1>4, <1>5 DEF Sorted!Empty, Sorted!NoKey, Nil
<1>10. Sorted!First <=> iter' = Sorted!Least(S) /\ p = m /\ mCapacity' = mCapacity
  BY <1>4, <1>5 DEF Sorted!First
<1>11. UNCHANGED Sorted!mapVars <=> p = m /\ mCapacity' = mCapacity /\ iter' = iter
  BY <1>4, <1>5 DEF Sorted!mapVars
<1>12. QED
  BY <1>5, <1>6, <1>7, <1>8, <1>9, <1>10, <1>11

\* What the lemmas above say of iter, in the words of the map.
LEMMA LeastIs ==
  ASSUME NEW S, S \subseteq Nat, NEW m, Least(m, S)
  PROVE  m = Sorted!Least(S)
<1>1. m \in S /\ \A y \in S : m =< y
  BY DEF Least
<1>2. PICK c : c = Sorted!Min(S)
  OBVIOUS
<1>3. c \in S /\ \A y \in S : c =< y
  BY <1>1, <1>2 DEF Sorted!Min
<1>4. c =< m /\ m =< c /\ c \in Nat /\ m \in Nat
  BY <1>1, <1>3
<1>5. m = c /\ S # {}
  BY <1>1, <1>4
<1>6. QED
  BY <1>2, <1>5 DEF Sorted!Least

LEMMA AfterIs ==
  ASSUME NEW S, S \subseteq Nat \ {Nil}, NEW m, NEW i \in S, After(m, S, i)
  PROVE  m = Sorted!Least({k \in S : k > i})
<1>1. PICK A : A = {k \in S : k > i}
  OBVIOUS
<1>2. A \subseteq Nat /\ i \in Nat /\ \A y \in S : y \in Nat /\ (y > i <=> i < y)
  BY <1>1
<1>3. CASE m = Nil
  <2>1. A = {}
    BY <1>1, <1>2, <1>3 DEF After
  <2>2. QED
    BY <1>1, <1>3, <2>1 DEF Sorted!Least, Sorted!NoKey, Nil
<1>4. CASE m # Nil
  <2>1. m \in S /\ i < m /\ \A y \in S : i < y => m <= y
    BY <1>4 DEF After
  <2>2. m \in A /\ \A y \in A : m <= y
    BY <1>1, <1>2, <2>1
  <2>3. Least(m, A)
    BY <2>2 DEF Least
  <2>4. Sorted!Least(A) = m
    BY <1>2, <2>3, LeastIs
  <2>5. QED
    BY <1>1, <2>4
<1>5. QED
  BY <1>3, <1>4

LEMMA FollowingIs ==
  ASSUME NEW S, TreeOf(S), NextNode
  PROVE  Sorted!Following
<1>1. /\ TreeOf(S)' /\ value' = value /\ mCapacity' = mCapacity
      /\ iter # Nil /\ iter \in S /\ After(iter', S, iter)
  BY NextNodeTree
<1>2. Sound(nodes, S) /\ Sound(nodes', S)
  BY <1>1 DEF TreeOf
<1>3. InTree = S
  BY <1>2, InTreeIs
<1>4. InTree' = S
  BY <1>2, NewInTreeIs
<1>5. S \subseteq Nat \ {Nil}
  <2>1. S \subseteq Keys
    BY <1>2, SoundReads
  <2>2. QED
    BY <2>1, KeysAre
<1>6. iter' = Sorted!Least({k \in S : k > iter})
  BY <1>1, <1>5, AfterIs
<1>7. DOMAIN [x \in InTree |-> value[x]] = S
  BY <1>3
<1>8. [x \in InTree |-> value[x]]' = [x \in InTree |-> value[x]]
  BY <1>1, <1>3, <1>4
<1>9. QED
  BY <1>1, <1>6, <1>7, <1>8 DEF Sorted!Following, Sorted!NoKey, Nil

LEMMA PutIs ==
  ASSUME NEW S, TreeOf(S), NEW k \in Keys, NEW v \in Values, InsertNode(k, v)
  PROVE  Sorted!Put(k, v)
<1>1. PICK T : T = S \cup {k}
  OBVIOUS
<1>2. /\ TreeOf(T)' /\ Cardinality(S) < mCapacity
      /\ value' = [value EXCEPT ![k] = v] /\ iter' = Nil /\ mCapacity' = mCapacity
  BY <1>1, InsertNodeTree
<1>3. PICK m, p : m = [x \in S |-> value[x]] /\ p = [x \in T |-> value'[x]]
  OBVIOUS
<1>4. value \in [Keys -> Values \cup {Nil}] /\ S \subseteq Keys
  BY SoundReads DEF TreeOf
<1>5. p = [x \in T |-> IF x = k THEN v ELSE m[x]]
  BY <1>1, <1>2, <1>3, <1>4
<1>6. Puts(p, m, S, k, v)
  BY <1>1, <1>5 DEF Puts
<1>7. Sorted!Put(k, v) <=>
        /\ k \in S \/ Cardinality(S) < mCapacity
        /\ Puts(p, m, S, k, v)
        /\ iter' \in {iter, Nil} /\ mCapacity' = mCapacity
  BY <1>2, <1>3, MapIs
<1>8. QED
  BY <1>2, <1>6, <1>7

LEMMA PutFullIs ==
  ASSUME NEW S, TreeOf(S), NEW k \in Keys, NEW v \in Values, InsertFull(k, v)
  PROVE  Sorted!Put(k, v) \/ UNCHANGED Sorted!mapVars
<1>1. /\ TreeOf(S)' /\ mCapacity' = mCapacity /\ iter' = iter
      /\ k \notin S => value' = value
      /\ k \in S => value' = [value EXCEPT ![k] = v]
  BY InsertFullTree
<1>2. PICK m, p : m = [x \in S |-> value[x]] /\ p = [x \in S |-> value'[x]]
  OBVIOUS
<1>3. value \in [Keys -> Values \cup {Nil}] /\ S \subseteq Keys
  BY SoundReads DEF TreeOf
<1>4. CASE k \notin S
  <2>1. p = m
    BY <1>1, <1>2, <1>4
  <2>2. UNCHANGED Sorted!mapVars
    BY <1>1, <1>2, <2>1, MapIs
  <2>3. QED
    BY <2>2
<1>5. CASE k \in S
  <2>1. Puts(p, m, S, k, v)
    BY <1>1, <1>2, <1>3, <1>5 DEF Puts
  <2>2. Sorted!Put(k, v) <=>
          /\ k \in S \/ Cardinality(S) < mCapacity
          /\ Puts(p, m, S, k, v)
          /\ iter' \in {iter, Nil} /\ mCapacity' = mCapacity
    BY <1>1, <1>2, MapIs
  <2>3. QED
    BY <1>1, <1>5, <2>1, <2>2
<1>6. QED
  BY <1>4, <1>5

LEMMA RemoveIs ==
  ASSUME NEW S, TreeOf(S), NEW k \in Keys, Erase(k)
  PROVE  k \in DOMAIN [x \in InTree |-> value[x]] /\ Sorted!Remove(k)
<1>1. PICK T : T = S \ {k}
  OBVIOUS
<1>2. /\ TreeOf(T)' /\ k \in S
      /\ value' = [value EXCEPT ![k] = Nil] /\ iter' = Nil /\ mCapacity' = mCapacity
  BY <1>1, EraseTree
<1>3. PICK m, p : m = [x \in S |-> value[x]] /\ p = [x \in T |-> value'[x]]
  OBVIOUS
<1>4. value \in [Keys -> Values \cup {Nil}] /\ S \subseteq Keys /\ Sound(nodes, S)
  BY SoundReads DEF TreeOf
<1>5. Drops(p, m, S, k)
  BY <1>1, <1>2, <1>3, <1>4 DEF Drops
<1>6. Sorted!Remove(k)
  BY <1>2, <1>3, <1>5, MapIs
<1>7. k \in DOMAIN [x \in InTree |-> value[x]]
  BY <1>2, <1>4, InTreeIs
<1>8. QED
  BY <1>6, <1>7

LEMMA FirstIs ==
  ASSUME NEW S, TreeOf(S), StartIterating
  PROVE  Sorted!First
<1>1. /\ TreeOf(S)' /\ value' = value /\ mCapacity' = mCapacity
      /\ IF S = {} THEN iter' = Nil ELSE Least(iter', S)
  BY StartIteratingTree
<1>2. PICK m, p : m = [x \in S |-> value[x]] /\ p = [x \in S |-> value'[x]]
  OBVIOUS
<1>3. S \subseteq Nat
  <2>1. S \subseteq Keys
    BY SoundReads DEF TreeOf
  <2>2. QED
    BY <2>1, KeysAre
<1>4. iter' = Sorted!Least(S)
  <2>1. CASE S = {}
    BY <1>1, <2>1 DEF Sorted!Least, Sorted!NoKey, Nil
  <2>2. CASE S # {}
    BY <1>1, <1>3, <2>2, LeastIs
  <2>3. QED
    BY <2>1, <2>2
<1>5. p = m
  BY <1>1, <1>2
<1>6. QED
  BY <1>1, <1>2, <1>4, <1>5, MapIs

LEMMA NothingIn == ASSUME NEW v PROVE [x \in {} |-> v[x]] = << >>
OBVIOUS

LEMMA EmptyIs ==
  ASSUME NEW S, TreeOf(S), NEW T, T = {}, TreeOf(T)', iter' = Nil, NEW c, mCapacity' = c
  PROVE  Sorted!Empty(c)
<1>1. PICK m, p : m = [x \in S |-> value[x]] /\ p = [x \in T |-> value'[x]]
  OBVIOUS
<1>2. p = << >>
  BY <1>1, NothingIn
<1>3. Sorted!Empty(c) <=> p = << >> /\ iter' = Nil /\ mCapacity' = c
  BY <1>1, MapIs
<1>4. QED
  BY <1>2, <1>3

LEMMA InitMap == TreeInit => Sorted!MapInit
<1>1. SUFFICES ASSUME TreeInit PROVE Sorted!MapInit
  OBVIOUS
<1>2. TreeOf({})
  BY <1>1, InitTree
<1>3. InTree = {}
  BY <1>2, InTreeIs DEF TreeOf
<1>4. [x \in InTree |-> value[x]] = << >>
  BY <1>3, NothingIn
<1>5. QED
  BY <1>1, <1>4 DEF TreeInit, Sorted!MapInit, Sorted!NoKey, Nil

LEMMA NextMap ==
  ASSUME TreeInv, [TreeNext]_treeVars
  PROVE  [Sorted!MapNext]_(Sorted!mapVars)
<1>1. PICK S : TreeOf(S)
  BY DEF TreeInv
<1>2. ASSUME NEW n \in NodeMaxes, SetBuffer(n) PROVE Sorted!SetCapacity(n)
  <2>1. /\ TreeOf(S)' /\ S = {} /\ iter' = Nil
        /\ mCapacity' = n /\ value' = value
    BY <1>1, <1>2, SetBufferTree DEF SetBuffer
  <2>2. PICK m, p : m = [x \in S |-> value[x]] /\ p = [x \in S |-> value'[x]]
    OBVIOUS
  <2>3. p = m
    BY <2>1, <2>2
  <2>4. QED
    BY <1>1, <2>1, <2>2, <2>3, MapIs
<1>3. ASSUME NEW e \in Entries, InsertFull(e[1], e[2]) \/ InsertNode(e[1], e[2])
      PROVE  Sorted!Put(e[1], e[2]) \/ UNCHANGED Sorted!mapVars
  <2>1. PICK k \in Keys, v \in Values : k = e[1] /\ v = e[2]
    BY TreeMapAssumption
  <2>2. CASE InsertFull(k, v)
    BY <1>1, <2>1, <2>2, PutFullIs
  <2>3. CASE InsertNode(k, v)
    BY <1>1, <2>1, <2>3, PutIs
  <2>4. QED
    BY <1>3, <2>1, <2>2, <2>3
<1>4. ASSUME NEW k \in Keys, Erase(k)
      PROVE  k \in DOMAIN [x \in InTree |-> value[x]] /\ Sorted!Remove(k)
  BY <1>1, <1>4, RemoveIs
<1>5. PICK T : T = {}
  OBVIOUS
<1>6. ASSUME Clear PROVE \E c \in {0, mCapacity} : Sorted!Empty(c)
  <2>1. PICK c : c = mCapacity
    OBVIOUS
  <2>2. TreeOf(T)' /\ iter' = Nil /\ mCapacity' = c
    BY <1>1, <1>5, <1>6, <2>1, ClearTree
  <2>3. Sorted!Empty(c)
    BY <1>1, <1>5, <2>2, EmptyIs
  <2>4. QED
    BY <2>1, <2>3
<1>7. ASSUME Destroy PROVE \E c \in {0, mCapacity} : Sorted!Empty(c)
  <2>1. TreeOf(T)' /\ iter' = Nil /\ mCapacity' = 0
    BY <1>1, <1>5, <1>7, DestroyTree
  <2>2. QED
    BY <1>1, <1>5, <2>1, EmptyIs
<1>8. ASSUME StartIterating PROVE Sorted!First
  BY <1>1, <1>8, FirstIs
<1>9. ASSUME NextNode PROVE Sorted!Following
  BY <1>1, <1>9, FollowingIs
<1>10. ASSUME UNCHANGED treeVars PROVE UNCHANGED Sorted!mapVars
  <2>1. TreeOf(S)' /\ value' = value /\ mCapacity' = mCapacity /\ iter' = iter
    BY <1>1, <1>10 DEF treeVars, TreeOf
  <2>2. PICK m, p : m = [x \in S |-> value[x]] /\ p = [x \in S |-> value'[x]]
    OBVIOUS
  <2>3. p = m
    BY <2>1, <2>2
  <2>4. QED
    BY <1>1, <2>1, <2>2, <2>3, MapIs
<1>11. ASSUME NEW n \in NodeMaxes, SetBuffer(n) PROVE Sorted!MapNext
  BY <1>2, <1>11 DEF Sorted!MapNext
<1>12. ASSUME NEW e \in Entries, InsertFull(e[1], e[2]) \/ InsertNode(e[1], e[2])
       PROVE  Sorted!MapNext \/ UNCHANGED Sorted!mapVars
  BY <1>3, <1>12 DEF Sorted!MapNext
<1>13. ASSUME NEW k \in Keys, Erase(k) PROVE Sorted!MapNext
  BY <1>4, <1>13 DEF Sorted!MapNext
<1>14. Clear \/ Destroy => Sorted!MapNext
  BY <1>6, <1>7 DEF Sorted!MapNext
<1>15. StartIterating \/ NextNode => Sorted!MapNext
  BY <1>8, <1>9 DEF Sorted!MapNext
<1>16. QED
  BY <1>10, <1>11, <1>12, <1>13, <1>14, <1>15 DEF TreeNext

\* The tree is a sorted map from its keys to their values: insert, erase and clear
\* do what they say, and an iteration visits every key once, in order, by way of
\* parents that are only up to date on the path it stands on.
THEOREM TreeIsMap == TreeSpec => MapImplemented
<1>1. TreeInit => Sorted!MapInit
  BY InitMap
<1>2. TreeInv /\ [TreeNext]_treeVars => [Sorted!MapNext]_(Sorted!mapVars)
  BY NextMap
<1>3. QED
  BY <1>1, <1>2, TreeStays, PTL DEF TreeSpec, MapImplemented, Sorted!MapSpec

-----------------------------------------------------------------------------
(* RingBuffer *)

Contents == Items \cup {NothingYet}

\* The item get(n - 1) returns, and all of them: the queue the circle stands for.
ItemAt(n) == mBuffer[calcRealIdx(mHead, n - 1)]
Represented == [n \in 1..ringSize |-> ItemAt(n)]

\* The parts of the type that index arithmetic needs.
LEMMA RingBounds ==
  ASSUME RingTypeOK
  PROVE  /\ ringCapacity \in Nat /\ ringSize \in Nat /\ mHead \in Nat
         /\ ringSize <= ringCapacity
         /\ ringCapacity # 0 => mHead < ringCapacity
         /\ mBuffer \in [0..ringCapacity - 1 -> Contents]
PROOF
  <1>1. ringCapacity \in Int
    BY RingBufferAssumption DEF RingTypeOK
  <1>2. ringCapacity >= 0
    BY <1>1 DEF RingTypeOK
  <1> QED  BY <1>1, <1>2 DEF RingTypeOK, Cells, Contents

\* Every index is a cell, and two items of the queue never share one.
LEMMA RealIdx ==
  ASSUME RingTypeOK, NEW m \in 0..ringCapacity - 1, NEW i \in 0..ringCapacity - 1
  PROVE  /\ calcRealIdx(m, i) \in 0..ringCapacity - 1
         /\ \A j \in 0..ringCapacity - 1 :
              calcRealIdx(m, i) = calcRealIdx(m, j) => i = j
PROOF
  BY RingBounds DEF calcRealIdx

RepresentedSeq ==
  /\ Represented \in Seq(Contents)
  /\ Len(Represented) = ringSize
  /\ \A n \in 1..ringSize : Represented[n] = ItemAt(n)

LEMMA RepresentedIsSeq ==
  ASSUME RingTypeOK
  PROVE  RepresentedSeq
PROOF
  <1>1. \A n \in 1..ringSize : ItemAt(n) \in Contents
    <2> SUFFICES ASSUME NEW n \in 1..ringSize PROVE ItemAt(n) \in Contents
      OBVIOUS
    <2>1. n - 1 \in 0..ringCapacity - 1 /\ mHead \in 0..ringCapacity - 1
      BY RingBounds
    <2> QED  BY <2>1, RealIdx, RingBounds DEF ItemAt
  <1>2. Represented \in [1..ringSize -> Contents]
    BY <1>1 DEF Represented
  <1> QED  BY <1>2, RingBounds DEF Represented, RepresentedSeq

-----------------------------------------------------------------------------
(* Types *)

LEMMA InitTypes == RingInit => RingTypeOK
PROOF
  BY DEF RingInit, RingTypeOK, Cells

LEMMA NextTypes ==
  ASSUME RingTypeOK, [RingNext]_ringVars
  PROVE  RingTypeOK'
PROOF
  <1>0. /\ ringCapacity \in Nat /\ ringSize \in Nat /\ mHead \in Nat
        /\ ringSize <= ringCapacity
        /\ ringCapacity # 0 => mHead < ringCapacity
        /\ mBuffer \in [0..ringCapacity - 1 -> Contents]
    BY RingBounds
  <1> USE <1>0
  <1>1. ASSUME NEW n \in RingCapacities, SetRing(n) PROVE RingTypeOK'
    BY <1>1, RingBufferAssumption DEF SetRing, RingTypeOK, Cells
  <1> DEFINE Write(x, i) == [mBuffer EXCEPT ![x] = i]
  <1>a. \A x, i : i \in Items => Write(x, i) \in [0..ringCapacity - 1 -> Contents]
    BY DEF Contents
  <1> HIDE DEF Write
  <1>2. ASSUME NEW i \in Items, pushBack(i) PROVE RingTypeOK'
    <2>1. mBuffer' = Write(calcRealIdx(mHead, ringSize), i)
      BY <1>2 DEF pushBack, Write
    <2>2. mBuffer' \in [0..ringCapacity - 1 -> Contents]
      BY <1>a, <2>1
    <2> QED  BY <1>2, <2>2 DEF pushBack, RingTypeOK, Cells, Contents
  <1>3. ASSUME NEW i \in Items, forcePushBack(i) PROVE RingTypeOK'
    <2>1. CASE pushBack(i)
      BY <1>2, <2>1
    <2>2. CASE ~pushBack(i)
      <3>1. mBuffer' = Write(calcRealIdx(NextHead, ringSize - 1), i)
        BY <1>3, <2>2 DEF forcePushBack, Write
      <3>2. mBuffer' \in [0..ringCapacity - 1 -> Contents]
        BY <1>a, <3>1
      <3> QED  BY <1>3, <2>2, <3>2 DEF forcePushBack, NextHead, RingTypeOK, Cells, Contents
    <2> QED  BY <2>1, <2>2
  <1>4. ASSUME NEW i \in Items, pushBackwards(i) PROVE RingTypeOK'
    <2>1. mBuffer' = Write(calcRealIdx(mHead', 0), i)
      BY <1>4 DEF pushBackwards, Write
    <2>2. mBuffer' \in [0..ringCapacity - 1 -> Contents]
      BY <1>a, <2>1
    <2> QED  BY <1>4, <2>2 DEF pushBackwards, RingTypeOK, Cells, Contents
  <1>5. CASE popFront
    <2>1. CASE ringSize >= 1
      <3>0. mHead \in 0..ringCapacity - 1 /\ 0 \in 0..ringCapacity - 1
        BY <2>1
      <3>1. mBuffer[calcRealIdx(mHead, 0)] \in Contents
        BY <3>0, RealIdx
      <3> QED  BY <1>5, <2>1, <3>1 DEF popFront, NextHead, RingTypeOK, Contents
    <2>2. CASE ~(ringSize >= 1)
      BY <1>5, <2>2 DEF popFront, RingTypeOK
    <2> QED  BY <2>1, <2>2
  <1>6. CASE clear
    BY <1>6 DEF clear, RingTypeOK
  <1>7. CASE freeBuffer
    BY <1>7 DEF freeBuffer, RingTypeOK, Cells
  <1>8. CASE UNCHANGED ringVars
    BY <1>8 DEF ringVars, RingTypeOK
  <1> QED  BY <1>1, <1>2, <1>3, <1>4, <1>5, <1>6, <1>7, <1>8 DEF RingNext

\* Whatever is pushed and popped, and however often the buffer is replaced,
\* every index the code computes stays in the buffer.
THEOREM RingTypes == RingSpec => []RingTypeOK
PROOF
  <1>1. RingTypeOK /\ [RingNext]_ringVars => RingTypeOK'
    BY NextTypes
  <1> QED  BY <1>1, InitTypes, PTL DEF RingSpec

-----------------------------------------------------------------------------
(* The refinement *)

\* The queue of the mapping is Represented, before and after a step.
LEMMA MapsTo ==
  /\ Queue!QueueInit <=> Represented = << >> /\ ringCapacity = 0 /\ returned = 0
  /\ \A n : Queue!Bound(n) <=> /\ ringCapacity' = n
                               /\ Represented' = << >>
                               /\ UNCHANGED returned
  /\ \A i : Queue!PushLast(i) <=> /\ Len(Represented) < ringCapacity
                                  /\ Represented' = Append(Represented, i)
                                  /\ UNCHANGED <<ringCapacity, returned>>
  /\ \A i : Queue!PushFirst(i) <=> /\ Len(Represented) < ringCapacity
                                   /\ Represented' = <<i>> \o Represented
                                   /\ UNCHANGED <<ringCapacity, returned>>
  /\ \A i : Queue!ForceLast(i) <=> /\ ~(Len(Represented) < ringCapacity)
                                   /\ Represented # << >>
                                   /\ Represented' = Append(Tail(Represented), i)
                                   /\ UNCHANGED <<ringCapacity, returned>>
  /\ Queue!Pop <=>
       /\ Represented' = IF Represented = << >> THEN << >> ELSE Tail(Represented)
       /\ returned' = IF Represented = << >> THEN 0 ELSE Head(Represented)
       /\ UNCHANGED ringCapacity
  /\ Queue!Forget <=> Represented' = << >> /\ UNCHANGED <<ringCapacity, returned>>
PROOF
  BY DEF Queue!QueueInit, Queue!Bound, Queue!PushLast, Queue!PushFirst, Queue!ForceLast,
         Queue!Pop, Queue!Forget, Queue!Room, Queue!NoItem, Represented, ItemAt

\* What each item of the queue is after a step.
LEMMA NextItems ==
  ASSUME RingTypeOK, RingTypeOK'
  PROVE  /\ \A i \in Items : pushBack(i) =>
              \A n \in 1..ringSize + 1 : ItemAt(n)' = IF n = ringSize + 1 THEN i ELSE ItemAt(n)
         /\ \A i \in Items : pushBackwards(i) =>
              \A n \in 1..ringSize + 1 : ItemAt(n)' = IF n = 1 THEN i ELSE ItemAt(n - 1)
         /\ \A i \in Items : forcePushBack(i) /\ ~pushBack(i) =>
              \A n \in 1..ringSize : ItemAt(n)' = IF n = ringSize THEN i ELSE ItemAt(n + 1)
         /\ popFront /\ ringSize >= 1 =>
              \A n \in 1..ringSize - 1 : ItemAt(n)' = ItemAt(n + 1)
PROOF
  <1>0. /\ ringCapacity \in Nat /\ ringSize \in Nat /\ mHead \in Nat
        /\ ringSize <= ringCapacity
        /\ ringCapacity # 0 => mHead < ringCapacity
        /\ mBuffer \in [0..ringCapacity - 1 -> Contents]
    BY RingBounds
  <1> USE <1>0
  <1>1. ASSUME NEW i \in Items, pushBack(i), NEW n \in 1..ringSize + 1
        PROVE  ItemAt(n)' = IF n = ringSize + 1 THEN i ELSE ItemAt(n)
    BY <1>1 DEF pushBack, ItemAt, calcRealIdx
  <1>2. ASSUME NEW i \in Items, pushBackwards(i), NEW n \in 1..ringSize + 1
        PROVE  ItemAt(n)' = IF n = 1 THEN i ELSE ItemAt(n - 1)
    BY <1>2 DEF pushBackwards, ItemAt, calcRealIdx
  <1>3. ASSUME NEW i \in Items, forcePushBack(i), ~pushBack(i), NEW n \in 1..ringSize
        PROVE  ItemAt(n)' = IF n = ringSize THEN i ELSE ItemAt(n + 1)
    BY <1>3 DEF forcePushBack, NextHead, ItemAt, calcRealIdx
  <1>4. ASSUME popFront, ringSize >= 1, NEW n \in 1..ringSize - 1
        PROVE  ItemAt(n)' = ItemAt(n + 1)
    BY <1>4 DEF popFront, NextHead, ItemAt, calcRealIdx
  <1> QED  BY <1>1, <1>2, <1>3, <1>4

LEMMA NextRepresented ==
  RingTypeOK' =>
    /\ Represented' \in Seq(Contents)
    /\ Len(Represented') = ringSize'
    /\ \A n \in 1..ringSize' : Represented'[n] = ItemAt(n)'
PROOF
  <1>1. RingTypeOK => RepresentedSeq
    BY RepresentedIsSeq
  <1>2. RingTypeOK' => RepresentedSeq'
    BY <1>1, PTL
  <1> QED  BY <1>2 DEF RepresentedSeq

\* A queue without items is the empty sequence.
LEMMA EmptyRepresented ==
  RingTypeOK' /\ ringSize' = 0 => Represented' = << >>
PROOF
  BY NextRepresented, EmptySeq

LEMMA PushBackIsPushLast ==
  ASSUME RingTypeOK, RingTypeOK', NEW i \in Items, pushBack(i)
  PROVE  Queue!PushLast(i)
PROOF
  <1> DEFINE r == Append(Represented, i)
  <1>1. /\ ringSize' = ringSize + 1 /\ ringSize < ringCapacity /\ i \in Contents
        /\ UNCHANGED <<ringCapacity, returned>> /\ ringSize \in Nat
    BY RingBounds DEF pushBack, Contents
  <1>2. /\ r \in Seq(Contents) /\ Len(r) = ringSize + 1
        /\ \A n \in 1..ringSize + 1 : r[n] = IF n = ringSize + 1 THEN i ELSE ItemAt(n)
    BY <1>1, RepresentedIsSeq DEF RepresentedSeq
  <1>3. \A n \in 1..ringSize + 1 : Represented'[n] = r[n]
    BY <1>1, <1>2, NextRepresented, NextItems
  <1>4. Represented' = r
    BY <1>1, <1>2, <1>3, NextRepresented, SeqEqual
  <1> QED  BY <1>1, <1>4, RepresentedIsSeq, MapsTo DEF RepresentedSeq

LEMMA PushBackwardsIsPushFirst ==
  ASSUME RingTypeOK, RingTypeOK', NEW i \in Items, pushBackwards(i)
  PROVE  Queue!PushFirst(i)
PROOF
  <1> DEFINE r == <<i>> \o Represented
  <1>1. /\ ringSize' = ringSize + 1 /\ ringSize < ringCapacity /\ i \in Contents
        /\ UNCHANGED <<ringCapacity, returned>> /\ ringSize \in Nat
    BY RingBounds DEF pushBackwards, Contents
  <1>2. /\ <<i>> \in Seq(Contents) /\ Len(<<i>>) = 1 /\ <<i>>[1] = i
    BY <1>1
  <1>3. /\ r \in Seq(Contents) /\ Len(r) = ringSize + 1
        /\ \A n \in 1..ringSize + 1 : r[n] = IF n = 1 THEN i ELSE ItemAt(n - 1)
    BY <1>1, <1>2, RepresentedIsSeq, ConcatProperties DEF RepresentedSeq
  <1>4. \A n \in 1..ringSize + 1 : Represented'[n] = r[n]
    BY <1>1, <1>3, NextRepresented, NextItems
  <1>5. Represented' = r
    BY <1>1, <1>3, <1>4, NextRepresented, SeqEqual
  <1> QED  BY <1>1, <1>5, RepresentedIsSeq, MapsTo DEF RepresentedSeq

\* What is left without the first item.
LEMMA WithoutFirst ==
  ASSUME RingTypeOK, ringSize >= 1
  PROVE  /\ Represented # << >> /\ Head(Represented) = ItemAt(1)
         /\ Tail(Represented) \in Seq(Contents)
         /\ Len(Tail(Represented)) = ringSize - 1
         /\ \A n \in 1..ringSize - 1 : Tail(Represented)[n] = ItemAt(n + 1)
PROOF
  <1>1. ringSize \in Nat
    BY RingBounds
  <1>2. Represented # << >>
    BY RepresentedIsSeq, EmptySeq DEF RepresentedSeq
  <1>3. Head(Represented) = ItemAt(1)
    BY <1>1, <1>2, RepresentedIsSeq DEF RepresentedSeq
  <1> QED  BY <1>1, <1>2, <1>3, RepresentedIsSeq, HeadTailProperties DEF RepresentedSeq

LEMMA ForcedIsForceLast ==
  ASSUME RingTypeOK, RingTypeOK', NEW i \in Items, forcePushBack(i), ~pushBack(i)
  PROVE  Queue!ForceLast(i)
PROOF
  <1> DEFINE r == Append(Tail(Represented), i)
  <1>1. /\ ringSize' = ringSize /\ ringSize >= ringCapacity /\ ringSize >= 1
        /\ i \in Contents /\ UNCHANGED <<ringCapacity, returned>>
        /\ ringSize \in Nat /\ ringCapacity \in Nat
    BY RingBounds DEF forcePushBack, Contents
  <1>2. /\ r \in Seq(Contents) /\ Len(r) = ringSize
        /\ \A n \in 1..ringSize : r[n] = IF n = ringSize THEN i ELSE ItemAt(n + 1)
    BY <1>1, WithoutFirst
  <1>3. \A n \in 1..ringSize : Represented'[n] = r[n]
    BY <1>1, <1>2, NextRepresented, NextItems
  <1>4. Represented' = r
    BY <1>1, <1>2, <1>3, NextRepresented, SeqEqual
  <1>5. ~(Len(Represented) < ringCapacity) /\ Represented # << >>
    BY <1>1, WithoutFirst, RepresentedIsSeq DEF RepresentedSeq
  <1> QED  BY <1>1, <1>4, <1>5, MapsTo

LEMMA PopFrontIsPop ==
  ASSUME RingTypeOK, RingTypeOK', popFront
  PROVE  Queue!Pop
PROOF
  <1>1. CASE ringSize >= 1
    <2>1. /\ ringSize' = ringSize - 1 /\ UNCHANGED ringCapacity
          /\ returned' = ItemAt(1) /\ ringSize \in Nat
      BY <1>1, RingBounds DEF popFront, ItemAt
    <2>2. \A n \in 1..ringSize - 1 : Represented'[n] = Tail(Represented)[n]
      BY <1>1, <2>1, WithoutFirst, NextRepresented, NextItems
    <2>3. Represented' = Tail(Represented)
      BY <1>1, <2>1, <2>2, WithoutFirst, NextRepresented, SeqEqual
    <2> QED  BY <1>1, <2>1, <2>3, WithoutFirst, MapsTo
  <1>2. CASE ~(ringSize >= 1)
    <2>1. /\ ringSize = 0 /\ UNCHANGED <<ringSize, ringCapacity>> /\ returned' = 0
      BY <1>2, RingBounds DEF popFront, NothingYet
    <2>2. Represented = << >>
      BY <2>1, RepresentedIsSeq, EmptySeq DEF RepresentedSeq
    <2> QED  BY <2>1, <2>2, EmptyRepresented, MapsTo
  <1> QED  BY <1>1, <1>2

LEMMA InitQueue == RingInit => Queue!QueueInit
PROOF
  <1> SUFFICES ASSUME RingInit PROVE Queue!QueueInit
    OBVIOUS
  <1>1. Represented = << >>
    BY InitTypes, RepresentedIsSeq, EmptySeq DEF RingInit, RepresentedSeq
  <1> QED  BY <1>1, MapsTo DEF RingInit, NothingYet

LEMMA NextQueue ==
  ASSUME RingTypeOK, [RingNext]_ringVars
  PROVE  [Queue!QueueNext]_(Queue!queueVars)
PROOF
  <1>0. RingTypeOK'
    BY NextTypes
  <1>1. ASSUME NEW n \in RingCapacities, SetRing(n) PROVE Queue!Bound(n)
    BY <1>0, <1>1, EmptyRepresented, MapsTo DEF SetRing
  <1>2. ASSUME freeBuffer PROVE Queue!Bound(0)
    BY <1>0, <1>2, EmptyRepresented, MapsTo DEF freeBuffer
  <1>3. ASSUME clear PROVE Queue!Forget
    BY <1>0, <1>3, EmptyRepresented, MapsTo DEF clear
  <1>4. ASSUME NEW i \in Items, pushBack(i) \/ forcePushBack(i) \/ pushBackwards(i)
        PROVE  Queue!PushLast(i) \/ Queue!PushFirst(i) \/ Queue!ForceLast(i)
    BY <1>0, <1>4, PushBackIsPushLast, PushBackwardsIsPushFirst, ForcedIsForceLast
  <1>5. ASSUME popFront PROVE Queue!Pop
    BY <1>0, <1>5, PopFrontIsPop
  <1>6. ASSUME UNCHANGED ringVars PROVE UNCHANGED Queue!queueVars
    BY <1>6 DEF ringVars, Queue!queueVars, calcRealIdx
  <1> QED  BY <1>1, <1>2, <1>3, <1>4, <1>5, <1>6 DEF RingNext, Queue!QueueNext

\* get(0), get(1), ... are the items pushed and not yet popped, in the order of
\* the pushes at either end, whatever the capacity and however often the head
\* and the tail have wrapped around.
THEOREM RingIsQueue == RingSpec => QueueImplemented
PROOF
  <1>1. RingTypeOK /\ [RingNext]_ringVars => [Queue!QueueNext]_(Queue!queueVars)
    BY NextQueue
  <1> QED  BY <1>1, InitQueue, RingTypes, PTL DEF RingSpec, QueueImplemented, Queue!QueueSpec
=============================================================================
