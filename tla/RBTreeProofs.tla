---------------------------- MODULE RBTreeProofs ----------------------------
(***************************************************************************)
(* Proofs about RBTree, for any finite set of addresses: the tree is a     *)
(* search tree of the inserted addresses at every step, in the middle of a *)
(* rebalancing too; between two operations it is a red-black tree and      *)
(* rb_next and rb_prev walk it in order; no loop follows a NULL pointer.   *)
(*                                                                         *)
(* The code keeps pointers and colours only.  The proofs name what those   *)
(* stand for: the entries S of the tree, the entries sub[n] below each of  *)
(* them, and the number h[n] of black entries on every way down from it.   *)
(* Each step of the code is shown to take such S, sub and h to new ones.   *)
(* Where an argument goes by induction over the tree, a smallest (or       *)
(* largest) subtree without the claim is taken instead: see LeastNat,      *)
(* UpwardInduction, DownwardInduction and WalkEnds.                        *)
(***************************************************************************)
EXTENDS RBTree, TLAPS, FiniteSetTheorems, WellFoundedInduction

\* The trees that the fields can make.
Tree ==
  [root : Ptr, left : [Key -> Ptr], right : [Key -> Ptr],
   parent : [Key -> Ptr], color : [Key -> {RED, BLACK}]]

\* x lies on side d of n.
Before(d, x, n) == IF d = "left" THEN x < n ELSE n < x

\* The entries below and at n.
Of(sub, n) == IF n = NULL THEN {} ELSE sub[n]

(***************************************************************************)
(* t is a search tree of the entries S; sub[n] are the entries of the      *)
(* subtree at n.                                                           *)
(***************************************************************************)
IsNode(t, S, sub, n) ==
  /\ sub[n] \subseteq S
  /\ \A d \in Side : sub[n] = {n} \cup Of(sub, t[d][n]) \cup Of(sub, t[Opp(d)][n])
  /\ \A d \in Side : t[d][n] # NULL =>
       t.parent[t[d][n]] = n /\ \A x \in sub[t[d][n]] : Before(d, x, n)
  /\ n # t.root => t.parent[n] \in S /\ \E d \in Side : t[d][t.parent[n]] = n

Shape(t, S, sub) ==
  /\ t \in Tree /\ S \in SUBSET Key /\ sub \in [Key -> SUBSET Key]
  /\ Of(sub, t.root) = S
  /\ t.root # NULL => t.root \in S /\ t.parent[t.root] = NULL
  /\ \A d \in Side, n \in Key : t[d][n] \in S \cup {NULL}
  /\ \A n \in S : IsNode(t, S, sub, n)

-----------------------------------------------------------------------------
\* A set of naturals has a least element.
LEMMA LeastNat ==
  ASSUME NEW T \in SUBSET Nat, T # {}
  PROVE  \E x \in T : \A y \in T : x <= y
<1> DEFINE R == OpToRel(<, Nat)
<1>1. IsWellFoundedOn(R, Nat)
  BY NatLessThanWellFounded
<1>2. PICK x \in T : \A y \in T : ~(<<y, x>> \in R)
  <2> HIDE DEF R
  <2> QED
    BY <1>1, WFMin
<1>3. \A y \in T : ~(y < x)
  BY <1>2 DEF OpToRel
<1> QED
  BY <1>3

\* There are two sides, left and right, and each is the other's opposite.
LEMMA Sides ==
  ASSUME NEW d \in Side
  PROVE  /\ Opp(d) \in Side /\ Opp(Opp(d)) = d /\ Opp(d) # d
         /\ \A e \in Side : e = d \/ e = Opp(d)
         /\ {d, Opp(d)} = {"left", "right"}
  BY DEF Side, Opp

\* The order of the addresses, seen from a side: strict, total and transitive.
LEMMA Orders ==
  ASSUME NEW d \in Side, NEW x \in Nat, NEW y \in Nat
  PROVE  /\ ~(Before(d, x, y) /\ Before(Opp(d), x, y))
         /\ ~Before(d, x, x)
         /\ Before(d, x, y) <=> Before(Opp(d), y, x)
         /\ x # y => Before(d, x, y) \/ Before(Opp(d), x, y)
         /\ \A z \in Nat : Before(d, x, y) /\ Before(d, y, z) => Before(d, x, z)
  BY DEF Side, Opp, Before

\* What the fields of a tree are, and that a tree is made of its fields.
LEMMA TreeTypes ==
  ASSUME NEW t \in Tree
  PROVE  /\ t.root \in Ptr
         /\ \A d \in Side : t[d] \in [Key -> Ptr]
         /\ \A d \in Side, n \in Key : t[d][n] \in Ptr
         /\ t.parent \in [Key -> Ptr] /\ \A n \in Key : t.parent[n] \in Ptr
         /\ t.color \in [Key -> {RED, BLACK}]
         /\ t.left = t["left"] /\ t.right = t["right"]
  BY DEF Tree, Side

(***************************************************************************)
(* What each assignment of rbtree.c does to the fields: u is t after it.   *)
(***************************************************************************)
KidSet(t, e, n, v, u) ==
  /\ u \in Tree /\ u.root = t.root /\ u.parent = t.parent /\ u.color = t.color
  /\ \A f \in Side, m \in Key : u[f][m] = IF f = e /\ m = n THEN v ELSE t[f][m]

ParentSet(t, n, q, u) ==
  /\ u \in Tree /\ u.root = t.root /\ u.color = t.color
  /\ \A f \in Side, m \in Key : u[f][m] = t[f][m]
  /\ \A m \in Key : u.parent[m] = IF m = n THEN q ELSE t.parent[m]

Painted(t, n, c, u) ==
  /\ u \in Tree /\ u.root = t.root /\ u.parent = t.parent
  /\ \A f \in Side, m \in Key : u[f][m] = t[f][m]
  /\ \A m \in Key : u.color[m] = IF m = n THEN c ELSE t.color[m]

Hung(t, q, old, new, u) ==
  /\ u \in Tree /\ u.root = (IF q = NULL THEN new ELSE t.root)
  /\ u.parent = t.parent /\ u.color = t.color
  /\ \A f \in Side, m \in Key :
       u[f][m] = IF m = q /\ t[f][m] = old THEN new ELSE t[f][m]

\* A rotation at n to side d.
Rotated(t, d, n, u) ==
  LET up == t[Opp(d)][n]
      i  == t[d][t[Opp(d)][n]]
      q  == t.parent[n]
  IN  /\ u \in Tree /\ u.color = t.color
      /\ u.root = (IF q = NULL THEN up ELSE t.root)
      /\ \A m \in Key : u.parent[m] =
           IF m = n THEN up ELSE IF m = up THEN q ELSE IF m = i THEN n ELSE t.parent[m]
      /\ \A f \in Side, m \in Key : u[f][m] =
           IF m = n /\ f = Opp(d) THEN i
           ELSE IF m = up /\ f = d THEN n
           ELSE IF m = q /\ t[f][m] = n THEN up ELSE t[f][m]

\* Assigning rb_left or rb_right of an entry changes that pointer only.
LEMMA KidSetIs ==
  ASSUME NEW t \in Tree, NEW e \in Side, NEW n \in Key, NEW v \in Ptr
  PROVE  KidSet(t, e, n, v, [t EXCEPT ![e][n] = v])
<1> DEFINE u == [t EXCEPT ![e][n] = v]
<1>a. CASE e = "left"
  <2>1. u = [t EXCEPT !.left[n] = v]
    BY <1>a
  <2> QED
    BY <1>a, <2>1 DEF Tree, Side, KidSet
<1>b. CASE e = "right"
  <2>1. u = [t EXCEPT !.right[n] = v]
    BY <1>b
  <2> QED
    BY <1>b, <2>1 DEF Tree, Side, KidSet
<1> QED
  BY <1>a, <1>b DEF Side

\* rb_set_parent changes the parent of the entry, if there is one, only.
LEMMA ParentSetIs ==
  ASSUME NEW t \in Tree, NEW n \in Ptr, NEW q \in Ptr
  PROVE  ParentSet(t, n, q, SetParent(t, n, q))
  BY KeyAssumption DEF Tree, Side, Ptr, SetParent, ParentSet

\* rb_set_red, rb_set_black and rb_set_color change one entry's colour only.
LEMMA PaintIs ==
  ASSUME NEW t \in Tree, NEW n \in Key, NEW c \in {RED, BLACK}
  PROVE  Painted(t, n, c, Paint(t, n, c))
  BY KeyAssumption DEF Tree, Side, Ptr, Paint, Painted

\* The three-way assignment with which the rotations and rb_erase change what
\* hangs from an entry's parent (rbtree.c:35-41).
LEMMA HungIs ==
  ASSUME NEW t \in Tree, NEW q \in Ptr, NEW old \in Key, NEW new \in Ptr,
         q # NULL => \E e \in Side : t[e][q] = old /\ t[Opp(e)][q] # old
  PROVE  Hung(t, q, old, new, Hang(t, q, old, new))
<1> DEFINE u == Hang(t, q, old, new)
<1>1. CASE q = NULL
  BY <1>1, KeyAssumption DEF Tree, Side, Ptr, Hang, Hung
<1>2. CASE q # NULL /\ t.left[q] = old
  <2>1. q \in Key /\ t["right"][q] # old
    BY <1>2, KeyAssumption DEF Side, Opp, Ptr, Tree
  <2>2. u = [t EXCEPT !["left"][q] = new]
    BY <1>2 DEF Hang
  <2>3. "left" \in Side /\ "right" \in Side /\ Side = {"left", "right"}
    BY DEF Side
  <2>a. KidSet(t, "left", q, new, [t EXCEPT !["left"][q] = new])
    BY <2>1, <2>3, KidSetIs
  <2>4. KidSet(t, "left", q, new, u)
    BY <2>2, <2>a
  <2> QED
    BY <1>2, <2>1, <2>3, <2>4, TreeTypes DEF KidSet, Hung
<1>3. CASE q # NULL /\ t.left[q] # old
  <2>1. q \in Key /\ t["right"][q] = old
    BY <1>3, KeyAssumption DEF Side, Opp, Ptr, Tree
  <2>2. u = [t EXCEPT !["right"][q] = new]
    BY <1>3 DEF Hang
  <2>3. "left" \in Side /\ "right" \in Side /\ Side = {"left", "right"}
    BY DEF Side
  <2>a. KidSet(t, "right", q, new, [t EXCEPT !["right"][q] = new])
    BY <2>1, <2>3, KidSetIs
  <2>4. KidSet(t, "right", q, new, u)
    BY <2>2, <2>a
  <2> QED
    BY <1>3, <2>1, <2>3, <2>4, TreeTypes DEF KidSet, Hung
<1> QED
  BY <1>1, <1>2, <1>3

\* __rb_rotate_left and __rb_rotate_right (rbtree.c:25-63): the child on the
\* other side takes the entry's place, its inner subtree changes hands.
LEMMA RotatedIs ==
  ASSUME NEW t \in Tree, NEW d \in Side, NEW n \in Key,
         t[Opp(d)][n] \in Key, t[Opp(d)][n] # n,
         t[d][t[Opp(d)][n]] \notin {n, t[Opp(d)][n]},
         t.parent[n] \notin {n, t[Opp(d)][n]},
         t.parent[n] # NULL => \E e \in Side : t[e][t.parent[n]] = n /\ t[Opp(e)][t.parent[n]] # n
  PROVE  Rotated(t, d, n, Rotate(t, d, n))
<1> DEFINE up == t[Opp(d)][n]
           q  == t.parent[n]
           i  == t[d][up]
           s1 == [t EXCEPT ![Opp(d)][n] = i]
           t1 == SetParent(s1, i, n)
           s2 == [t1 EXCEPT ![d][up] = n]
           t2 == SetParent(s2, up, q)
           t3 == Hang(t2, q, n, up)
           u  == SetParent(t3, n, up)
<1>1. Rotate(t, d, n) = u
  BY DEF Rotate
<1>2. /\ up \in Key /\ q \in Ptr /\ i \in Ptr /\ NULL \notin Key /\ n \in Ptr /\ up \in Ptr
      /\ Opp(d) \in Side /\ Opp(d) # d /\ up # n /\ i # n /\ i # up /\ q # n /\ q # up
  BY KeyAssumption, TreeTypes, Sides DEF Ptr
<1>q. q # NULL => \E e \in Side : t[e][q] = n /\ t[Opp(e)][q] # n
  OBVIOUS
<1>o. up = t[Opp(d)][n] /\ i = t[d][up] /\ q = t.parent[n]
  OBVIOUS
<1> HIDE DEF up, q, i
<1>3. KidSet(t, Opp(d), n, i, s1)
  BY <1>2, KidSetIs
<1> HIDE DEF s1
<1>4. s1 \in Tree /\ ParentSet(s1, i, n, t1)
  BY <1>2, <1>3, ParentSetIs DEF KidSet
<1> HIDE DEF t1
<1>5. t1 \in Tree /\ KidSet(t1, d, up, n, s2)
  BY <1>2, <1>4, KidSetIs DEF ParentSet
<1> HIDE DEF s2
<1>6. s2 \in Tree /\ ParentSet(s2, up, q, t2)
  BY <1>2, <1>5, ParentSetIs DEF KidSet
<1> HIDE DEF t2
<1>7. \A f \in Side : q # NULL => t2[f][q] = t[f][q]
  BY <1>2, <1>3, <1>4, <1>5, <1>6 DEF Ptr, KidSet, ParentSet
<1>8. q # NULL => \E e \in Side : t2[e][q] = n /\ t2[Opp(e)][q] # n
  BY <1>q, <1>7, Sides
<1>9. t2 \in Tree /\ Hung(t2, q, n, up, t3)
  BY <1>2, <1>6, <1>8, HungIs DEF ParentSet
<1> HIDE DEF t3
<1>10. t3 \in Tree /\ ParentSet(t3, n, up, u)
  BY <1>2, <1>9, ParentSetIs DEF Hung
<1> HIDE DEF u
<1>11. /\ u \in Tree /\ u.color = t.color /\ u.root = (IF q = NULL THEN up ELSE t.root)
       /\ \A m \in Key : u.parent[m] =
            IF m = n THEN up ELSE IF m = up THEN q ELSE IF m = i THEN n ELSE t.parent[m]
  BY <1>2, <1>3, <1>4, <1>5, <1>6, <1>9, <1>10 DEF KidSet, ParentSet, Hung
<1>12. \A f \in Side, m \in Key : u[f][m] =
           IF m = n /\ f = Opp(d) THEN i
           ELSE IF m = up /\ f = d THEN n
           ELSE IF m = q /\ t[f][m] = n THEN up ELSE t[f][m]
  BY <1>2, <1>3, <1>4, <1>5, <1>6, <1>9, <1>10 DEF KidSet, ParentSet, Hung
<1> QED
  BY <1>1, <1>o, <1>11, <1>12 DEF Rotated

-----------------------------------------------------------------------------
(* What a search tree looks like around an entry. *)

\* An entry of the tree heads its subtree, which is made of the entry and what
\* hangs from its two sides.
LEMMA NodeFacts ==
  ASSUME NEW t, NEW S, NEW sub, Shape(t, S, sub), NEW n \in S
  PROVE  /\ n \in Key /\ n \in Nat /\ n # NULL /\ n \in sub[n]
         /\ sub[n] \subseteq S /\ S \subseteq Key
         /\ \A d \in Side : sub[n] = {n} \cup Of(sub, t[d][n]) \cup Of(sub, t[Opp(d)][n])
         /\ t.parent[n] \in S \cup {NULL} /\ t.root \in S
         /\ t.parent[n] = NULL <=> n = t.root
         /\ t.parent[n] # n
<1>1. S \subseteq Key /\ n \in Key /\ n \in Nat /\ n # NULL /\ t \in Tree
  BY KeyAssumption DEF Shape
<1>2. IsNode(t, S, sub, n)
  BY DEF Shape
<1>3. \A d \in Side : sub[n] = {n} \cup Of(sub, t[d][n]) \cup Of(sub, t[Opp(d)][n])
  BY <1>2 DEF IsNode
<1>4. n \in sub[n] /\ sub[n] \subseteq S
  <2>1. "left" \in Side
    BY DEF Side
  <2> QED
    BY <1>2, <1>3, <2>1 DEF IsNode
<1>5. t.root \in S /\ t.parent[t.root] = NULL
  BY DEF Shape, Of
<1>6. t.parent[n] \in S \cup {NULL} /\ (t.parent[n] = NULL <=> n = t.root)
  BY <1>1, <1>2, <1>5, KeyAssumption DEF IsNode
<1>7. t.parent[n] # n
  <2> SUFFICES ASSUME t.parent[n] = n
               PROVE  FALSE
    OBVIOUS
  <2>1. PICK e \in Side : t[e][n] = n
    BY <1>1, <1>2, <1>6 DEF IsNode
  <2>2. Before(e, n, n)
    BY <1>1, <1>2, <1>4, <2>1 DEF IsNode
  <2> QED
    BY <1>1, <2>2, Orders
<1> QED
  BY <1>1, <1>3, <1>4, <1>5, <1>6, <1>7

\* The tree's entries are addresses, its pointers lead to its entries.
LEMMA Basics ==
  ASSUME NEW t, NEW S, NEW sub, Shape(t, S, sub)
  PROVE  /\ S \subseteq Key /\ Key \subseteq Nat /\ NULL \notin Key /\ Ptr = Key \cup {NULL}
         /\ t \in Tree /\ sub \in [Key -> SUBSET Key]
         /\ \A e \in Side, m \in Key : t[e][m] \in S \cup {NULL}
         /\ t.root \in S \cup {NULL} /\ (t.root = NULL <=> S = {})
<1>1. t.root = NULL => S = {}
  BY DEF Shape, Of
<1>2. S = {} => t.root = NULL
  BY DEF Shape
<1> QED
  BY <1>1, <1>2, KeyAssumption DEF Shape, Ptr

\* A child knows its parent, its subtree is part of the parent's and lies on
\* its side of the parent, and the two sides share nothing.
LEMMA KidFacts ==
  ASSUME NEW t, NEW S, NEW sub, Shape(t, S, sub), NEW n \in S, NEW d \in Side,
         NEW c, c = t[d][n], c # NULL
  PROVE  /\ c \in S /\ t.parent[c] = n /\ c # n /\ c \in sub[n]
         /\ sub[c] \subseteq sub[n] /\ n \notin sub[c]
         /\ \A x \in sub[c] : Before(d, x, n)
         /\ t[Opp(d)][n] # c
         /\ c # t.root /\ t.parent[n] # c
         /\ sub[c] \cap Of(sub, t[Opp(d)][n]) = {}
<1>1. n \in Key /\ n \in Nat /\ S \subseteq Key /\ Key \subseteq Nat /\ NULL \notin Key /\ Opp(d) \in Side
  BY KeyAssumption, NodeFacts, Sides
<1>2. IsNode(t, S, sub, n)
  BY DEF Shape
<1>3. c \in S /\ t.parent[c] = n /\ \A x \in sub[c] : Before(d, x, n)
  BY <1>1, <1>2 DEF IsNode, Shape
<1>4. c \in sub[c] /\ sub[c] \subseteq S /\ (t.parent[c] = NULL <=> c = t.root)
  BY <1>3, NodeFacts
<1>5. n \notin sub[c]
  BY <1>1, <1>3, Orders
<1>6. sub[c] \subseteq sub[n]
  BY NodeFacts DEF Of
<1>7. \A x \in Of(sub, t[Opp(d)][n]) : Before(Opp(d), x, n) /\ x \in Nat
  <2> SUFFICES ASSUME NEW x \in Of(sub, t[Opp(d)][n])
               PROVE  Before(Opp(d), x, n) /\ x \in Nat
    OBVIOUS
  <2>1. t[Opp(d)][n] # NULL /\ x \in sub[t[Opp(d)][n]]
    BY DEF Of
  <2>2. t[Opp(d)][n] \in S
    BY <1>1, <2>1 DEF Shape
  <2>3. sub[t[Opp(d)][n]] \subseteq S
    BY <2>2, NodeFacts
  <2> QED
    BY <1>1, <1>2, <2>1, <2>3 DEF IsNode
<1>8. sub[c] \cap Of(sub, t[Opp(d)][n]) = {}
  BY <1>1, <1>3, <1>7, Orders
<1>9. t[Opp(d)][n] # c
  BY <1>4, <1>8 DEF Of
<1>10. t.parent[n] # c
  <2> SUFFICES ASSUME t.parent[n] = c
               PROVE  FALSE
    OBVIOUS
  <2>1. n # t.root /\ c # NULL
    BY <1>1, <1>3, NodeFacts
  <2>2. PICK e \in Side : t[e][c] = n
    BY <1>2, <2>1 DEF IsNode
  <2>3. n \in sub[c]
    <3>1. n \in sub[n] /\ n # NULL
      BY NodeFacts
    <3>2. sub[c] = {c} \cup Of(sub, t[e][c]) \cup Of(sub, t[Opp(e)][c])
      BY <1>3, NodeFacts
    <3> QED
      BY <2>2, <3>1, <3>2 DEF Of
  <2> QED
    BY <1>5, <2>3
<1> QED
  BY <1>1, <1>3, <1>4, <1>5, <1>6, <1>8, <1>9, <1>10

\* An entry other than the root hangs from exactly one side of its parent.
LEMMA ParentFacts ==
  ASSUME NEW t, NEW S, NEW sub, Shape(t, S, sub), NEW n \in S, n # t.root
  PROVE  /\ t.parent[n] \in S
         /\ \E e \in Side : t[e][t.parent[n]] = n /\ t[Opp(e)][t.parent[n]] # n
<1>1. IsNode(t, S, sub, n) /\ n # NULL
  BY NodeFacts DEF Shape
<1>2. t.parent[n] \in S /\ \E e \in Side : t[e][t.parent[n]] = n
  BY <1>1 DEF IsNode
<1>3. PICK e \in Side : t[e][t.parent[n]] = n
  BY <1>2
<1>4. t[Opp(e)][t.parent[n]] # n
  BY <1>1, <1>2, <1>3, KidFacts
<1> QED
  BY <1>2, <1>3, <1>4

-----------------------------------------------------------------------------
(* Painting and rotating keep the search tree. *)

\* Colours play no part in the search tree.
LEMMA ShapeOfLinks ==
  ASSUME NEW t, NEW S, NEW sub, Shape(t, S, sub), NEW u \in Tree,
         u.root = t.root, u.parent = t.parent,
         \A f \in Side, m \in Key : u[f][m] = t[f][m]
  PROVE  Shape(u, S, sub)
<1>1. \A n \in S : IsNode(u, S, sub, n)
  <2> TAKE n \in S
  <2>1. IsNode(t, S, sub, n) /\ n \in Key /\ (n # t.root => t.parent[n] \in Key)
    BY NodeFacts, ParentFacts DEF Shape
  <2>2. \A e \in Side : Opp(e) \in Side
    BY Sides
  <2> QED
    BY <2>1, <2>2 DEF IsNode
<1> QED
  BY <1>1 DEF Shape

\* In a search tree a rotation has the effect that Rotated states.
LEMMA RotatedHere ==
  ASSUME NEW t, NEW S, NEW sub, Shape(t, S, sub), NEW n \in S, NEW d \in Side,
         t[Opp(d)][n] # NULL
  PROVE  Rotated(t, d, n, Rotate(t, d, n))
<1> DEFINE up == t[Opp(d)][n]
           i  == t[d][up]
<1>1. t \in Tree /\ n \in Key /\ S \subseteq Key /\ Opp(d) \in Side
  BY NodeFacts, Sides DEF Shape
<1>2. up \in S /\ up # n /\ t.parent[n] # up /\ t.parent[n] # n /\ n \notin sub[up]
  BY <1>1, KidFacts, NodeFacts
<1>3. i \notin {n, up}
  <2>1. CASE i = NULL
    BY <2>1, <1>1, <1>2, KeyAssumption
  <2>2. CASE i # NULL
    BY <2>2, <1>2, KidFacts
  <2> QED
    BY <2>1, <2>2
<1>4. t.parent[n] # NULL =>
        \E e \in Side : t[e][t.parent[n]] = n /\ t[Opp(e)][t.parent[n]] # n
  BY NodeFacts, ParentFacts
<1> HIDE DEF i
<1>5. t[d][up] \notin {n, t[Opp(d)][n]}
  BY <1>3 DEF i
<1> QED
  BY <1>1, <1>2, <1>4, <1>5, RotatedIs

\* The subtrees after a rotation at n to side d.
RotSub(t, d, n, sub) ==
  [sub EXCEPT ![n] = {n} \cup Of(sub, t[d][n]) \cup Of(sub, t[d][t[Opp(d)][n]]),
              ![t[Opp(d)][n]] = sub[n]]

\* A rotation keeps the search tree.
LEMMA ShapeRotated ==
  ASSUME NEW t, NEW S, NEW sub, Shape(t, S, sub), NEW n \in S, NEW d \in Side,
         t[Opp(d)][n] # NULL, NEW u, Rotated(t, d, n, u)
  PROVE  Shape(u, S, RotSub(t, d, n, sub))
<1> DEFINE up == t[Opp(d)][n]
           i  == t[d][up]
           a  == t[d][n]
           c  == t[Opp(d)][up]
           q  == t.parent[n]
           w  == RotSub(t, d, n, sub)
<1>0. /\ Opp(d) \in Side /\ Opp(Opp(d)) = d /\ Opp(d) # d
      /\ \A e \in Side : e = d \/ e = Opp(d)
      /\ S \subseteq Key /\ Key \subseteq Nat /\ NULL \notin Key /\ t \in Tree
      /\ sub \in [Key -> SUBSET Key] /\ Ptr = Key \cup {NULL}
  BY Sides, KeyAssumption DEF Shape, Ptr
<1>1. /\ up \in S /\ up # n /\ q # up /\ q # n /\ n \notin sub[up] /\ t.parent[up] = n
      /\ up # t.root
      /\ \A x \in sub[up] : Before(Opp(d), x, n)
  BY <1>0, KidFacts, NodeFacts
<1>2. /\ a \in S \cup {NULL} /\ i \in S \cup {NULL} /\ c \in S \cup {NULL}
      /\ q \in S \cup {NULL} /\ (q = NULL <=> n = t.root)
  <2>1. \A e \in Side, m \in Key : t[e][m] \in S \cup {NULL}
    BY DEF Shape
  <2>2. q \in S \cup {NULL} /\ (q = NULL <=> n = t.root) /\ n \in Key /\ up \in Key
    BY <1>0, <1>1, NodeFacts
  <2> QED
    BY <1>0, <2>1, <2>2
<1>3. /\ a # NULL => a # n /\ a # up /\ t.parent[a] = n /\ (\A x \in sub[a] : Before(d, x, n))
      /\ i # NULL => i # n /\ i # up /\ t.parent[i] = up /\ i # c /\ (\A x \in sub[i] : Before(d, x, up))
                     /\ sub[i] \subseteq sub[up]
      /\ c # NULL => c # n /\ c # up /\ t.parent[c] = up /\ (\A x \in sub[c] : Before(Opp(d), x, up))
  BY <1>0, <1>1, KidFacts
<1>4. /\ sub[n] = {n} \cup Of(sub, a) \cup sub[up]
      /\ sub[up] = {up} \cup Of(sub, i) \cup Of(sub, c)
      /\ sub[n] \subseteq S /\ sub[up] \subseteq S
  <2>1. Of(sub, up) = sub[up]
    BY DEF Of
  <2> QED
    BY <1>0, <1>1, <2>1, NodeFacts
<1>o. up = t[Opp(d)][n] /\ i = t[d][up] /\ a = t[d][n] /\ c = t[Opp(d)][up] /\ q = t.parent[n]
  OBVIOUS
<1> HIDE DEF up, i, a, c, q
<1>5. /\ w \in [Key -> SUBSET Key] /\ w[n] = {n} \cup Of(sub, a) \cup Of(sub, i) /\ w[up] = sub[n]
      /\ \A m \in Key \ {n, up} : w[m] = sub[m]
  <2>1. Of(sub, a) \in SUBSET Key /\ Of(sub, i) \in SUBSET Key
    BY <1>0, <1>2 DEF Of
  <2>2. w = [sub EXCEPT ![n] = {n} \cup Of(sub, a) \cup Of(sub, i), ![up] = sub[n]]
    BY <1>o DEF RotSub
  <2> HIDE DEF w
  <2> QED
    BY <1>0, <1>1, <2>1, <2>2
<1> HIDE DEF w
<1>6. \A x \in S \cup {NULL} : x # n /\ x # up => Of(w, x) = Of(sub, x)
  BY <1>0, <1>5 DEF Of
<1>7. Of(w, a) = Of(sub, a) /\ Of(w, i) = Of(sub, i) /\ Of(w, c) = Of(sub, c)
      /\ Of(w, n) = w[n] /\ Of(w, up) = sub[n]
  BY <1>0, <1>1, <1>2, <1>3, <1>5, <1>6 DEF Of
<1>8. /\ u \in Tree /\ u.root = (IF q = NULL THEN up ELSE t.root)
      /\ \A m \in Key : u.parent[m] =
            IF m = n THEN up ELSE IF m = up THEN q ELSE IF m = i THEN n ELSE t.parent[m]
      /\ \A f \in Side, m \in Key : u[f][m] =
            IF m = n /\ f = Opp(d) THEN i
            ELSE IF m = up /\ f = d THEN n
            ELSE IF m = q /\ t[f][m] = n THEN up ELSE t[f][m]
  BY <1>o DEF Rotated
<1>9. u[d][n] = a /\ u[Opp(d)][n] = i /\ u[d][up] = n /\ u[Opp(d)][up] = c
  BY <1>0, <1>1, <1>8, <1>o
<1>10. IsNode(u, S, w, n)
  <2>1. w[n] \subseteq S
    BY <1>1, <1>4, <1>5
  <2>2. w[n] = {n} \cup Of(w, u[d][n]) \cup Of(w, u[Opp(d)][n])
    BY <1>5, <1>7, <1>9
  <2>3. \A e \in Side : w[n] = {n} \cup Of(w, u[e][n]) \cup Of(w, u[Opp(e)][n])
    BY <1>0, <2>2
  <2>4. a # NULL => u.parent[a] = n /\ w[a] = sub[a] /\ \A x \in sub[a] : Before(d, x, n)
    BY <1>0, <1>1, <1>2, <1>3, <1>5, <1>8
  <2>5. i # NULL => u.parent[i] = n /\ w[i] = sub[i] /\ \A x \in sub[i] : Before(Opp(d), x, n)
    BY <1>0, <1>1, <1>2, <1>3, <1>5, <1>8
  <2>6. u.parent[n] = up /\ u[d][up] = n
    BY <1>0, <1>8, <1>9
  <2> QED
    BY <1>0, <1>1, <1>9, <2>1, <2>3, <2>4, <2>5, <2>6 DEF IsNode
<1>11. IsNode(u, S, w, up)
  <2>1. w[up] \subseteq S
    BY <1>4, <1>5
  <2>2. w[up] = {up} \cup Of(w, u[d][up]) \cup Of(w, u[Opp(d)][up])
    BY <1>4, <1>5, <1>7, <1>9
  <2>3. \A e \in Side : w[up] = {up} \cup Of(w, u[e][up]) \cup Of(w, u[Opp(e)][up])
    BY <1>0, <2>2
  <2>4. Before(d, n, up)
    <3>1. up \in sub[up] /\ n \in Nat /\ up \in Nat
      BY <1>1, NodeFacts
    <3> QED
      BY <1>0, <1>1, <3>1, Orders
  <2>5. \A x \in w[n] : Before(d, x, up)
    <3> TAKE x \in w[n]
    <3>1. x \in Nat /\ n \in Nat /\ up \in Nat
      BY <1>0, <1>1, <1>5
    <3>2. CASE x \in Of(sub, a)
      <4>1. Before(d, x, n)
        BY <1>3, <3>2 DEF Of
      <4> QED
        BY <2>4, <3>1, <4>1, Orders
    <3>3. CASE x \in Of(sub, i)
      BY <1>3, <3>3 DEF Of
    <3> QED
      BY <1>5, <2>4, <3>2, <3>3
  <2>6. c # NULL => u.parent[c] = up /\ w[c] = sub[c] /\ \A x \in sub[c] : Before(Opp(d), x, up)
    BY <1>0, <1>1, <1>2, <1>3, <1>5, <1>8
  <2>7. u.parent[n] = up
    BY <1>0, <1>8
  <2>8. up # u.root => u.parent[up] \in S /\ \E e \in Side : u[e][u.parent[up]] = up
    <3> SUFFICES ASSUME up # u.root
                 PROVE  u.parent[up] \in S /\ \E e \in Side : u[e][u.parent[up]] = up
      OBVIOUS
    <3>1. q \in S /\ u.parent[up] = q
      BY <1>0, <1>1, <1>2, <1>8
    <3>2. PICK e \in Side : t[e][q] = n
      BY <1>0, <1>2, <1>o, <3>1, ParentFacts
    <3>3. u[e][q] = up
      BY <1>0, <1>1, <1>8, <3>1, <3>2
    <3> QED
      BY <3>1, <3>3
  <2> QED
    <3>1. \A e \in Side : u[e][up] # NULL =>
            u.parent[u[e][up]] = up /\ \A x \in w[u[e][up]] : Before(e, x, up)
      BY <1>0, <1>9, <2>5, <2>6, <2>7
    <3> QED
      BY <2>1, <2>3, <2>8, <3>1 DEF IsNode
<1>12. \A m \in S : m # n /\ m # up => IsNode(u, S, w, m)
  <2> SUFFICES ASSUME NEW m \in S, m # n, m # up
               PROVE  IsNode(u, S, w, m)
    OBVIOUS
  <2>1. IsNode(t, S, sub, m) /\ w[m] = sub[m] /\ m \in Key /\ (\A e \in Side : Opp(e) \in Side)
    BY <1>0, <1>5, Sides DEF Shape
  <2>2. \A e \in Side : /\ t[e][m] \in S \cup {NULL} /\ t[e][m] # up
                        /\ t[e][m] = n => m = q
                        /\ t[e][m] # NULL => t.parent[t[e][m]] = m
    <3> TAKE e \in Side
    <3>1. t[e][m] \in S \cup {NULL}
      BY <2>1 DEF Shape
    <3>2. t[e][m] # NULL => t.parent[t[e][m]] = m
      BY KidFacts
    <3> QED
      BY <1>0, <1>1, <1>o, <3>1, <3>2
  <2>3. \A e \in Side : u[e][m] = IF t[e][m] = n THEN up ELSE t[e][m]
    BY <1>8, <2>1, <2>2
  <2>4. \A e \in Side : Of(w, u[e][m]) = Of(sub, t[e][m])
    <3> TAKE e \in Side
    <3>1. CASE t[e][m] = n
      <4>1. Of(sub, n) = sub[n]
        BY <1>0 DEF Of
      <4> QED
        BY <1>7, <2>3, <3>1, <4>1
    <3>2. CASE t[e][m] # n
      BY <1>6, <2>2, <2>3, <3>2
    <3> QED
      BY <3>1, <3>2
  <2>5. \A e \in Side : w[m] = {m} \cup Of(w, u[e][m]) \cup Of(w, u[Opp(e)][m])
    BY <2>1, <2>4 DEF IsNode
  <2>6. \A e \in Side : u[e][m] # NULL =>
          u.parent[u[e][m]] = m /\ \A x \in w[u[e][m]] : Before(e, x, m)
    <3> SUFFICES ASSUME NEW e \in Side, u[e][m] # NULL
                 PROVE  u.parent[u[e][m]] = m /\ \A x \in w[u[e][m]] : Before(e, x, m)
      OBVIOUS
    <3>1. t[e][m] # NULL /\ (\A x \in sub[t[e][m]] : Before(e, x, m))
      <4>1. t[e][m] # NULL
        BY <1>0, <2>3
      <4> QED
        BY <2>1, <4>1 DEF IsNode
    <3>2. CASE t[e][m] = n
      BY <1>0, <1>1, <1>5, <1>8, <2>2, <2>3, <3>1, <3>2
    <3>3. CASE t[e][m] # n
      <4>1. u[e][m] = t[e][m] /\ t[e][m] \in Key /\ t[e][m] # up /\ t.parent[t[e][m]] = m
        BY <1>0, <2>2, <2>3, <3>1, <3>3
      <4>2. t[e][m] # i
        BY <1>3, <3>1, <4>1
      <4> QED
        BY <1>5, <1>8, <3>1, <3>3, <4>1, <4>2
    <3> QED
      BY <3>2, <3>3
  <2>7. m # u.root => u.parent[m] \in S /\ \E e \in Side : u[e][u.parent[m]] = m
    <3> SUFFICES ASSUME m # u.root
                 PROVE  u.parent[m] \in S /\ \E e \in Side : u[e][u.parent[m]] = m
      OBVIOUS
    <3>1. m # t.root
      BY <1>2, <1>8
    <3>2. t.parent[m] \in S /\ \E e \in Side : t[e][t.parent[m]] = m
      BY <3>1, ParentFacts
    <3>3. PICK e \in Side : t[e][t.parent[m]] = m
      BY <3>2
    <3>4. CASE m = i
      BY <1>0, <1>8, <1>9, <2>1, <3>4
    <3>5. CASE m # i
      <4>1. u.parent[m] = t.parent[m]
        BY <1>8, <2>1, <3>5
      <4>2. ~(t.parent[m] = n /\ e = Opp(d)) /\ ~(t.parent[m] = up /\ e = d)
        BY <1>o, <3>3, <3>5
      <4>3. u[e][t.parent[m]] = m
        BY <1>0, <1>8, <3>2, <3>3, <4>2
      <4> QED
        BY <3>2, <4>1, <4>3
    <3> QED
      BY <3>4, <3>5
  <2> QED
    BY <2>1, <2>5, <2>6, <2>7 DEF IsNode
<1>13. /\ u.root \in S /\ u.parent[u.root] = NULL /\ Of(w, u.root) = S
  <2>1. t.root \in S /\ Of(sub, t.root) = S /\ t.parent[t.root] = NULL
    BY NodeFacts DEF Shape
  <2>2. CASE q = NULL
    <3>1. n = t.root /\ u.root = up
      BY <1>2, <1>8, <2>2
    <3>2. sub[n] = S
      BY <1>0, <2>1, <3>1 DEF Of
    <3> QED
      BY <1>0, <1>1, <1>7, <1>8, <2>2, <3>1, <3>2
  <2>3. CASE q # NULL
    <3>1. n # t.root /\ u.root = t.root
      BY <1>2, <1>8, <2>3
    <3>2. t.root # up /\ t.root # i
      BY <1>0, <1>1, <1>3, <2>1
    <3> QED
      BY <1>0, <1>6, <1>8, <2>1, <3>1, <3>2
  <2> QED
    BY <2>2, <2>3
<1>14. \A e \in Side, m \in Key : u[e][m] \in S \cup {NULL}
  BY <1>1, <1>2, <1>8 DEF Shape
<1>15. \A m \in S : IsNode(u, S, w, m)
  BY <1>10, <1>11, <1>12
<1> QED
  BY <1>0, <1>5, <1>8, <1>13, <1>14, <1>15 DEF Shape, w

-----------------------------------------------------------------------------
(* Induction along the tree. *)

\* Every subtree is finite and larger than those below it.
LEMMA SubtreeSize ==
  ASSUME NEW t, NEW S, NEW sub, Shape(t, S, sub), NEW n \in S
  PROVE  /\ Cardinality(sub[n]) \in Nat /\ Cardinality(sub[n]) <= Cardinality(Key)
         /\ Cardinality(Key) \in Nat
         /\ \A d \in Side : t[d][n] # NULL => Cardinality(sub[t[d][n]]) < Cardinality(sub[n])
<1>1. IsFiniteSet(Key) /\ sub[n] \subseteq Key
  BY KeyAssumption, NodeFacts
<1>2. IsFiniteSet(sub[n]) /\ Cardinality(sub[n]) \in Nat /\ Cardinality(Key) \in Nat
      /\ Cardinality(sub[n]) <= Cardinality(Key)
  BY <1>1, FS_Subset, FS_CardinalityType
<1>3. ASSUME NEW d \in Side, t[d][n] # NULL
      PROVE  Cardinality(sub[t[d][n]]) < Cardinality(sub[n])
  <2>1. sub[t[d][n]] \subseteq sub[n] /\ sub[t[d][n]] # sub[n]
    BY <1>3, KidFacts, NodeFacts
  <2> QED
    BY <1>2, <2>1, FS_Subset, FS_CardinalityType
<1> QED
  BY <1>2, <1>3

\* What holds of an entry whenever it holds of its children holds of all.
LEMMA UpwardInduction ==
  ASSUME NEW t, NEW S, NEW sub, Shape(t, S, sub), NEW T \in SUBSET S,
         \A n \in S : (\A d \in Side : t[d][n] # NULL => t[d][n] \in T) => n \in T
  PROVE  T = S
<1> SUFFICES ASSUME S \ T # {}
             PROVE  FALSE
  OBVIOUS
<1> DEFINE C == {Cardinality(sub[n]) : n \in S \ T}
<1>1. C # {} /\ C \subseteq Nat
  BY SubtreeSize
<1>2. PICK x \in C : \A y \in C : x <= y
  <2> HIDE DEF C
  <2> QED
    BY <1>1, LeastNat
<1>3. PICK n \in S \ T : x = Cardinality(sub[n])
  BY <1>2
<1>4. \A d \in Side : t[d][n] # NULL => t[d][n] \in T
  <2> SUFFICES ASSUME NEW d \in Side, t[d][n] # NULL, t[d][n] \notin T
               PROVE  FALSE
    OBVIOUS
  <2>1. t[d][n] \in S
    BY KidFacts
  <2>2. Cardinality(sub[t[d][n]]) \in C
    BY <2>1
  <2>3. Cardinality(sub[t[d][n]]) < x /\ x \in Nat /\ Cardinality(sub[t[d][n]]) \in Nat
    BY <1>3, <2>1, SubtreeSize
  <2> HIDE DEF C
  <2> QED
    BY <1>2, <2>2, <2>3
<1> QED
  BY <1>3, <1>4

\* What holds of the root, and of the children of every entry that it holds
\* of, holds of all.
LEMMA DownwardInduction ==
  ASSUME NEW t, NEW S, NEW sub, Shape(t, S, sub), NEW T \in SUBSET S,
         t.root # NULL => t.root \in T,
         \A n \in T, d \in Side : t[d][n] # NULL => t[d][n] \in T
  PROVE  T = S
<1> SUFFICES ASSUME S \ T # {}
             PROVE  FALSE
  OBVIOUS
<1> DEFINE C == {Cardinality(Key) - Cardinality(sub[n]) : n \in S \ T}
<1>1. C # {} /\ C \subseteq Nat
  BY SubtreeSize
<1>2. PICK x \in C : \A y \in C : x <= y
  <2> HIDE DEF C
  <2> QED
    BY <1>1, LeastNat
<1>3. PICK n \in S \ T : x = Cardinality(Key) - Cardinality(sub[n])
  BY <1>2
<1>4. n # t.root /\ n # NULL
  BY NodeFacts
<1>5. t.parent[n] \in S /\ \E e \in Side : t[e][t.parent[n]] = n
  BY <1>4, ParentFacts
<1>6. t.parent[n] \notin T
  BY <1>4, <1>5
<1>7. Cardinality(Key) - Cardinality(sub[t.parent[n]]) \in C
  BY <1>5, <1>6
<1>8. /\ Cardinality(sub[n]) < Cardinality(sub[t.parent[n]])
      /\ Cardinality(sub[n]) \in Nat /\ Cardinality(sub[t.parent[n]]) \in Nat
      /\ Cardinality(Key) \in Nat
  BY <1>4, <1>5, SubtreeSize
<1> HIDE DEF C
<1> QED
  BY <1>2, <1>3, <1>7, <1>8

\* The subtree of an entry in a subtree is part of it.
LEMMA Nested ==
  ASSUME NEW t, NEW S, NEW sub, Shape(t, S, sub), NEW n \in S, NEW k \in sub[n]
  PROVE  k \in S /\ sub[k] \subseteq sub[n]
<1> DEFINE T == {m \in S : \A j \in sub[m] : sub[j] \subseteq sub[m]}
<1>1. ASSUME NEW m \in S, \A d \in Side : t[d][m] # NULL => t[d][m] \in T
      PROVE  m \in T
  <2> SUFFICES ASSUME NEW j \in sub[m]
               PROVE  sub[j] \subseteq sub[m]
    OBVIOUS
  <2>1. CASE j = m
    BY <2>1
  <2>2. CASE j # m
    <3>1. PICK d \in Side : t[d][m] # NULL /\ j \in sub[t[d][m]]
      <4>1. "left" \in Side /\ Opp("left") \in Side
        BY DEF Side, Opp
      <4>2. sub[m] = {m} \cup Of(sub, t["left"][m]) \cup Of(sub, t[Opp("left")][m])
        BY <4>1, NodeFacts
      <4> QED
        BY <2>2, <4>1, <4>2 DEF Of
    <3>2. sub[j] \subseteq sub[t[d][m]]
      BY <1>1, <3>1
    <3> QED
      BY <3>1, <3>2, KidFacts
  <2> QED
    BY <2>1, <2>2
<1>2. T = S
  <2> HIDE DEF T
  <2>1. T \in SUBSET S
    BY DEF T
  <2> QED
    BY <1>1, <2>1, UpwardInduction
<1> QED
  BY <1>2, NodeFacts

\* The parent of an entry in a subtree is in it, but for the subtree's head.
LEMMA ParentInside ==
  ASSUME NEW t, NEW S, NEW sub, Shape(t, S, sub), NEW n \in S, NEW k \in sub[n], k # n
  PROVE  t.parent[k] \in sub[n]
<1> DEFINE T == {m \in S : \A j \in sub[m] : j # m => t.parent[j] \in sub[m]}
<1>1. ASSUME NEW m \in S, \A d \in Side : t[d][m] # NULL => t[d][m] \in T
      PROVE  m \in T
  <2> SUFFICES ASSUME NEW j \in sub[m], j # m
               PROVE  t.parent[j] \in sub[m]
    OBVIOUS
  <2>1. PICK d \in Side : t[d][m] # NULL /\ j \in sub[t[d][m]]
    <3>1. "left" \in Side /\ Opp("left") \in Side
      BY DEF Side, Opp
    <3>2. sub[m] = {m} \cup Of(sub, t["left"][m]) \cup Of(sub, t[Opp("left")][m])
      BY <3>1, NodeFacts
    <3> QED
      BY <3>1, <3>2 DEF Of
  <2>2. CASE j = t[d][m]
    BY <2>1, <2>2, KidFacts, NodeFacts
  <2>3. CASE j # t[d][m]
    <3>1. t.parent[j] \in sub[t[d][m]]
      BY <1>1, <2>1, <2>3
    <3> QED
      BY <2>1, <3>1, KidFacts
  <2> QED
    BY <2>2, <2>3
<1>2. T = S
  <2> HIDE DEF T
  <2>1. T \in SUBSET S
    BY DEF T
  <2> QED
    BY <1>1, <2>1, UpwardInduction
<1> QED
  BY <1>2

-----------------------------------------------------------------------------
(* Loops that walk the tree. *)

\* rank falls along the walk.
Falls(step, stop, rank, N) ==
  /\ N \in Nat /\ rank \in [Key -> 0 .. N]
  /\ \A m \in Key : m \notin stop => step[m] \in Key /\ rank[step[m]] < rank[m]

IsEnd(step, stop, f) == f = [m \in Key |-> IF m \in stop THEN m ELSE f[step[m]]]

\* A walk along which rank falls stops somewhere: a function that gives the
\* end of the walk from every entry exists.
LEMMA WalkEnds ==
  ASSUME NEW step, NEW stop, NEW rank, NEW N, Falls(step, stop, rank, N)
  PROVE  \E f : IsEnd(step, stop, f)
<1>0. /\ N \in Nat /\ rank \in [Key -> 0 .. N]
      /\ \A m \in Key : m \notin stop => step[m] \in Key /\ rank[step[m]] < rank[m]
  BY DEF Falls
<1> DEFINE Upto(b, f) == \A m \in Key : rank[m] <= b => f[m] = IF m \in stop THEN m ELSE f[step[m]]
           T == {b \in Nat : \A f : ~(f \in [Key -> Key] /\ Upto(b, f))}
<1>1. T = {}
  <2> SUFFICES ASSUME T # {}
               PROVE  FALSE
    OBVIOUS
  <2>1. PICK b \in T : \A a \in T : b <= a
    <3>1. T \in SUBSET Nat
      OBVIOUS
    <3> HIDE DEF T
    <3> QED
      BY <3>1, LeastNat
  <2>2. b \in Nat
    OBVIOUS
  <2>3. CASE b = 0
    <3> DEFINE f == [m \in Key |-> m]
    <3>1. f \in [Key -> Key] /\ Upto(0, f)
      <4>1. \A m \in Key : rank[m] <= 0 => m \in stop
        BY <1>0
      <4> QED
        BY <4>1
    <3> HIDE DEF f, Upto
    <3> QED
      BY <2>1, <2>3, <3>1
  <2>4. CASE b # 0
    <3>1. b - 1 \in Nat /\ b - 1 \notin T
      <4> HIDE DEF T
      <4> QED
        BY <2>1, <2>2, <2>4
    <3>2. PICK f : f \in [Key -> Key] /\ Upto(b - 1, f)
      BY <3>1
    <3> DEFINE g == [m \in Key |-> IF m \in stop THEN m ELSE f[step[m]]]
    <3>3. g \in [Key -> Key]
      BY <1>0, <3>2
    <3>4. Upto(b, g)
      <4> SUFFICES ASSUME NEW m \in Key, rank[m] <= b
                   PROVE  g[m] = IF m \in stop THEN m ELSE g[step[m]]
        OBVIOUS
      <4>1. CASE m \in stop
        BY <4>1
      <4>2. CASE m \notin stop
        <5>1. step[m] \in Key /\ rank[step[m]] <= b - 1
          BY <1>0, <2>2, <4>2
        <5>2. f[step[m]] = IF step[m] \in stop THEN step[m] ELSE f[step[step[m]]]
          BY <3>2, <5>1
        <5> QED
          BY <4>2, <5>1, <5>2
      <4> QED
        BY <4>1, <4>2
    <3> HIDE DEF g, Upto
    <3> QED
      BY <2>1, <3>3, <3>4
  <2> QED
    BY <2>3, <2>4
<1>2. PICK f : f \in [Key -> Key] /\ Upto(N, f)
  BY <1>0, <1>1
<1>3. \A m \in Key : f[m] = IF m \in stop THEN m ELSE f[step[m]]
  BY <1>0, <1>2
<1>4. f = [m \in Key |-> IF m \in stop THEN m ELSE f[step[m]]]
  BY <1>2, <1>3
<1> QED
  BY <1>4 DEF IsEnd

\* Such a walk never leaves a set that every step stays in, and ends where it
\* may stop.
LEMMA WalkStays ==
  ASSUME NEW step, NEW stop, NEW rank, NEW N, Falls(step, stop, rank, N),
         NEW Q \in SUBSET Key, NEW n \in Q,
         \A m \in Q : m \notin stop => step[m] \in Q
  PROVE  WalkEnd(step, stop, n) \in Q /\ WalkEnd(step, stop, n) \in stop
<1>0. /\ N \in Nat /\ rank \in [Key -> 0 .. N]
      /\ \A m \in Key : m \notin stop => step[m] \in Key /\ rank[step[m]] < rank[m]
  BY DEF Falls
<1> DEFINE end == CHOOSE f : f = [m \in Key |-> IF m \in stop THEN m ELSE f[step[m]]]
<1>1. WalkEnd(step, stop, n) = end[n]
  BY DEF WalkEnd
<1>2. end = [m \in Key |-> IF m \in stop THEN m ELSE end[step[m]]]
  <2>1. \E f : f = [m \in Key |-> IF m \in stop THEN m ELSE f[step[m]]]
    <3>1. \E f : IsEnd(step, stop, f)
      BY WalkEnds
    <3> QED
      BY <3>1 DEF IsEnd
  <2> QED
    BY <2>1
<1> HIDE DEF end
<1>3. \A m \in Key : end[m] = IF m \in stop THEN m ELSE end[step[m]]
  BY <1>2
<1> DEFINE Bad == {m \in Q : ~(end[m] \in Q /\ end[m] \in stop)}
           C == {rank[m] : m \in Bad}
<1> SUFFICES ASSUME Bad # {}
             PROVE  FALSE
  BY <1>1
<1>4. C \in SUBSET Nat /\ C # {}
  BY <1>0
<1>5. PICK x \in C : \A y \in C : x <= y
  <2> HIDE DEF C
  <2> QED
    BY <1>4, LeastNat
<1>6. PICK m \in Bad : x = rank[m]
  OBVIOUS
<1>7. m \in Key /\ m \notin stop
  BY <1>3
<1>8. step[m] \in Q /\ end[m] = end[step[m]]
  BY <1>3, <1>7
<1>9. step[m] \in Bad
  BY <1>8
<1>10. rank[step[m]] \in C /\ rank[step[m]] < x /\ rank[step[m]] \in Nat /\ x \in Nat
  BY <1>0, <1>6, <1>7, <1>9
<1> HIDE DEF C
<1> QED
  BY <1>5, <1>10

Rank(S, sub) == [n \in Key |-> IF n \in S THEN Cardinality(sub[n]) ELSE Cardinality(Key) + 1]

\* A walk from parents to children ends: subtrees get smaller.
LEMMA DownFalls ==
  ASSUME NEW t, NEW S, NEW sub, Shape(t, S, sub), NEW step, NEW stop,
         \A m \in Key : m \notin stop => \E d \in Side : step[m] = t[d][m] /\ t[d][m] # NULL
  PROVE  Falls(step, stop, Rank(S, sub), Cardinality(Key) + 1)
<1> DEFINE rank == Rank(S, sub)
           N == Cardinality(Key) + 1
<1>1. Cardinality(Key) \in Nat /\ N \in Nat
  BY KeyAssumption, FS_CardinalityType
<1>2. \A n \in S : Cardinality(sub[n]) \in Nat /\ Cardinality(sub[n]) <= Cardinality(Key)
  BY SubtreeSize
<1>3. \A n \in Key : rank[n] = IF n \in S THEN Cardinality(sub[n]) ELSE N
  BY DEF Rank
<1>4. rank \in [Key -> 0 .. N]
  <2>1. \A n \in Key : rank[n] \in 0 .. N
    BY <1>1, <1>2, <1>3
  <2> QED
    BY <2>1 DEF Rank
<1>5. ASSUME NEW m \in Key, m \notin stop
      PROVE  step[m] \in Key /\ rank[step[m]] < rank[m]
  <2>1. PICK d \in Side : step[m] = t[d][m] /\ t[d][m] # NULL
    BY <1>5
  <2>2. step[m] \in S /\ step[m] \in Key
    BY <2>1 DEF Shape
  <2>3. rank[step[m]] = Cardinality(sub[step[m]])
    BY <1>3, <2>2
  <2>4. CASE m \in S
    <3>1. Cardinality(sub[step[m]]) < Cardinality(sub[m])
      BY <2>1, <2>4, SubtreeSize
    <3> HIDE DEF rank
    <3> QED
      BY <1>3, <2>2, <2>3, <2>4, <3>1
  <2>5. CASE m \notin S
    <3> HIDE DEF rank
    <3> QED
      BY <1>1, <1>2, <1>3, <2>2, <2>3, <2>5
  <2> QED
    BY <2>4, <2>5
<1> QED
  BY <1>1, <1>4, <1>5 DEF Falls

\* The loops of rb_first, rb_last, rb_next, rb_prev and rb_erase that go to
\* one side as far as they can (rbtree.c:199-201): from n they reach the entry
\* of n's subtree that lies farthest on that side.
LEMMA OutermostIs ==
  ASSUME NEW t, NEW S, NEW sub, Shape(t, S, sub), NEW d \in Side, NEW n \in S,
         NEW o, o = Outermost(t, d, n)
  PROVE  /\ o \in sub[n] /\ t[d][o] = NULL
         /\ \A x \in sub[n] : x # o => Before(d, o, x)
         /\ o # n => t[d][t.parent[o]] = o
<1>0. /\ S \subseteq Key /\ Key \subseteq Nat /\ NULL \notin Key /\ Opp(d) \in Side
      /\ sub[n] \subseteq S /\ n \in sub[n] /\ t \in Tree
  BY Basics, NodeFacts, Sides
<1> DEFINE stop == {m \in Key : t[d][m] = NULL}
           Q == {m \in sub[n] : /\ \A x \in sub[n], y \in sub[m] : x \notin sub[m] => Before(d, y, x)
                                /\ m # n => t[d][t.parent[m]] = m}
<1>1. Falls(t[d], stop, Rank(S, sub), Cardinality(Key) + 1)
  <2>1. \A m \in Key : m \notin stop => \E e \in Side : t[d][m] = t[e][m] /\ t[e][m] # NULL
    OBVIOUS
  <2> HIDE DEF stop
  <2> QED
    BY <2>1, DownFalls
<1>2. n \in Q
  BY <1>0
<1>3. ASSUME NEW m \in Q, m \notin stop
      PROVE  t[d][m] \in Q
  <2> DEFINE c == t[d][m]
  <2>1. m \in S /\ m \in Nat /\ c # NULL /\ sub[m] \subseteq sub[n]
    BY <1>0, <1>3, Nested
  <2>2. /\ c \in S /\ t.parent[c] = m /\ c \in sub[m] /\ sub[c] \subseteq sub[m]
        /\ \A y \in sub[c] : Before(d, y, m) /\ y \in Nat
        /\ sub[m] = {m} \cup sub[c] \cup Of(sub, t[Opp(d)][m])
        /\ c \in sub[n]
    <3>1. /\ c \in S /\ t.parent[c] = m /\ c \in sub[m] /\ sub[c] \subseteq sub[m]
          /\ \A y \in sub[c] : Before(d, y, m)
      BY <2>1, KidFacts
    <3>2. sub[m] = {m} \cup sub[c] \cup Of(sub, t[Opp(d)][m])
      BY <2>1, NodeFacts DEF Of
    <3> QED
      BY <1>0, <2>1, <3>1, <3>2
  <2>3. \A x \in Of(sub, t[Opp(d)][m]) : Before(Opp(d), x, m) /\ x \in Nat
    <3> TAKE x \in Of(sub, t[Opp(d)][m])
    <3>1. t[Opp(d)][m] # NULL /\ x \in sub[t[Opp(d)][m]]
      BY DEF Of
    <3>2. Before(Opp(d), x, m) /\ sub[t[Opp(d)][m]] \subseteq sub[m]
      BY <1>0, <2>1, <3>1, KidFacts
    <3> QED
      BY <1>0, <2>1, <3>1, <3>2
  <2>4. ASSUME NEW x \in sub[n], NEW y \in sub[c], x \notin sub[c]
        PROVE  Before(d, y, x)
    <3>1. CASE x \notin sub[m]
      BY <1>3, <2>2, <3>1
    <3>2. CASE x = m
      BY <2>2, <3>2
    <3>3. CASE x \in Of(sub, t[Opp(d)][m])
      <4>1. Before(d, m, x) /\ Before(d, y, m) /\ x \in Nat /\ y \in Nat
        BY <2>1, <2>2, <2>3, <3>3, Orders, Sides
      <4> QED
        BY <2>1, <4>1, Orders
    <3> QED
      BY <2>2, <2>4, <3>1, <3>2, <3>3
  <2> HIDE DEF c
  <2>5. t[d][t.parent[c]] = c
    BY <2>2 DEF c
  <2> QED
    BY <2>2, <2>4, <2>5 DEF c
<1>4. Q \in SUBSET Key
  BY <1>0
<1>5. WalkEnd(t[d], stop, n) \in Q /\ WalkEnd(t[d], stop, n) \in stop
  <2> HIDE DEF stop, Q
  <2> QED
    BY <1>1, <1>2, <1>3, <1>4, WalkStays
<1>6. o \in Q /\ o \in stop
  BY <1>5 DEF Outermost
<1>7. o \in S /\ t[d][o] = NULL /\ o \in Nat
  BY <1>0, <1>6
<1>8. ASSUME NEW x \in sub[n], x # o
      PROVE  Before(d, o, x)
  <2>1. o \in sub[o] /\ x \in Nat
    BY <1>0, <1>7, NodeFacts
  <2>2. CASE x \notin sub[o]
    BY <1>6, <2>1, <2>2
  <2>3. CASE x \in sub[o]
    <3>1. sub[o] = {o} \cup Of(sub, t[Opp(d)][o])
      <4>1. sub[o] = {o} \cup Of(sub, t[d][o]) \cup Of(sub, t[Opp(d)][o])
        BY <1>7, NodeFacts
      <4> QED
        BY <1>7, <4>1 DEF Of
    <3>2. t[Opp(d)][o] # NULL /\ x \in sub[t[Opp(d)][o]]
      BY <1>8, <2>3, <3>1 DEF Of
    <3>3. Before(Opp(d), x, o)
      BY <1>0, <1>7, <3>2, KidFacts
    <3> QED
      BY <1>0, <1>7, <2>1, <3>3, Orders, Sides
  <2> QED
    BY <2>2, <2>3
<1> QED
  BY <1>6, <1>7, <1>8

\* The side of n on which a search for k goes on.
Toward(k, n) == IF k < n THEN "left" ELSE "right"

\* The search of breakpoint_rb_find_internal and breakpoint_rb_search_insert
\* (breakpoint.c:182-195, 219-230): it ends at the entry of the address if there
\* is one, and otherwise at an entry with a free place on the side of the
\* address, below which side of every other entry the address belongs too.
LEMMA DescendIs ==
  ASSUME NEW t, NEW S, NEW sub, Shape(t, S, sub), NEW k \in Key, S # {},
         NEW p, p = Descend(t, k)
  PROVE  /\ p \in S /\ (k \in S <=> p = k)
         /\ p # k => t[Toward(k, p)][p] = NULL
         /\ \A n \in S, d \in Side : t[d][n] # NULL /\ p \in sub[t[d][n]] => Before(d, k, n)
<1>0. /\ S \subseteq Key /\ Key \subseteq Nat /\ NULL \notin Key /\ t \in Tree /\ k \in Nat
      /\ t.root \in S /\ t.root # NULL /\ sub[t.root] = S
      /\ \A e \in Side, m \in Key : t[e][m] \in S \cup {NULL}
  BY Basics DEF Shape, Of
<1>s. \A n \in Key : /\ Toward(k, n) \in Side
                     /\ n # k => Before(Toward(k, n), k, n)
                     /\ \A d \in Side : Before(d, k, n) => d = Toward(k, n)
  BY <1>0 DEF Toward, Side, Before
<1> DEFINE next == [n \in Key |-> IF k < n THEN t.left[n] ELSE t.right[n]]
           stop == {n \in Key : n = k \/ next[n] = NULL}
           Path(m) == \A n \in S, d \in Side : t[d][n] # NULL /\ m \in sub[t[d][n]] => Before(d, k, n)
           Q == {m \in S : (k \in S => k \in sub[m]) /\ Path(m)}
<1>1. \A n \in Key : next[n] = t[Toward(k, n)][n]
  BY DEF Toward
<1>2. p = WalkEnd(next, stop, t.root)
  BY <1>0 DEF Descend
<1> HIDE DEF next
<1>3. Falls(next, stop, Rank(S, sub), Cardinality(Key) + 1)
  <2>1. \A m \in Key : m \notin stop => \E e \in Side : next[m] = t[e][m] /\ t[e][m] # NULL
    BY <1>1, <1>s
  <2> HIDE DEF stop
  <2> QED
    BY <2>1, DownFalls
<1>4. t.root \in Q
  <2> SUFFICES ASSUME NEW n \in S, NEW d \in Side, t[d][n] # NULL, t.root \in sub[t[d][n]]
               PROVE  FALSE
    BY <1>0
  <2>1. t[d][n] \in S /\ n \notin sub[t[d][n]]
    BY KidFacts
  <2>2. S \subseteq sub[t[d][n]]
    BY <1>0, <2>1, Nested
  <2> QED
    BY <2>1, <2>2
<1>5. ASSUME NEW m \in Q, m \notin stop
      PROVE  next[m] \in Q
  <2> DEFINE e == Toward(k, m)
             c == t[e][m]
  <2>1. m \in S /\ m \in Key /\ m # k /\ c # NULL /\ next[m] = c /\ e \in Side /\ Before(e, k, m)
    BY <1>0, <1>1, <1>5, <1>s
  <2> HIDE DEF e
  <2>2. c \in S /\ t.parent[c] = m /\ c \in sub[c] /\ c \notin Of(sub, t[Opp(e)][m])
    <3>1. c \in S /\ t.parent[c] = m /\ sub[c] \cap Of(sub, t[Opp(e)][m]) = {}
      BY <2>1, KidFacts
    <3>2. c \in sub[c]
      BY <3>1, NodeFacts
    <3> QED
      BY <3>1, <3>2
  <2>3. ASSUME k \in S
        PROVE  k \in sub[c]
    <3>1. k \in sub[m] /\ sub[m] = {m} \cup Of(sub, c) \cup Of(sub, t[Opp(e)][m])
      BY <2>1, <2>3, NodeFacts
    <3>2. k \notin Of(sub, t[Opp(e)][m])
      <4> SUFFICES ASSUME k \in Of(sub, t[Opp(e)][m])
                   PROVE  FALSE
        OBVIOUS
      <4>1. t[Opp(e)][m] # NULL /\ k \in sub[t[Opp(e)][m]] /\ Opp(e) \in Side
        BY <2>1, Sides DEF Of
      <4>2. Before(Opp(e), k, m)
        BY <2>1, <4>1, KidFacts
      <4> QED
        BY <1>0, <2>1, <4>2, Orders
    <3> QED
      BY <2>1, <3>1, <3>2 DEF Of
  <2>4. ASSUME NEW n \in S, NEW d \in Side, t[d][n] # NULL, c \in sub[t[d][n]]
        PROVE  Before(d, k, n)
    <3>1. CASE n = m
      <4>1. d = e
        <5>1. d # Opp(e)
          BY <2>2, <2>4, <3>1 DEF Of
        <5> QED
          BY <2>1, <5>1, Sides
      <4> QED
        BY <2>1, <3>1, <4>1
    <3>2. CASE n # m
      <4>1. t[d][n] \in S /\ t.parent[t[d][n]] = n
        BY <2>4, KidFacts
      <4>2. c # t[d][n]
        BY <2>2, <3>2, <4>1
      <4>3. m \in sub[t[d][n]]
        BY <2>2, <2>4, <4>1, <4>2, ParentInside
      <4> QED
        BY <2>4, <4>3
    <3> QED
      BY <3>1, <3>2
  <2> HIDE DEF c
  <2> QED
    BY <2>1, <2>2, <2>3, <2>4
<1>6. Q \in SUBSET Key
  BY <1>0
<1>7. p \in Q /\ p \in stop
  <2> HIDE DEF stop, Q
  <2> QED
    BY <1>2, <1>3, <1>4, <1>5, <1>6, WalkStays
<1>8. p \in S /\ p \in Key /\ (p = k \/ t[Toward(k, p)][p] = NULL)
  BY <1>0, <1>1, <1>7
<1>9. ASSUME k \in S, p # k
      PROVE  FALSE
  <2> DEFINE e == Toward(k, p)
  <2>1. k \in sub[p] /\ e \in Side /\ t[e][p] = NULL /\ Opp(e) \in Side /\ Before(e, k, p)
    BY <1>7, <1>8, <1>9, <1>s, Sides
  <2>2. sub[p] = {p} \cup Of(sub, t[e][p]) \cup Of(sub, t[Opp(e)][p])
    BY <1>8, <2>1, NodeFacts
  <2> HIDE DEF e
  <2>3. t[Opp(e)][p] # NULL /\ k \in sub[t[Opp(e)][p]]
    BY <1>9, <2>1, <2>2 DEF Of
  <2>4. Before(Opp(e), k, p)
    BY <1>8, <2>1, <2>3, KidFacts
  <2> QED
    BY <1>0, <1>8, <2>1, <2>4, Orders
<1> QED
  BY <1>7, <1>8, <1>9

\* breakpoint_rb_find_internal finds exactly the entries of the tree.
LEMMA FindIs ==
  ASSUME NEW t, NEW S, NEW sub, Shape(t, S, sub), NEW k \in Key
  PROVE  breakpoint_rb_find_internal(t, k) = IF k \in S THEN k ELSE NULL
<1>1. CASE S = {}
  <2>1. Descend(t, k) = NULL /\ k # NULL
    BY <1>1, Basics DEF Descend
  <2> QED
    BY <1>1, <2>1 DEF breakpoint_rb_find_internal
<1>2. CASE S # {}
  <2>1. k \in S <=> Descend(t, k) = k
    BY <1>2, DescendIs
  <2> QED
    BY <2>1 DEF breakpoint_rb_find_internal
<1> QED
  BY <1>1, <1>2

-----------------------------------------------------------------------------
(* Linking a new entry keeps the search tree. *)

\* rb_link_node of k below p.
Linked(t, k, p, u) ==
  /\ u \in Tree /\ u.root = (IF p = NULL THEN k ELSE t.root)
  /\ \A m \in Key : u.parent[m] = IF m = k THEN p ELSE t.parent[m]
  /\ \A m \in Key : u.color[m] = IF m = k THEN RED ELSE t.color[m]
  /\ \A f \in Side, m \in Key : u[f][m] =
       IF m = k THEN NULL ELSE IF m = p /\ f = Toward(k, p) THEN k ELSE t[f][m]

\* rb_link_node (rbtree.h:115-121) with the place that the search ended at.
LEMMA LinkedIs ==
  ASSUME NEW t \in Tree, NEW k \in Key, NEW p \in Ptr, p # k
  PROVE  Linked(t, k, p, rb_link_node(t, k, p))
<1> DEFINE t1 == [t EXCEPT !.parent[k] = p, !.color[k] = RED,
                           !.left[k] = NULL, !.right[k] = NULL]
<1>1. /\ t1 \in Tree /\ t1.root = t.root
      /\ \A m \in Key : t1.parent[m] = IF m = k THEN p ELSE t.parent[m]
      /\ \A m \in Key : t1.color[m] = IF m = k THEN RED ELSE t.color[m]
      /\ \A f \in Side, m \in Key : t1[f][m] = IF m = k THEN NULL ELSE t[f][m]
  BY DEF Tree, Ptr, Side
<1>2. rb_link_node(t, k, p) = IF p = NULL THEN [t1 EXCEPT !.root = k]
                              ELSE [t1 EXCEPT ![Toward(k, p)][p] = k]
  BY DEF rb_link_node, Toward
<1> HIDE DEF t1
<1>3. CASE p = NULL
  <2> DEFINE u == [t1 EXCEPT !.root = k]
  <2>1. u \in Tree /\ u.root = k /\ u.parent = t1.parent /\ u.color = t1.color
        /\ \A f \in Side : u[f] = t1[f]
    BY <1>1 DEF Tree, Ptr, Side
  <2> HIDE DEF u
  <2>2. Linked(t, k, p, u)
    BY <1>1, <1>3, <2>1, KeyAssumption DEF Linked
  <2> QED
    BY <1>2, <1>3, <2>2 DEF u
<1>4. CASE p # NULL
  <2> DEFINE u == [t1 EXCEPT ![Toward(k, p)][p] = k]
  <2>1. p \in Key /\ k \in Ptr /\ Toward(k, p) \in Side
    BY <1>4 DEF Ptr, Toward, Side
  <2>2. KidSet(t1, Toward(k, p), p, k, u)
    BY <1>1, <2>1, KidSetIs
  <2> HIDE DEF u
  <2>3. Linked(t, k, p, u)
    BY <1>1, <1>4, <2>1, <2>2 DEF Linked, KidSet
  <2> QED
    BY <1>2, <1>4, <2>3 DEF u
<1> QED
  BY <1>3, <1>4

\* The subtrees after k was linked below p.
InsSub(S, sub, k, p) ==
  [n \in Key |-> IF n = k THEN {k}
                 ELSE IF n \in S /\ p \in sub[n] THEN sub[n] \cup {k} ELSE sub[n]]

\* A new entry linked where the search for it ended keeps the search tree.
LEMMA ShapeLinked ==
  ASSUME NEW t, NEW S, NEW sub, Shape(t, S, sub), NEW k \in Key, k \notin S, S # {},
         NEW p, p = Descend(t, k), NEW u, Linked(t, k, p, u)
  PROVE  Shape(u, S \cup {k}, InsSub(S, sub, k, p))
<1> DEFINE w == InsSub(S, sub, k, p)
           e == Toward(k, p)
<1>0. /\ S \subseteq Key /\ Key \subseteq Nat /\ NULL \notin Key /\ t \in Tree /\ k \in Nat
      /\ t.root \in S /\ t.root # NULL /\ Of(sub, t.root) = S
      /\ \A d \in Side, m \in Key : t[d][m] \in S \cup {NULL}
      /\ t.parent[t.root] = NULL /\ sub \in [Key -> SUBSET Key]
  BY Basics DEF Shape
<1>1. /\ p \in S /\ p \in Key /\ p # k /\ p # NULL /\ t[e][p] = NULL
      /\ \A n \in S, d \in Side : t[d][n] # NULL /\ p \in sub[t[d][n]] => Before(d, k, n)
  <2>1. /\ p \in S /\ (k \in S <=> p = k)
        /\ p # k => t[Toward(k, p)][p] = NULL
        /\ \A n \in S, d \in Side : t[d][n] # NULL /\ p \in sub[t[d][n]] => Before(d, k, n)
    BY DescendIs
  <2> QED
    BY <1>0, <2>1
<1>2. e \in Side /\ Before(e, k, p) /\ Opp(e) \in Side /\ Opp(e) # e /\ Opp(Opp(e)) = e
      /\ \A d \in Side : d = e \/ d = Opp(e)
  <2>1. e \in Side /\ Before(e, k, p)
    BY <1>0, <1>1 DEF Toward, Side, Before
  <2> HIDE DEF e
  <2> QED
    BY <2>1, Sides
<1>3. /\ w \in [Key -> SUBSET Key] /\ w[k] = {k}
      /\ \A n \in S : w[n] = IF p \in sub[n] THEN sub[n] \cup {k} ELSE sub[n]
  BY <1>0 DEF InsSub
<1>4. /\ u \in Tree /\ u.root = t.root /\ u.parent[k] = p
      /\ \A m \in S : u.parent[m] = t.parent[m]
      /\ \A f \in Side : u[f][k] = NULL
      /\ \A f \in Side, m \in S : u[f][m] = IF m = p /\ f = e THEN k ELSE t[f][m]
  BY <1>0, <1>1 DEF Linked
<1>k. \A n \in S : k \notin sub[n]
  BY NodeFacts
<1> HIDE DEF w, e
<1>5. IsNode(u, S \cup {k}, w, k)
  <2>1. \A d \in Side : Of(w, u[d][k]) = {} /\ Opp(d) \in Side
    BY <1>4, Sides DEF Of
  <2>2. k # u.root
    BY <1>0, <1>4
  <2>3. u.parent[k] \in S \cup {k} /\ u[e][u.parent[k]] = k
    BY <1>1, <1>2, <1>4
  <2> QED
    BY <1>0, <1>2, <1>3, <1>4, <2>1, <2>2, <2>3 DEF IsNode
<1>6. \A n \in S : IsNode(u, S \cup {k}, w, n)
  <2> TAKE n \in S
  <2>0. n \in Key /\ n # NULL /\ n # k /\ n \in sub[n] /\ sub[n] \subseteq S
    BY <1>0, NodeFacts
  <2>1. w[n] \subseteq S \cup {k}
    BY <1>3, <2>0
  <2>2. n # u.root => u.parent[n] \in S \cup {k} /\ \E d \in Side : u[d][u.parent[n]] = n
    <3> SUFFICES ASSUME n # t.root
                 PROVE  t.parent[n] \in S /\ \E d \in Side : u[d][t.parent[n]] = n
      BY <1>4
    <3>1. PICK d \in Side : t[d][t.parent[n]] = n
      BY ParentFacts
    <3>2. t.parent[n] \in S
      BY ParentFacts
    <3>3. u[d][t.parent[n]] = n
      BY <1>1, <1>4, <2>0, <3>1, <3>2
    <3> QED
      BY <3>2, <3>3
  <2>3. \A d \in Side : t[d][n] # NULL =>
          t[d][n] \in S /\ t.parent[t[d][n]] = n /\ \A x \in sub[t[d][n]] : Before(d, x, n)
    BY KidFacts
  <2>4. \A d \in Side : u[d][n] # NULL =>
          u.parent[u[d][n]] = n /\ \A x \in w[u[d][n]] : Before(d, x, n)
    <3> SUFFICES ASSUME NEW d \in Side, u[d][n] # NULL
                 PROVE  u.parent[u[d][n]] = n /\ \A x \in w[u[d][n]] : Before(d, x, n)
      OBVIOUS
    <3>1. CASE n = p /\ d = e
      BY <1>2, <1>3, <1>4, <3>1
    <3>2. CASE ~(n = p /\ d = e)
      <4>1. u[d][n] = t[d][n] /\ t[d][n] \in S
        BY <1>4, <2>3, <3>2
      <4>2. u.parent[t[d][n]] = n
        BY <1>4, <2>3, <4>1
      <4>3. \A x \in w[t[d][n]] : Before(d, x, n)
        <5> DEFINE c == t[d][n]
        <5>1. c \in S /\ c # NULL /\ \A x \in sub[c] : Before(d, x, n)
          BY <2>3, <4>1
        <5>2. p \in sub[c] => Before(d, k, n)
          BY <1>1, <5>1
        <5> HIDE DEF c
        <5>3. w[c] = IF p \in sub[c] THEN sub[c] \cup {k} ELSE sub[c]
          BY <1>3, <5>1
        <5>4. \A x \in w[c] : Before(d, x, n)
          BY <5>1, <5>2, <5>3
        <5> QED
          BY <5>4 DEF c
      <4> QED
        BY <4>1, <4>2, <4>3
    <3> QED
      BY <3>1, <3>2
  <2>5. \A d \in Side : w[n] = {n} \cup Of(w, u[d][n]) \cup Of(w, u[Opp(d)][n])
    <3>1. \A d \in Side : Of(w, t[d][n]) = IF p \in Of(sub, t[d][n]) THEN Of(sub, t[d][n]) \cup {k}
                                            ELSE Of(sub, t[d][n])
      BY <1>3, <2>3 DEF Of
    <3>2. \A d \in Side : ~(p \in Of(sub, t[d][n]) /\ p \in Of(sub, t[Opp(d)][n]))
      <4> TAKE d \in Side
      <4>1. CASE t[d][n] = NULL
        BY <4>1 DEF Of
      <4>2. CASE t[d][n] # NULL
        <5>1. sub[t[d][n]] \cap Of(sub, t[Opp(d)][n]) = {}
          BY <4>2, KidFacts
        <5> QED
          BY <4>2, <5>1 DEF Of
      <4> QED
        BY <4>1, <4>2
    <3>3. \A d \in Side : sub[n] = {n} \cup Of(sub, t[d][n]) \cup Of(sub, t[Opp(d)][n])
      BY NodeFacts
    <3>4. CASE n # p
      <4>1. \A d \in Side : u[d][n] = t[d][n] /\ Opp(d) \in Side
        BY <1>4, <3>4, Sides
      <4> TAKE d \in Side
      <4>2. p \in sub[n] <=> p \in Of(sub, t[d][n]) \/ p \in Of(sub, t[Opp(d)][n])
        BY <3>3, <3>4
      <4>3. sub[n] = {n} \cup Of(sub, t[d][n]) \cup Of(sub, t[Opp(d)][n])
        BY <3>3
      <4>4. CASE p \in sub[n]
        <5>1. w[n] = sub[n] \cup {k}
          BY <1>3, <4>4
        <5> QED
          BY <3>1, <4>1, <4>2, <4>3, <4>4, <5>1
      <4>5. CASE p \notin sub[n]
        <5>1. w[n] = sub[n]
          BY <1>3, <4>5
        <5> QED
          BY <3>1, <4>1, <4>2, <4>3, <4>5, <5>1
      <4> QED
        BY <4>4, <4>5
    <3>5. CASE n = p
      <4>1. u[e][n] = k /\ u[Opp(e)][n] = t[Opp(e)][n]
        BY <1>2, <1>4, <3>5
      <4>2. Of(w, k) = {k} /\ Of(sub, t[e][n]) = {}
        BY <1>0, <1>1, <1>3, <3>5 DEF Of
      <4>3. p \notin Of(sub, t[Opp(e)][n])
        <5>1. CASE t[Opp(e)][n] = NULL
          BY <5>1 DEF Of
        <5>2. CASE t[Opp(e)][n] # NULL
          <6>1. n \notin sub[t[Opp(e)][n]]
            BY <1>2, <5>2, KidFacts
          <6> QED
            BY <3>5, <5>2, <6>1 DEF Of
        <5> QED
          BY <5>1, <5>2
      <4>4. Of(w, t[Opp(e)][n]) = Of(sub, t[Opp(e)][n])
        BY <1>2, <3>1, <4>3
      <4>5. w[n] = sub[n] \cup {k}
        BY <1>3, <2>0, <3>5
      <4>6. sub[n] = {n} \cup Of(sub, t[Opp(e)][n])
        BY <1>2, <3>3, <4>2
      <4>7. w[n] = {n} \cup Of(w, u[e][n]) \cup Of(w, u[Opp(e)][n])
        BY <4>1, <4>2, <4>4, <4>5, <4>6
      <4> TAKE d \in Side
      <4> QED
        BY <1>2, <4>7
    <3> QED
      BY <3>4, <3>5
  <2> QED
    BY <2>1, <2>2, <2>4, <2>5 DEF IsNode
<1>7. Of(w, u.root) = S \cup {k}
  BY <1>0, <1>1, <1>3, <1>4 DEF Of
<1>8. \A d \in Side, m \in Key : u[d][m] \in (S \cup {k}) \cup {NULL}
  <2> TAKE d \in Side, m \in Key
  <2>1. u[d][m] = NULL \/ u[d][m] = k \/ u[d][m] = t[d][m]
    BY DEF Linked
  <2> QED
    BY <1>0, <2>1
<1>9. \A n \in S \cup {k} : IsNode(u, S \cup {k}, w, n)
  BY <1>5, <1>6
<1>10. u.root # NULL => u.root \in S \cup {k} /\ u.parent[u.root] = NULL
  BY <1>0, <1>4
<1>11. u \in Tree /\ S \cup {k} \in SUBSET Key /\ w \in [Key -> SUBSET Key]
  BY <1>0, <1>3, <1>4
<1>12. Shape(u, S \cup {k}, w)
  BY <1>7, <1>8, <1>9, <1>10, <1>11 DEF Shape
<1> QED
  BY <1>12 DEF w

\* The first entry is the root.
LEMMA ShapeFirst ==
  ASSUME NEW t, NEW sub, Shape(t, {}, sub), NEW k \in Key, NEW u, Linked(t, k, NULL, u)
  PROVE  Shape(u, {k}, InsSub({}, sub, k, NULL))
<1> DEFINE w == InsSub({}, sub, k, NULL)
<1>0. /\ NULL \notin Key /\ k # NULL /\ sub \in [Key -> SUBSET Key]
      /\ \A d \in Side, m \in Key : t[d][m] = NULL
  BY Basics
<1>1. w \in [Key -> SUBSET Key] /\ w[k] = {k}
  BY <1>0 DEF InsSub
<1>2. u \in Tree /\ u.root = k /\ u.parent[k] = NULL /\ \A d \in Side : u[d][k] = NULL
  BY <1>0 DEF Linked
<1> HIDE DEF w
<1>3. IsNode(u, {k}, w, k)
  <2>1. \A d \in Side : Of(w, u[d][k]) = {} /\ Opp(d) \in Side
    BY <1>2, Sides DEF Of
  <2> QED
    BY <1>1, <1>2, <2>1 DEF IsNode
<1>4. \A d \in Side, m \in Key : u[d][m] \in {k} \cup {NULL}
  BY <1>0 DEF Linked
<1>5. Of(w, u.root) = {k}
  BY <1>0, <1>1, <1>2 DEF Of
<1> QED
  BY <1>1, <1>2, <1>3, <1>4, <1>5 DEF Shape, w

-----------------------------------------------------------------------------
(* Taking an entry out keeps the search tree. *)

\* The child that takes the place of an entry with at most one.
OnlyKid(t, k) == IF t.left[k] = NULL THEN t.right[k] ELSE t.left[k]

Unlinked(t, k, c, u) ==
  LET p == t.parent[k] IN
  /\ u \in Tree /\ u.root = (IF p = NULL THEN c ELSE t.root) /\ u.color = t.color
  /\ \A m \in Key : u.parent[m] = IF m = c THEN p ELSE t.parent[m]
  /\ \A f \in Side, m \in Key : u[f][m] = IF m = p /\ t[f][m] = k THEN c ELSE t[f][m]

\* rb_erase of an entry with at most one child (rbtree.c:233-244).
LEMMA UnlinkedIs ==
  ASSUME NEW t, NEW S, NEW sub, Shape(t, S, sub), NEW k \in S,
         t.left[k] = NULL \/ t.right[k] = NULL
  PROVE  /\ Unlinked(t, k, OnlyKid(t, k), Unlink(t, k).tree)
         /\ Unlink(t, k).child = OnlyKid(t, k) /\ Unlink(t, k).parent = t.parent[k]
         /\ Unlink(t, k).color = t.color[k]
         /\ \E e \in Side : OnlyKid(t, k) = t[e][k] /\ t[Opp(e)][k] = NULL
<1> DEFINE c == OnlyKid(t, k)
           p == t.parent[k]
           t1 == SetParent(t, c, p)
           u == Hang(t1, p, k, c)
<1>0. t \in Tree /\ k \in Key /\ p \in Ptr /\ NULL \notin Key
  BY Basics, NodeFacts
<1>1. \E e \in Side : c = t[e][k] /\ t[Opp(e)][k] = NULL
  <2>1. t.left[k] = t["left"][k] /\ t.right[k] = t["right"][k]
    OBVIOUS
  <2>2. "left" \in Side /\ "right" \in Side /\ Opp("left") = "right" /\ Opp("right") = "left"
    BY DEF Side, Opp
  <2>3. CASE t.left[k] = NULL
    <3>1. c = t["right"][k] /\ t[Opp("right")][k] = NULL
      BY <2>1, <2>2, <2>3 DEF OnlyKid
    <3> QED
      BY <2>2, <3>1
  <2>4. CASE t.left[k] # NULL
    <3>1. c = t["left"][k] /\ t[Opp("left")][k] = NULL
      BY <2>1, <2>2, <2>4 DEF OnlyKid
    <3> QED
      BY <2>2, <3>1
  <2> QED
    BY <2>3, <2>4
<1>2. c \in Ptr
  BY <1>0, <1>1, TreeTypes
<1>3. Unlink(t, k) = [tree |-> u, child |-> c, parent |-> p, color |-> t.color[k]]
  BY DEF Unlink, OnlyKid
<1>4. p # NULL => \E e \in Side : t[e][p] = k /\ t[Opp(e)][p] # k
  BY NodeFacts, ParentFacts
<1>5. (p = NULL \/ p \in Key)
  BY <1>0 DEF Ptr
<1> HIDE DEF c
<1>6. ParentSet(t, c, p, t1)
  BY <1>0, <1>2, ParentSetIs
<1>o. p = t.parent[k]
  OBVIOUS
<1> HIDE DEF p, t1
<1>7. t1 \in Tree /\ p # NULL => \E e \in Side : t1[e][p] = k /\ t1[Opp(e)][p] # k
  BY <1>4, <1>5, <1>6, Sides DEF ParentSet
<1>8. t1 \in Tree /\ Hung(t1, p, k, c, u)
  <2>1. t1 \in Tree
    BY <1>6 DEF ParentSet
  <2> QED
    BY <1>0, <1>2, <1>7, <2>1, HungIs
<1> HIDE DEF u
<1>9. Unlinked(t, k, c, u)
  BY <1>6, <1>8, <1>o DEF Unlinked, ParentSet, Hung
<1> QED
  BY <1>1, <1>3, <1>9 DEF c, p

\* The subtrees without k.
DelSub(sub, k) == [n \in Key |-> sub[n] \ {k}]

\* Taking out an entry with at most one child keeps the search tree.
LEMMA ShapeUnlinked ==
  ASSUME NEW t, NEW S, NEW sub, Shape(t, S, sub), NEW k \in S,
         \A m \in Key \ S, d \in Side : t[d][m] = NULL,
         NEW e \in Side, NEW c, c = t[e][k], t[Opp(e)][k] = NULL,
         NEW u, Unlinked(t, k, c, u)
  PROVE  Shape(u, S \ {k}, DelSub(sub, k))
<1> DEFINE w == DelSub(sub, k)
           p == t.parent[k]
           R == S \ {k}
<1>0. /\ S \subseteq Key /\ Key \subseteq Nat /\ NULL \notin Key /\ t \in Tree
      /\ \A d \in Side, m \in Key : t[d][m] \in S \cup {NULL}
      /\ sub \in [Key -> SUBSET Key] /\ \A d \in Side : Opp(d) \in Side
  BY Basics, Sides
<1>1. /\ k \in Key /\ k # NULL /\ p \in S \cup {NULL} /\ p # k /\ (p = NULL <=> k = t.root)
      /\ t.root \in S /\ k \in sub[k]
  BY NodeFacts
<1>2. /\ c \in S \cup {NULL} /\ c # k
      /\ c # NULL => c \in R /\ t.parent[c] = k /\ c # t.root /\ p # c /\ k \notin sub[c]
  <2>1. CASE c = NULL
    BY <1>0, <1>1, <2>1
  <2>2. CASE c # NULL
    BY <2>2, KidFacts
  <2> QED
    BY <2>1, <2>2
<1>3. Of(sub, c) = sub[k] \ {k}
  <2>1. sub[k] = {k} \cup Of(sub, c) \cup Of(sub, t[Opp(e)][k])
    BY NodeFacts
  <2>2. k \notin Of(sub, c)
    BY <1>2 DEF Of
  <2> QED
    BY <2>1, <2>2 DEF Of
<1>4. /\ w \in [Key -> SUBSET Key] /\ \A n \in Key : w[n] = sub[n] \ {k}
  BY <1>0 DEF DelSub
<1>5. /\ u \in Tree /\ u.root = (IF p = NULL THEN c ELSE t.root)
      /\ \A m \in Key : u.parent[m] = IF m = c THEN p ELSE t.parent[m]
      /\ \A f \in Side, m \in Key : u[f][m] = IF m = p /\ t[f][m] = k THEN c ELSE t[f][m]
  BY DEF Unlinked
<1>o. p = t.parent[k]
  OBVIOUS
<1>r. \A m : m \in R <=> m \in S /\ m # k
  OBVIOUS
<1> HIDE DEF w, p, R
<1>6. \A f \in Side, m \in Key : m \in S /\ t[f][m] = k => m = p
  BY <1>1, <1>o, KidFacts
<1>7. \A x \in S \cup {NULL} : Of(w, IF x = k THEN c ELSE x) = Of(sub, x) \ {k}
  <2> TAKE x \in S \cup {NULL}
  <2>1. CASE x = k
    <3>1. Of(w, c) = Of(sub, c) \ {k} /\ Of(sub, k) = sub[k]
      BY <1>0, <1>1, <1>2, <1>4 DEF Of
    <3> QED
      BY <1>3, <2>1, <3>1
  <2>2. CASE x # k
    BY <1>0, <1>4, <2>2 DEF Of
  <2> QED
    BY <2>1, <2>2
<1>8. \A m \in R : IsNode(u, R, w, m)
  <2> TAKE m \in R
  <2>0. m \in S /\ m \in Key /\ m # k /\ m # NULL /\ sub[m] \subseteq S
    BY <1>r, NodeFacts
  <2>1. \A d \in Side : u[d][m] = IF t[d][m] = k THEN c ELSE t[d][m]
    BY <1>5, <1>6, <2>0
  <2>2. \A d \in Side : Of(w, u[d][m]) = Of(sub, t[d][m]) \ {k}
    BY <1>0, <1>7, <2>0, <2>1
  <2>3. \A d \in Side : w[m] = {m} \cup Of(w, u[d][m]) \cup Of(w, u[Opp(d)][m])
    <3> TAKE d \in Side
    <3>1. sub[m] = {m} \cup Of(sub, t[d][m]) \cup Of(sub, t[Opp(d)][m])
      BY <2>0, NodeFacts
    <3> QED
      BY <1>0, <1>4, <2>0, <2>2, <3>1
  <2>4. \A d \in Side : t[d][m] # NULL =>
          t[d][m] \in S /\ t.parent[t[d][m]] = m /\ \A x \in sub[t[d][m]] : Before(d, x, m)
    BY <2>0, KidFacts
  <2>5. \A d \in Side : u[d][m] # NULL =>
          u.parent[u[d][m]] = m /\ \A x \in w[u[d][m]] : Before(d, x, m)
    <3> SUFFICES ASSUME NEW d \in Side, u[d][m] # NULL
                 PROVE  u.parent[u[d][m]] = m /\ \A x \in w[u[d][m]] : Before(d, x, m)
      OBVIOUS
    <3>1. CASE t[d][m] = k
      <4>1. u[d][m] = c /\ c # NULL /\ c \in Key /\ m = p
        BY <1>0, <1>2, <1>6, <2>0, <2>1, <3>1
      <4>2. sub[c] \subseteq sub[k] /\ w[c] \subseteq sub[c]
        BY <1>3, <1>4, <4>1 DEF Of
      <4> QED
        BY <1>0, <1>1, <1>5, <2>4, <3>1, <4>1, <4>2
    <3>2. CASE t[d][m] # k
      <4>1. u[d][m] = t[d][m] /\ t[d][m] \in Key /\ t.parent[t[d][m]] = m
        BY <1>0, <2>1, <2>4, <3>2
      <4>2. t[d][m] # c
        BY <1>0, <1>2, <2>0, <4>1
      <4> QED
        BY <1>4, <1>5, <2>4, <4>1, <4>2
    <3> QED
      BY <3>1, <3>2
  <2>6. m # u.root => u.parent[m] \in R /\ \E d \in Side : u[d][u.parent[m]] = m
    <3> SUFFICES ASSUME m # u.root
                 PROVE  u.parent[m] \in R /\ \E d \in Side : u[d][u.parent[m]] = m
      OBVIOUS
    <3>1. CASE m = c
      <4>1. p # NULL /\ p \in R /\ u.parent[m] = p
        BY <1>1, <1>5, <1>r, <2>0, <3>1
      <4>2. PICK d \in Side : t[d][p] = k
        BY <1>1, <1>o, <4>1, ParentFacts
      <4>3. u[d][p] = c
        BY <1>0, <1>5, <1>r, <4>1, <4>2
      <4> QED
        BY <3>1, <4>1, <4>3
    <3>2. CASE m # c
      <4>1. m # t.root
        BY <1>1, <1>5, <2>0, <3>2
      <4>2. t.parent[m] \in S /\ \E d \in Side : t[d][t.parent[m]] = m
        BY <2>0, <4>1, ParentFacts
      <4>3. PICK d \in Side : t[d][t.parent[m]] = m
        BY <4>2
      <4>4. t.parent[m] # k
        <5> SUFFICES ASSUME t.parent[m] = k
                     PROVE  FALSE
          OBVIOUS
        <5>1. d = e \/ d = Opp(e)
          BY Sides
        <5> QED
          BY <2>0, <3>2, <4>3, <5>1
      <4>5. u.parent[m] = t.parent[m] /\ t.parent[m] \in R /\ u[d][t.parent[m]] = m
        <5>1. u.parent[m] = t.parent[m]
          BY <1>5, <2>0, <3>2
        <5>2. t.parent[m] \in R /\ t.parent[m] \in Key
          BY <1>0, <1>r, <4>2, <4>4
        <5>3. u[d][t.parent[m]] = m
          BY <1>5, <2>0, <4>3, <5>2
        <5> QED
          BY <5>1, <5>2, <5>3
      <4> QED
        BY <4>5
    <3> QED
      BY <3>1, <3>2
  <2>7. w[m] \subseteq R
    BY <1>4, <1>r, <2>0
  <2> QED
    BY <2>3, <2>5, <2>6, <2>7 DEF IsNode
<1>9. u.root # NULL => u.root \in R /\ u.parent[u.root] = NULL
  <2>1. t.parent[t.root] = NULL
    BY <1>1, NodeFacts
  <2> QED
    BY <1>0, <1>1, <1>2, <1>5, <1>r, <2>1
<1>10. Of(w, u.root) = R
  <2>1. Of(sub, t.root) = S
    BY DEF Shape
  <2>2. u.root = IF t.root = k THEN c ELSE t.root
    BY <1>1, <1>5
  <2>3. Of(w, u.root) = S \ {k}
    BY <1>1, <1>7, <2>1, <2>2
  <2> QED
    BY <2>3 DEF R
<1>11. \A d \in Side, m \in Key : u[d][m] \in R \cup {NULL}
  <2> TAKE d \in Side, m \in Key
  <2>1. u[d][m] = c \/ (u[d][m] = t[d][m] /\ ~(m = p /\ t[d][m] = k))
    BY <1>5
  <2>2. CASE m \in S
    BY <1>0, <1>2, <1>6, <1>r, <2>1, <2>2
  <2>3. CASE m \notin S
    <3>1. t[d][m] = NULL
      BY <2>3
    <3> QED
      BY <1>2, <2>1, <3>1
  <2> QED
    BY <2>2, <2>3
<1>12. R \in SUBSET Key
  BY <1>0 DEF R
<1>13. Shape(u, R, w)
  BY <1>4, <1>5, <1>8, <1>9, <1>10, <1>11, <1>12 DEF Shape
<1> QED
  BY <1>13 DEF R, w

\* rb_erase of k, which has two children, with s its successor.
Spliced(t, k, s, u) ==
  LET p == t.parent[k]
      q == t.parent[s]
      l == t.left[k]
      r == t.right[k]
      c == t.right[s]
  IN  /\ u \in Tree /\ u.root = (IF p = NULL THEN s ELSE t.root)
      /\ \A m \in Key : u.color[m] = IF m = s THEN t.color[k] ELSE t.color[m]
      /\ \A m \in Key : u.parent[m] =
           IF m = l THEN s ELSE IF m = s THEN p ELSE IF q # k /\ m = r THEN s
           ELSE IF q # k /\ m = c THEN q ELSE t.parent[m]
      /\ \A m \in Key : u.left[m] =
           IF m = s THEN l ELSE IF q # k /\ m = q THEN c
           ELSE IF m = p /\ t.left[m] = k THEN s ELSE t.left[m]
      /\ \A m \in Key : u.right[m] =
           IF q # k /\ m = s THEN r
           ELSE IF m = p /\ t.right[m] = k THEN s ELSE t.right[m]

\* rb_erase of an entry with two children (rbtree.c:196-231).
LEMMA SplicedIs ==
  ASSUME NEW t \in Tree, NEW k \in Key, NEW s \in Key,
         s = Outermost(t, "left", t.right[k]),
         t.parent[k] # NULL =>
           \E e \in Side : t[e][t.parent[k]] = k /\ t[Opp(e)][t.parent[k]] # k,
         t.parent[s] \in Key, t.parent[k] # s, t.parent[k] # t.parent[s],
         s # t.left[k], t.parent[s] # s,
         t.parent[s] # k => s # t.right[k] /\ s # t.right[s]
  PROVE  /\ Spliced(t, k, s, Splice(t, k).tree)
         /\ Splice(t, k).child = t.right[s] /\ Splice(t, k).color = t.color[s]
         /\ Splice(t, k).parent = (IF t.parent[s] = k THEN s ELSE t.parent[s])
<1> DEFINE p == t.parent[k]
           q == t.parent[s]
           l == t.left[k]
           r == t.right[k]
           c == t.right[s]
           t1 == Hang(t, p, k, s)
           x == SetParent(t1, c, q)
           y == [x EXCEPT !.left[q] = c, !.right[s] = r]
           z == SetParent(y, r, s)
           t2 == IF q = k THEN t1 ELSE z
           t3 == [t2 EXCEPT !.parent[s] = p, !.color[s] = t.color[k], !.left[s] = l]
           u == SetParent(t3, l, s)
<1>1. Splice(t, k) = [tree |-> u, child |-> c, parent |-> IF q = k THEN s ELSE q,
                      color |-> t.color[s]]
  BY DEF Splice
<1>2. p \in Ptr /\ q \in Key /\ q \in Ptr /\ l \in Ptr /\ r \in Ptr /\ c \in Ptr
      /\ NULL \notin Key /\ s \in Ptr /\ t.color[k] \in {RED, BLACK}
  BY KeyAssumption DEF Tree, Ptr
<1>3. p # s /\ p # q /\ s # l /\ q # s /\ (q # k => s # r /\ s # c)
      /\ (p # NULL => \E e \in Side : t[e][p] = k /\ t[Opp(e)][p] # k)
  OBVIOUS
<1>o. p = t.parent[k] /\ q = t.parent[s] /\ l = t.left[k] /\ r = t.right[k] /\ c = t.right[s]
  OBVIOUS
<1>s. /\ "left" \in Side /\ "right" \in Side
      /\ \A v : v.left = v["left"] /\ v.right = v["right"]
  BY DEF Side
<1> HIDE DEF p, q, l, r, c
<1>4. Hung(t, p, k, s, t1)
  BY <1>2, <1>3, HungIs
<1> HIDE DEF t1
<1>5. t1 \in Tree /\ ParentSet(t1, c, q, x)
  BY <1>2, <1>4, ParentSetIs DEF Hung
<1> HIDE DEF x
<1>6. x \in Tree
  BY <1>5 DEF ParentSet
<1>7. /\ y \in Tree /\ y.root = x.root /\ y.parent = x.parent /\ y.color = x.color
      /\ \A m \in Key : y.left[m] = IF m = q THEN c ELSE x.left[m]
      /\ \A m \in Key : y.right[m] = IF m = s THEN r ELSE x.right[m]
  BY <1>2, <1>6 DEF Tree
<1> HIDE DEF y
<1>8. ParentSet(y, r, s, z)
  BY <1>2, <1>7, ParentSetIs
<1> HIDE DEF z
<1>9. /\ t2 \in Tree /\ t2.root = (IF p = NULL THEN s ELSE t.root) /\ t2.color = t.color
      /\ \A m \in Key : t2.parent[m] =
           IF q # k /\ m = r THEN s ELSE IF q # k /\ m = c THEN q ELSE t.parent[m]
      /\ \A m \in Key : t2.left[m] =
           IF q # k /\ m = q THEN c
           ELSE IF m = p /\ t.left[m] = k THEN s ELSE t.left[m]
      /\ \A m \in Key : t2.right[m] =
           IF q # k /\ m = s THEN r
           ELSE IF m = p /\ t.right[m] = k THEN s ELSE t.right[m]
  <2>0. /\ \A m \in Key : t1.left[m] = IF m = p /\ t.left[m] = k THEN s ELSE t.left[m]
        /\ \A m \in Key : t1.right[m] = IF m = p /\ t.right[m] = k THEN s ELSE t.right[m]
        /\ t1 \in Tree /\ t1.root = (IF p = NULL THEN s ELSE t.root)
        /\ t1.parent = t.parent /\ t1.color = t.color
    BY <1>4, <1>s DEF Hung
  <2>1. CASE q = k
    <3>1. t2 = t1
      BY <2>1
    <3> HIDE DEF t2
    <3> QED
      BY <2>0, <2>1, <3>1
  <2>2. CASE q # k
    <3>1. t2 = z
      BY <2>2
    <3> HIDE DEF t2
    <3>2. /\ z \in Tree /\ z.root = y.root /\ z.color = y.color
          /\ \A m \in Key : z.left[m] = y.left[m] /\ z.right[m] = y.right[m]
          /\ \A m \in Key : z.parent[m] = IF m = r THEN s ELSE y.parent[m]
      BY <1>8, <1>s DEF ParentSet
    <3>3. /\ x.root = t1.root /\ x.color = t1.color
          /\ \A m \in Key : x.left[m] = t1.left[m] /\ x.right[m] = t1.right[m]
          /\ \A m \in Key : x.parent[m] = IF m = c THEN q ELSE t1.parent[m]
      BY <1>5, <1>s DEF ParentSet
    <3>4. t2 \in Tree /\ t2.root = (IF p = NULL THEN s ELSE t.root) /\ t2.color = t.color
      BY <1>7, <2>0, <3>1, <3>2, <3>3
    <3>5. \A m \in Key : t2.parent[m] =
            IF q # k /\ m = r THEN s ELSE IF q # k /\ m = c THEN q ELSE t.parent[m]
      BY <1>7, <2>0, <2>2, <3>1, <3>2, <3>3
    <3>6. \A m \in Key : /\ t2.left[m] = IF m = q THEN c ELSE t1.left[m]
                         /\ t2.right[m] = IF m = s THEN r ELSE t1.right[m]
      BY <1>7, <3>1, <3>2, <3>3
    <3> QED
      BY <2>0, <2>2, <3>4, <3>5, <3>6
  <2> QED
    BY <2>1, <2>2
<1> HIDE DEF t2
<1>10. /\ t3 \in Tree /\ t3.root = t2.root /\ t3.right = t2.right
       /\ \A m \in Key : t3.parent[m] = IF m = s THEN p ELSE t2.parent[m]
       /\ \A m \in Key : t3.color[m] = IF m = s THEN t.color[k] ELSE t2.color[m]
       /\ \A m \in Key : t3.left[m] = IF m = s THEN l ELSE t2.left[m]
  BY <1>2, <1>9 DEF Tree
<1> HIDE DEF t3
<1>11. ParentSet(t3, l, s, u)
  BY <1>2, <1>10, ParentSetIs
<1> HIDE DEF u
<1>12. /\ u \in Tree /\ u.root = t3.root /\ u.color = t3.color
       /\ \A m \in Key : u.left[m] = t3.left[m] /\ u.right[m] = t3.right[m]
       /\ \A m \in Key : u.parent[m] = IF m = l THEN s ELSE t3.parent[m]
  BY <1>11, <1>s DEF ParentSet
<1>13. Spliced(t, k, s, u)
  <2>1. u.root = (IF p = NULL THEN s ELSE t.root)
    BY <1>9, <1>10, <1>12
  <2>2. \A m \in Key : u.color[m] = IF m = s THEN t.color[k] ELSE t.color[m]
    BY <1>9, <1>10, <1>12
  <2>3. \A m \in Key : u.parent[m] =
           IF m = l THEN s ELSE IF m = s THEN p ELSE IF q # k /\ m = r THEN s
           ELSE IF q # k /\ m = c THEN q ELSE t.parent[m]
    BY <1>9, <1>10, <1>12
  <2>4. \A m \in Key : u.left[m] =
           IF m = s THEN l ELSE IF q # k /\ m = q THEN c
           ELSE IF m = p /\ t.left[m] = k THEN s ELSE t.left[m]
    BY <1>9, <1>10, <1>12
  <2>5. \A m \in Key : u.right[m] =
           IF q # k /\ m = s THEN r
           ELSE IF m = p /\ t.right[m] = k THEN s ELSE t.right[m]
    BY <1>9, <1>10, <1>12
  <2> QED
    BY <1>12, <2>1, <2>2, <2>3, <2>4, <2>5, <1>o DEF Spliced
<1> QED
  BY <1>1, <1>13 DEF p, q, c

\* Where the successor s of an entry k with two children is: it has no left
\* child and is either k's right child or a left child further down there.
Succ(t, S, sub, k, s) ==
  LET p == t.parent[k]
      q == t.parent[s]
      l == t["left"][k]
      r == t["right"][k]
      c == t["right"][s]
  IN  /\ l \in S /\ r \in S /\ s \in S /\ q \in S /\ s # k
      /\ s \in sub[r] /\ t["left"][s] = NULL
      /\ t.parent[l] = k /\ t.parent[r] = k /\ l # r /\ l # s /\ l # k /\ r # k
      /\ p # s /\ p # q /\ p # k /\ q # s
      /\ k \notin sub[l] /\ k \notin sub[r] /\ k \notin sub[s] /\ s \notin sub[l]
      /\ q = k <=> s = r
      /\ q # k => t["left"][q] = s /\ t["right"][q] # s /\ q \in sub[r]
      /\ c \in S \cup {NULL}
      /\ c # NULL => t.parent[c] = s /\ c # s /\ c # l /\ c # r /\ c # k /\ s \notin sub[c] /\ k \notin sub[c]
      /\ sub[k] = {k} \cup sub[l] \cup sub[r]
      /\ sub[s] = {s} \cup Of(sub, c)
      /\ \A x \in sub[l] : Before("left", x, s)
      /\ \A x \in sub[r] : x # s => Before("right", x, s)

\* The loop of rb_erase that looks for the successor finds it.
LEMMA SuccIs ==
  ASSUME NEW t, NEW S, NEW sub, Shape(t, S, sub), NEW k \in S,
         t.left[k] # NULL, t.right[k] # NULL, NEW s, s = Outermost(t, "left", t.right[k])
  PROVE  Succ(t, S, sub, k, s)
<1> DEFINE p == t.parent[k]
           q == t.parent[s]
           l == t["left"][k]
           r == t["right"][k]
           c == t["right"][s]
<1>0. /\ S \subseteq Key /\ Key \subseteq Nat /\ NULL \notin Key
      /\ "left" \in Side /\ "right" \in Side /\ Opp("left") = "right" /\ Opp("right") = "left"
      /\ l # NULL /\ r # NULL /\ t.right[k] = r
  BY Basics DEF Side, Opp
<1>1. /\ l \in S /\ t.parent[l] = k /\ l # k /\ k \notin sub[l] /\ t.parent[k] # l
      /\ \A x \in sub[l] : Before("left", x, k)
  BY <1>0, KidFacts
<1>2. /\ r \in S /\ t.parent[r] = k /\ r # k /\ k \notin sub[r] /\ t.parent[k] # r
      /\ \A x \in sub[r] : Before("right", x, k)
      /\ r # l /\ sub[r] \cap sub[l] = {}
  <2>1. /\ r \in S /\ t.parent[r] = k /\ r # k /\ k \notin sub[r] /\ t.parent[k] # r
        /\ \A x \in sub[r] : Before("right", x, k)
        /\ t[Opp("right")][k] # r
        /\ sub[r] \cap Of(sub, t[Opp("right")][k]) = {}
    BY <1>0, KidFacts
  <2> QED
    BY <1>0, <2>1 DEF Of
<1>3. /\ s \in sub[r] /\ t["left"][s] = NULL
      /\ \A x \in sub[r] : x # s => Before("left", s, x)
      /\ s # r => t["left"][t.parent[s]] = s
  BY <1>0, <1>2, OutermostIs
<1>4. s \in S /\ sub[s] \subseteq sub[r] /\ s \in sub[s] /\ s # NULL /\ sub[s] \subseteq S
      /\ l \in sub[l] /\ sub[r] \subseteq S /\ sub[l] \subseteq S /\ q # s
  <2>1. s \in S /\ sub[s] \subseteq sub[r]
    BY <1>2, <1>3, Nested
  <2> QED
    BY <1>1, <1>2, <2>1, NodeFacts
<1>5. s # k /\ l # s /\ k \notin sub[s] /\ s \notin sub[l]
  BY <1>2, <1>3, <1>4
<1>6. s = r => q = k
  BY <1>2
<1>7. ASSUME s # r
      PROVE  q # k /\ q \in sub[r] /\ q \in S /\ t["left"][q] = s /\ t["right"][q] # s
  <2>1. q \in sub[r]
    BY <1>2, <1>3, <1>7, ParentInside
  <2>2. q \in S /\ q # k /\ t["left"][q] = s
    BY <1>2, <1>3, <1>4, <1>7, <2>1
  <2>3. t["right"][q] # s
    BY <1>0, <1>4, <2>2, KidFacts
  <2> QED
    BY <2>1, <2>2, <2>3
<1>8. p \notin sub[r] /\ p # k
  <2>1. p # k /\ (p = NULL \/ p \in S)
    BY NodeFacts
  <2> SUFFICES ASSUME p \in sub[r]
               PROVE  FALSE
    BY <2>1
  <2>2. p \in S /\ p # NULL /\ k # t.root /\ k # NULL /\ k \in sub[k]
    BY <1>0, <1>4, NodeFacts
  <2>3. PICK e \in Side : t[e][p] = k
    BY <2>2, ParentFacts
  <2>4. k \in sub[p]
    <3>1. sub[p] = {p} \cup Of(sub, t[e][p]) \cup Of(sub, t[Opp(e)][p])
      BY <2>2, NodeFacts
    <3> QED
      BY <2>2, <2>3, <3>1 DEF Of
  <2>5. sub[p] \subseteq sub[r]
    BY <1>2, Nested
  <2> QED
    BY <1>2, <2>4, <2>5
<1>9. p # s /\ p # q
  BY <1>2, <1>3, <1>6, <1>7, <1>8
<1>10. /\ c \in S \cup {NULL}
       /\ c # NULL => t.parent[c] = s /\ c # s /\ s \notin sub[c] /\ sub[c] \subseteq sub[s]
  <2>1. c # NULL => /\ c \in S /\ t.parent[c] = s /\ c # s /\ s \notin sub[c]
                    /\ sub[c] \subseteq sub[s]
    BY <1>0, <1>4, KidFacts
  <2> QED
    BY <2>1
<1>11. sub[k] = {k} \cup sub[l] \cup sub[r]
  <2>1. sub[k] = {k} \cup Of(sub, t["left"][k]) \cup Of(sub, t[Opp("left")][k])
    BY <1>0, NodeFacts
  <2> QED
    BY <1>0, <2>1 DEF Of
<1>12. sub[s] = {s} \cup Of(sub, c)
  <2>1. sub[s] = {s} \cup Of(sub, t["left"][s]) \cup Of(sub, t[Opp("left")][s])
    BY <1>0, <1>4, NodeFacts
  <2> QED
    BY <1>0, <1>3, <2>1 DEF Of
<1>13. \A x \in sub[l] : Before("left", x, s)
  <2> TAKE x \in sub[l]
  <2>1. x \in Nat /\ k \in Nat /\ s \in Nat
    BY <1>0, <1>4
  <2>2. Before("left", x, k) /\ Before("left", k, s)
    BY <1>0, <1>1, <1>2, <1>3, <2>1, Orders
  <2> QED
    BY <1>0, <2>1, <2>2, Orders
<1>14. \A x \in sub[r] : x # s => Before("right", x, s)
  <2> SUFFICES ASSUME NEW x \in sub[r], x # s
               PROVE  Before("right", x, s)
    OBVIOUS
  <2>1. x \in Nat /\ s \in Nat /\ Before("left", s, x)
    BY <1>0, <1>3, <1>4
  <2> QED
    BY <1>0, <2>1, Orders
<1>15. c # NULL => c # l /\ c # r /\ c # k /\ k \notin sub[c]
  <2> SUFFICES ASSUME c # NULL
               PROVE  c # l /\ c # r /\ c # k /\ k \notin sub[c]
    OBVIOUS
  <2>1. c \in S /\ t.parent[c] = s /\ sub[c] \subseteq sub[s]
    BY <1>10
  <2>2. c \in sub[c]
    BY <2>1, NodeFacts
  <2> QED
    BY <1>1, <1>2, <1>5, <2>1, <2>2
<1> HIDE DEF p, q, l, r, c
<1>16. q = k <=> s = r
  BY <1>2, <1>7 DEF q
<1>17. q \in S
  BY <1>2, <1>7, <1>16
<1> QED
  BY <1>1, <1>2, <1>3, <1>4, <1>5, <1>7, <1>8, <1>9, <1>10, <1>11, <1>12, <1>13, <1>14, <1>15, <1>16, <1>17
     DEF Succ, p, q, l, r, c

\* The subtrees after the successor s took the place of k.
SplSub(sub, k, s) ==
  [n \in Key |-> IF n = s THEN sub[k] \ {k}
                 ELSE IF k \in sub[n] THEN sub[n] \ {k} ELSE sub[n] \ {s}]

\* Replacing an entry that has two children by its successor keeps the search
\* tree.
LEMMA ShapeSpliced ==
  ASSUME NEW t, NEW S, NEW sub, Shape(t, S, sub), NEW k \in S, NEW s, Succ(t, S, sub, k, s),
         \A m \in Key \ S, d \in Side : t[d][m] = NULL,
         NEW u, Spliced(t, k, s, u)
  PROVE  Shape(u, S \ {k}, SplSub(sub, k, s))
<1> DEFINE p == t.parent[k]
           q == t.parent[s]
           l == t["left"][k]
           r == t["right"][k]
           c == t["right"][s]
           w == SplSub(sub, k, s)
           R == S \ {k}
<1>0. /\ S \subseteq Key /\ Key \subseteq Nat /\ NULL \notin Key /\ t \in Tree
      /\ \A d \in Side, m \in Key : t[d][m] \in S \cup {NULL}
      /\ sub \in [Key -> SUBSET Key] /\ \A d \in Side : Opp(d) \in Side
      /\ "left" \in Side /\ "right" \in Side /\ "left" # "right"
      /\ Opp("left") = "right" /\ \A d \in Side : d = "left" \/ d = "right"
  <2>1. \A d \in Side : Opp(d) \in Side
    BY Sides
  <2>2. "left" \in Side /\ "right" \in Side /\ "left" # "right"
      /\ Opp("left") = "right" /\ \A d \in Side : d = "left" \/ d = "right"
    BY DEF Side, Opp
  <2> QED
    BY <2>1, <2>2, Basics
<1>1. /\ k \in Key /\ k # NULL /\ p \in S \cup {NULL} /\ p # k /\ (p = NULL <=> k = t.root)
      /\ t.root \in S /\ k \in sub[k] /\ sub[k] \subseteq S
  BY NodeFacts
<1>2. /\ l \in S /\ r \in S /\ s \in S /\ q \in S /\ s # k
      /\ s \in sub[r] /\ t["left"][s] = NULL
      /\ t.parent[l] = k /\ t.parent[r] = k /\ l # r /\ l # s /\ l # k /\ r # k
      /\ p # s /\ p # q /\ p # k /\ q # s
      /\ k \notin sub[l] /\ k \notin sub[r] /\ k \notin sub[s] /\ s \notin sub[l]
      /\ q = k <=> s = r
      /\ q # k => t["left"][q] = s /\ t["right"][q] # s /\ q \in sub[r]
      /\ c \in S \cup {NULL}
      /\ c # NULL => t.parent[c] = s /\ c # s /\ c # l /\ c # r /\ c # k /\ s \notin sub[c] /\ k \notin sub[c]
      /\ sub[k] = {k} \cup sub[l] \cup sub[r]
      /\ sub[s] = {s} \cup Of(sub, c)
      /\ \A x \in sub[l] : Before("left", x, s)
      /\ \A x \in sub[r] : x # s => Before("right", x, s)
  BY DEF Succ
<1>3. /\ w \in [Key -> SUBSET Key] /\ w[s] = sub[k] \ {k}
      /\ \A n \in Key : n # s => w[n] = IF k \in sub[n] THEN sub[n] \ {k} ELSE sub[n] \ {s}
  BY <1>0, <1>1, <1>2 DEF SplSub
<1>4. /\ u \in Tree /\ u.root = (IF p = NULL THEN s ELSE t.root)
      /\ \A m \in Key : u.parent[m] =
           IF m = l THEN s ELSE IF m = s THEN p ELSE IF q # k /\ m = r THEN s
           ELSE IF q # k /\ m = c THEN q ELSE t.parent[m]
      /\ \A m \in Key : u["left"][m] =
           IF m = s THEN l ELSE IF q # k /\ m = q THEN c
           ELSE IF m = p /\ t["left"][m] = k THEN s ELSE t["left"][m]
      /\ \A m \in Key : u["right"][m] =
           IF q # k /\ m = s THEN r
           ELSE IF m = p /\ t["right"][m] = k THEN s ELSE t["right"][m]
  <2>1. \A v : v.left = v["left"] /\ v.right = v["right"]
    OBVIOUS
  <2> QED
    BY <2>1 DEF Spliced
<1>o. p = t.parent[k] /\ q = t.parent[s] /\ l = t["left"][k] /\ r = t["right"][k] /\ c = t["right"][s]
  OBVIOUS
<1>r. \A m : m \in R <=> m \in S /\ m # k
  OBVIOUS
<1> HIDE DEF p, q, l, r, c, w, R
\* The links of the other entries.
<1>5. \A m \in S, d \in Side : m # k /\ m # s =>
        u[d][m] = IF t[d][m] = k THEN s ELSE IF t[d][m] = s THEN c ELSE t[d][m]
  <2> SUFFICES ASSUME NEW m \in S, NEW d \in Side, m # k, m # s
               PROVE  u[d][m] = IF t[d][m] = k THEN s ELSE IF t[d][m] = s THEN c ELSE t[d][m]
    OBVIOUS
  <2>1. t[d][m] = k => m = p
    BY <1>1, <1>o, KidFacts
  <2>2. t[d][m] = s => m = q /\ q # k
    BY <1>0, <1>2, <1>o, KidFacts
  <2>3. t[d][m] = s => d = "left"
    BY <1>0, <1>2, <2>2
  <2>4. CASE d = "left"
    BY <1>0, <1>2, <1>4, <2>1, <2>2, <2>4
  <2>5. CASE d = "right"
    BY <1>0, <1>2, <1>4, <2>1, <2>3, <2>5
  <2> QED
    BY <1>0, <2>4, <2>5
<1>6. \A x \in S \cup {NULL} :
        Of(w, IF x = k THEN s ELSE IF x = s THEN c ELSE x)
          = IF k \in Of(sub, x) THEN Of(sub, x) \ {k} ELSE Of(sub, x) \ {s}
  <2> TAKE x \in S \cup {NULL}
  <2>1. CASE x = k
    BY <1>0, <1>1, <1>2, <1>3, <2>1 DEF Of
  <2>2. CASE x = s
    <3>1. Of(w, c) = Of(sub, c)
      <4>1. CASE c = NULL
        BY <4>1 DEF Of
      <4>2. CASE c # NULL
        <5>1. c \in Key /\ c # s /\ k \notin sub[c] /\ s \notin sub[c]
          BY <1>0, <1>2, <4>2
        <5>2. w[c] = sub[c] \ {s} /\ sub[c] \ {s} = sub[c]
          BY <1>3, <5>1
        <5> QED
          BY <4>2, <5>2 DEF Of
      <4> QED
        BY <4>1, <4>2
    <3>2. s \notin Of(sub, c) /\ Of(sub, s) = sub[s]
      BY <1>0, <1>2 DEF Of
    <3>3. Of(sub, c) = sub[s] \ {s}
      BY <1>2, <3>2
    <3> QED
      BY <1>2, <2>2, <3>1, <3>2, <3>3
  <2>3. CASE x # k /\ x # s
    <3>1. CASE x = NULL
      BY <2>3, <3>1 DEF Of
    <3>2. CASE x # NULL
      <4>1. x \in Key
        BY <1>0, <3>2
      <4> QED
        BY <1>3, <2>3, <3>2, <4>1 DEF Of
    <3> QED
      BY <3>1, <3>2
  <2> QED
    BY <2>1, <2>2, <2>3
<1>7. \A n \in S : k \in sub[n] => s \in sub[n]
  <2> SUFFICES ASSUME NEW n \in S, k \in sub[n]
               PROVE  s \in sub[n]
    OBVIOUS
  <2>1. sub[k] \subseteq sub[n]
    BY Nested
  <2> QED
    BY <1>2, <2>1
<1>8. \A m \in R : m # s => IsNode(u, R, w, m)
  <2> SUFFICES ASSUME NEW m \in R, m # s
               PROVE  IsNode(u, R, w, m)
    OBVIOUS
  <2>0. m \in S /\ m \in Key /\ m # k /\ m # NULL /\ sub[m] \subseteq S
    BY <1>r, NodeFacts
  <2>1. \A d \in Side : u[d][m] = IF t[d][m] = k THEN s ELSE IF t[d][m] = s THEN c ELSE t[d][m]
    BY <1>5, <2>0
  <2>2. \A d \in Side : Of(w, u[d][m]) =
          IF k \in Of(sub, t[d][m]) THEN Of(sub, t[d][m]) \ {k} ELSE Of(sub, t[d][m]) \ {s}
    <3> TAKE d \in Side
    <3>1. t[d][m] \in S \cup {NULL}
      BY <1>0, <2>0
    <3> QED
      BY <1>6, <2>1, <3>1
  <2>3. \A d \in Side : w[m] = {m} \cup Of(w, u[d][m]) \cup Of(w, u[Opp(d)][m])
    <3> TAKE d \in Side
    <3> DEFINE A == Of(sub, t[d][m])
               B == Of(sub, t[Opp(d)][m])
    <3>1. sub[m] = {m} \cup A \cup B
      BY <2>0, NodeFacts
    <3>2. A \cap B = {}
      <4>1. CASE t[d][m] = NULL
        BY <4>1 DEF Of
      <4>2. CASE t[d][m] # NULL
        <5>1. sub[t[d][m]] \cap Of(sub, t[Opp(d)][m]) = {}
          BY <2>0, <4>2, KidFacts
        <5> QED
          BY <4>2, <5>1 DEF Of
      <4> QED
        BY <4>1, <4>2
    <3>3. (k \in A => s \in A) /\ (k \in B => s \in B)
      BY <1>0, <1>7, <2>0 DEF Of
    <3>4. /\ Of(w, u[d][m]) = IF k \in A THEN A \ {k} ELSE A \ {s}
          /\ Of(w, u[Opp(d)][m]) = IF k \in B THEN B \ {k} ELSE B \ {s}
      BY <1>0, <2>2
    <3>5. w[m] = IF k \in sub[m] THEN sub[m] \ {k} ELSE sub[m] \ {s}
      BY <1>3, <2>0
    <3> HIDE DEF A, B
    <3>6. CASE k \in A
      <4>1. s \in A /\ s \notin B /\ k \notin B
        BY <3>2, <3>3, <3>6
      <4> QED
        BY <2>0, <3>1, <3>4, <3>5, <3>6, <4>1
    <3>7. CASE k \in B
      <4>1. s \in B /\ s \notin A /\ k \notin A
        BY <3>2, <3>3, <3>7
      <4> QED
        BY <2>0, <3>1, <3>4, <3>5, <3>7, <4>1
    <3>8. CASE k \notin A /\ k \notin B
      BY <2>0, <3>1, <3>4, <3>5, <3>8
    <3> QED
      BY <3>6, <3>7, <3>8
  <2>4. \A d \in Side : t[d][m] # NULL =>
          t[d][m] \in S /\ t.parent[t[d][m]] = m /\ \A x \in sub[t[d][m]] : Before(d, x, m)
    BY <2>0, KidFacts
  <2>5. \A d \in Side : u[d][m] # NULL =>
          u.parent[u[d][m]] = m /\ \A x \in w[u[d][m]] : Before(d, x, m)
    <3> SUFFICES ASSUME NEW d \in Side, u[d][m] # NULL
                 PROVE  u.parent[u[d][m]] = m /\ \A x \in w[u[d][m]] : Before(d, x, m)
      OBVIOUS
    <3>1. t[d][m] # NULL
      BY <1>0, <1>1, <1>2, <2>1
    <3>2. w[u[d][m]] \subseteq sub[t[d][m]]
      <4>1. Of(w, u[d][m]) = w[u[d][m]] /\ Of(sub, t[d][m]) = sub[t[d][m]]
        BY <3>1 DEF Of
      <4>2. Of(w, u[d][m]) = IF k \in Of(sub, t[d][m]) THEN Of(sub, t[d][m]) \ {k}
                             ELSE Of(sub, t[d][m]) \ {s}
        BY <2>2
      <4> HIDE <2>2
      <4>3. Of(w, u[d][m]) \subseteq Of(sub, t[d][m])
        BY <4>2
      <4> QED
        BY <4>1, <4>3
    <3>3. u.parent[u[d][m]] = m
      <4>1. CASE t[d][m] = k
        BY <1>0, <1>2, <1>4, <1>o, <2>1, <2>4, <3>1, <4>1
      <4>2. CASE t[d][m] = s
        <5>1. u[d][m] = c /\ c # NULL /\ c \in Key /\ m = q /\ q # k
          BY <1>0, <1>2, <1>o, <2>0, <2>1, <2>4, <3>1, <4>2
        <5> QED
          BY <1>0, <1>2, <1>4, <5>1
      <4>3. CASE t[d][m] # k /\ t[d][m] # s
        <5>1. u[d][m] = t[d][m] /\ t[d][m] \in Key /\ t.parent[t[d][m]] = m
          BY <1>0, <2>1, <2>4, <3>1, <4>3
        <5>2. t[d][m] # l /\ t[d][m] # r /\ t[d][m] # c
          BY <1>0, <1>2, <2>0, <3>1, <5>1
        <5> QED
          BY <1>4, <4>3, <5>1, <5>2
      <4> QED
        BY <4>1, <4>2, <4>3
    <3> QED
      BY <2>4, <3>1, <3>2, <3>3
  <2>6. m # u.root => u.parent[m] \in R /\ \E d \in Side : u[d][u.parent[m]] = m
    <3> SUFFICES ASSUME m # u.root
                 PROVE  u.parent[m] \in R /\ \E d \in Side : u[d][u.parent[m]] = m
      OBVIOUS
    <3>s. s \in R /\ s \in Key
      BY <1>0, <1>2, <1>r
    <3>1. CASE m = l
      <4>1. u.parent[m] = s /\ u["left"][s] = l
        BY <1>4, <2>0, <3>1, <3>s
      <4> QED
        BY <1>0, <3>1, <3>s, <4>1
    <3>2. CASE m = r
      <4>1. u.parent[m] = s /\ u["right"][s] = r
        BY <1>2, <1>4, <2>0, <3>2, <3>s
      <4> QED
        BY <1>0, <3>2, <3>s, <4>1
    <3>3. CASE m = c /\ q # k
      <4>1. u.parent[m] = q /\ u["left"][q] = c /\ q \in R
        BY <1>0, <1>2, <1>4, <1>r, <2>0, <3>3
      <4> QED
        BY <1>0, <3>3, <4>1
    <3>4. CASE m = c /\ q = k
      <4>1. u.parent[m] = s /\ u["right"][s] = c
        BY <1>0, <1>2, <1>4, <1>o, <2>0, <3>4, <3>s
      <4> QED
        BY <1>0, <3>4, <3>s, <4>1
    <3>5. CASE m # l /\ m # r /\ m # c
      <4>1. m # t.root
        BY <1>1, <1>4, <2>0
      <4>2. t.parent[m] \in S /\ \E d \in Side : t[d][t.parent[m]] = m
        BY <2>0, <4>1, ParentFacts
      <4>3. PICK d \in Side : t[d][t.parent[m]] = m
        BY <4>2
      <4>4. t.parent[m] # k /\ t.parent[m] # s
        BY <1>0, <1>2, <1>o, <2>0, <3>5, <4>3
      <4>5. u.parent[m] = t.parent[m]
        BY <1>4, <2>0, <3>5
      <4>6. u[d][t.parent[m]] = m
        BY <1>5, <2>0, <4>2, <4>3, <4>4
      <4> QED
        BY <1>r, <4>2, <4>4, <4>5, <4>6
    <3> QED
      BY <3>1, <3>2, <3>3, <3>4, <3>5
  <2>7. w[m] \subseteq R
    BY <1>3, <1>r, <2>0
  <2> QED
    BY <2>3, <2>5, <2>6, <2>7 DEF IsNode
<1>9. IsNode(u, R, w, s)
  <2>0. s \in Key /\ s # NULL /\ l \in Key /\ r \in Key /\ l # NULL /\ r # NULL
    BY <1>0, <1>2
  <2>1. u["left"][s] = l /\ u.parent[l] = s /\ w[l] = sub[l]
    <3>1. w[l] = sub[l] \ {s} /\ sub[l] \ {s} = sub[l]
      BY <1>2, <1>3, <2>0
    <3> QED
      BY <1>4, <2>0, <3>1
  <2>2. w[s] = sub[l] \cup sub[r]
    BY <1>2, <1>3
  <2>3. ASSUME q = k
        PROVE  /\ u["right"][s] = c /\ sub[r] = {s} \cup Of(w, c)
               /\ c # NULL => u.parent[c] = s /\ w[c] \subseteq sub[r]
    <3>1. u["right"][s] = c
      BY <1>2, <1>4, <1>o, <2>0, <2>3
    <3>2. c # NULL => w[c] = sub[c] /\ u.parent[c] = s
      <4> SUFFICES ASSUME c # NULL
                   PROVE  w[c] = sub[c] /\ u.parent[c] = s
        OBVIOUS
      <4>1. c \in Key /\ c # s /\ k \notin sub[c] /\ s \notin sub[c] /\ t.parent[c] = s
            /\ c # l /\ c # r
        BY <1>0, <1>2
      <4>2. w[c] = sub[c] \ {s} /\ sub[c] \ {s} = sub[c]
        BY <1>3, <4>1
      <4> QED
        BY <1>4, <2>3, <4>1, <4>2
    <3>3. Of(w, c) = Of(sub, c)
      BY <3>2 DEF Of
    <3>4. sub[r] = {s} \cup Of(w, c)
      BY <1>2, <2>3, <3>3
    <3> QED
      BY <3>1, <3>2, <3>4 DEF Of
  <2>4. ASSUME q # k
        PROVE  u["right"][s] = r /\ u.parent[r] = s /\ w[r] = sub[r] \ {s}
    BY <1>2, <1>3, <1>4, <2>0, <2>4
  <2>5. w[s] = {s} \cup Of(w, u["left"][s]) \cup Of(w, u["right"][s])
    <3>1. Of(w, l) = sub[l] /\ (q # k => Of(w, r) = sub[r] \ {s})
      BY <2>0, <2>1, <2>4 DEF Of
    <3>2. CASE q = k
      BY <2>1, <2>2, <2>3, <3>1, <3>2
    <3>3. CASE q # k
      BY <1>2, <2>1, <2>2, <2>4, <3>1, <3>3
    <3> QED
      BY <3>2, <3>3
  <2>6. \A d \in Side : w[s] = {s} \cup Of(w, u[d][s]) \cup Of(w, u[Opp(d)][s])
    <3>1. Opp("right") = "left"
      BY DEF Opp
    <3> QED
      BY <1>0, <2>5, <3>1
  <2>7. \A x \in w[l] : Before("left", x, s)
    BY <1>2, <2>1
  <2>8. u["right"][s] # NULL =>
          u.parent[u["right"][s]] = s /\ \A x \in w[u["right"][s]] : Before("right", x, s)
    <3>1. CASE q = k
      <4> SUFFICES ASSUME c # NULL
                   PROVE  u.parent[c] = s /\ \A x \in w[c] : Before("right", x, s)
        BY <2>3, <3>1
      <4>1. s \notin w[c]
        BY <1>0, <1>2, <1>3
      <4> QED
        BY <1>2, <2>3, <3>1, <4>1
    <3>2. CASE q # k
      BY <1>2, <2>4, <3>2
    <3> QED
      BY <3>1, <3>2
  <2>9. \A d \in Side : u[d][s] # NULL =>
          u.parent[u[d][s]] = s /\ \A x \in w[u[d][s]] : Before(d, x, s)
    BY <1>0, <2>1, <2>7, <2>8
  <2>10. s # u.root => u.parent[s] \in R /\ \E d \in Side : u[d][u.parent[s]] = s
    <3> SUFFICES ASSUME s # u.root
                 PROVE  u.parent[s] \in R /\ \E d \in Side : u[d][u.parent[s]] = s
      OBVIOUS
    <3>1. p # NULL /\ p \in S /\ p # k /\ p # s /\ u.parent[s] = p /\ p \in R
      BY <1>1, <1>2, <1>4, <1>r, <2>0
    <3>2. PICK d \in Side : t[d][p] = k
      BY <1>1, <1>o, <3>1, ParentFacts
    <3>3. u[d][p] = s
      BY <1>5, <3>1, <3>2
    <3> QED
      BY <3>1, <3>3
  <2>11. w[s] \subseteq R
    BY <1>1, <1>3, <1>r
  <2> QED
    BY <2>6, <2>9, <2>10, <2>11 DEF IsNode
<1>10. u.root \in R /\ u.parent[u.root] = NULL
  <2>1. t.parent[t.root] = NULL
    BY <1>1, NodeFacts
  <2>2. t.root # l /\ t.root # r /\ t.root # s /\ t.root # c
    BY <1>0, <1>1, <1>2, <1>o, <2>1
  <2>3. CASE p = NULL
    <3>1. u.root = s /\ s \in R /\ u.parent[s] = p
      BY <1>0, <1>2, <1>4, <1>r, <2>3
    <3> QED
      BY <2>3, <3>1
  <2>4. CASE p # NULL
    <3>1. u.root = t.root /\ t.root \in R /\ t.root \in Key
      BY <1>0, <1>1, <1>4, <1>r, <2>4
    <3>2. u.parent[t.root] = t.parent[t.root]
      BY <1>4, <2>2, <3>1
    <3> QED
      BY <2>1, <3>1, <3>2
  <2> QED
    BY <2>3, <2>4
<1>11. Of(w, u.root) = R
  <2>1. Of(sub, t.root) = S
    BY DEF Shape
  <2>2. t.root # s
    BY <1>0, <1>1, <1>2, <1>o, NodeFacts
  <2>3. u.root = IF t.root = k THEN s ELSE IF t.root = s THEN c ELSE t.root
    BY <1>1, <1>4, <2>2
  <2>4. Of(w, u.root) = S \ {k}
    BY <1>1, <1>6, <2>1, <2>3
  <2> QED
    BY <2>4 DEF R
<1>12. \A d \in Side, m \in Key : u[d][m] \in R \cup {NULL}
  <2> TAKE d \in Side, m \in Key
  <2>1. CASE m \in S /\ m # k /\ m # s
    BY <1>0, <1>2, <1>5, <1>r, <2>1
  <2>2. CASE m = s
    <3>1. u[d][m] \in {l, r, c}
      BY <1>0, <1>2, <1>4, <1>o, <2>2
    <3> QED
      BY <1>1, <1>2, <1>r, <3>1
  <2>3. CASE m = k
    <3>1. u[d][m] \in {l, r}
      BY <1>0, <1>2, <1>4, <1>o, <2>3
    <3> QED
      BY <1>2, <1>r, <3>1
  <2>4. CASE m \notin S
    <3>1. t[d][m] = NULL /\ m # p /\ m # q /\ m # s
      BY <1>0, <1>1, <1>2, <2>4
    <3>2. u[d][m] = t[d][m]
      BY <1>0, <1>4, <3>1
    <3> QED
      BY <3>1, <3>2
  <2> QED
    BY <2>1, <2>2, <2>3, <2>4
<1>13. R \in SUBSET Key /\ \A m \in R : IsNode(u, R, w, m)
  BY <1>0, <1>8, <1>9 DEF R
<1>14. Shape(u, R, w)
  BY <1>3, <1>4, <1>10, <1>11, <1>12, <1>13 DEF Shape
<1> QED
  BY <1>14 DEF R, w

-----------------------------------------------------------------------------
(* Colours.  h[n] is the number of black entries on the way from n down.   *)

Ht(h, n) == IF n = NULL THEN 0 ELSE h[n]

\* Every way down passes the same number of black entries, but the ones
\* through side e of x, which pass one too few (x is NULL: there is none).
At(t, h, x, e, n, d) ==
  IF n = x /\ d = e THEN h[n] = Ht(h, t[d][n]) + t.color[n] + 1
  ELSE h[n] = Ht(h, t[d][n]) + t.color[n]

Heights(t, S, h, x, e) ==
  /\ h \in [Key -> Nat]
  /\ \A n \in S, d \in Side : At(t, h, x, e, n, d)

\* A red entry with a red child.
Clash(t, n, d) == Red(t, n) /\ Red(t, t[d][n])

\* v differs from t in colours only.
SameLinks(t, v) ==
  /\ v \in Tree /\ v.root = t.root /\ v.parent = t.parent
  /\ \A f \in Side, m \in Key : v[f][m] = t[f][m]

\* The entries outside the tree are as before.
SameOutside(t, u, S) ==
  \A m \in Key \ S : u.parent[m] = t.parent[m] /\ \A d \in Side : u[d][m] = t[d][m]

\* The tree around a rotation at n to side d.
Turned(t, S, d, n, v, u) ==
  LET up == t[Opp(d)][n]
      i  == t[d][up]
      a  == t[d][n]
      c  == t[Opp(d)][up]
  IN  /\ up \in S /\ up # n /\ n # NULL
      /\ a \in S \cup {NULL} /\ i \in S \cup {NULL} /\ c \in S \cup {NULL}
      /\ a # n /\ a # up /\ i # n /\ i # up /\ c # n /\ c # up
      /\ i # NULL => i # c
      /\ a # NULL => a # i /\ a # c
      /\ u[d][n] = a /\ u[Opp(d)][n] = i /\ u[d][up] = n /\ u[Opp(d)][up] = c
      /\ \A m \in S, f \in Side : m # n /\ m # up =>
           /\ u[f][m] = IF t[f][m] = n THEN up ELSE t[f][m]
           /\ t[f][m] \in S \cup {NULL} /\ t[f][m] # up
           /\ t[f][m] # NULL => t[f][m] # a /\ t[f][m] # i /\ t[f][m] # c
      /\ u \in Tree /\ u.color = v.color
      /\ u.root = (IF n = t.root THEN up ELSE t.root) /\ up # t.root

\* A rotation, after some entries were painted.
LEMMA TurnedIs ==
  ASSUME NEW t, NEW S, NEW sub, Shape(t, S, sub), NEW n \in S, NEW d \in Side,
         t[Opp(d)][n] # NULL, NEW v, SameLinks(t, v)
  PROVE  /\ Turned(t, S, d, n, v, Rotate(v, d, n))
         /\ Shape(Rotate(v, d, n), S, RotSub(v, d, n, sub))
         /\ SameOutside(t, Rotate(v, d, n), S)
<1> DEFINE up == t[Opp(d)][n]
           i  == t[d][up]
           a  == t[d][n]
           c  == t[Opp(d)][up]
           q  == t.parent[n]
           u  == Rotate(v, d, n)
<1>0. /\ Opp(d) \in Side /\ Opp(Opp(d)) = d /\ Opp(d) # d
      /\ S \subseteq Key /\ NULL \notin Key /\ n \in Key /\ n # NULL
      /\ \A e \in Side, m \in Key : t[e][m] \in S \cup {NULL}
  BY Basics, Sides, NodeFacts
<1>1. Shape(v, S, sub)
  BY ShapeOfLinks DEF SameLinks
<1>2. v[Opp(d)][n] = up /\ up # NULL
  BY <1>0 DEF SameLinks
<1>3. Rotated(v, d, n, u)
  BY <1>1, <1>2, RotatedHere
<1> HIDE DEF u
<1>4. Shape(u, S, RotSub(v, d, n, sub))
  BY <1>1, <1>2, <1>3, ShapeRotated
<1>5. /\ up \in S /\ up # n /\ q # up /\ q # n /\ t.parent[up] = n /\ up # t.root
      /\ q \in S \cup {NULL} /\ (q = NULL <=> n = t.root)
  BY <1>0, <1>2, KidFacts, NodeFacts
<1>6. /\ a \in S \cup {NULL} /\ i \in S \cup {NULL} /\ c \in S \cup {NULL}
  BY <1>0, <1>5
<1>7. /\ a # NULL => a # n /\ a # up /\ t.parent[a] = n
      /\ i # NULL => i # n /\ i # up /\ t.parent[i] = up /\ i # c
      /\ c # NULL => c # n /\ c # up /\ t.parent[c] = up
  BY <1>0, <1>2, <1>5, KidFacts
<1>o. up = t[Opp(d)][n] /\ i = t[d][up] /\ a = t[d][n] /\ c = t[Opp(d)][up] /\ q = t.parent[n]
  OBVIOUS
<1> HIDE DEF up, i, a, c, q
<1>8. /\ u \in Tree /\ u.color = v.color /\ u.root = (IF q = NULL THEN up ELSE t.root)
      /\ \A m \in Key : u.parent[m] =
           IF m = n THEN up ELSE IF m = up THEN q ELSE IF m = i THEN n ELSE t.parent[m]
      /\ \A f \in Side, m \in Key : u[f][m] =
           IF m = n /\ f = Opp(d) THEN i
           ELSE IF m = up /\ f = d THEN n
           ELSE IF m = q /\ t[f][m] = n THEN up ELSE t[f][m]
  <2>1. v[Opp(d)][n] = up /\ v[d][up] = i /\ v.parent = t.parent /\ v.root = t.root
    BY <1>0, <1>2, <1>5, <1>o DEF SameLinks
  <2>2. \A f \in Side, m \in Key : v[f][m] = t[f][m]
    BY DEF SameLinks
  <2> QED
    BY <1>3, <1>o, <2>1, <2>2 DEF Rotated
<1>9. u[d][n] = a /\ u[Opp(d)][n] = i /\ u[d][up] = n /\ u[Opp(d)][up] = c
  BY <1>0, <1>5, <1>8, <1>o
<1>10. ASSUME NEW m \in S, NEW f \in Side, m # n, m # up
       PROVE  /\ u[f][m] = IF t[f][m] = n THEN up ELSE t[f][m]
              /\ t[f][m] \in S \cup {NULL} /\ t[f][m] # up
              /\ t[f][m] # NULL => t[f][m] # a /\ t[f][m] # i /\ t[f][m] # c
  <2>1. t[f][m] # NULL => t.parent[t[f][m]] = m
    BY KidFacts
  <2>2. t[f][m] = n => m = q
    BY <1>0, <1>o, <2>1
  <2> QED
    BY <1>0, <1>2, <1>5, <1>7, <1>8, <1>10, <2>1, <2>2
<1>11. SameOutside(t, u, S)
  <2> SUFFICES ASSUME NEW m \in Key, m \notin S
               PROVE  u.parent[m] = t.parent[m] /\ \A f \in Side : u[f][m] = t[f][m]
    BY DEF SameOutside
  <2>1. m # n /\ m # up /\ m # i /\ m # q
    BY <1>0, <1>5, <1>6
  <2> QED
    BY <1>8, <2>1
<1>12. /\ a # n /\ a # up /\ i # n /\ i # up /\ c # n /\ c # up /\ (i # NULL => i # c)
       /\ a # NULL => a # i /\ a # c
  BY <1>0, <1>2, <1>5, <1>7
<1>13. u.root = (IF n = t.root THEN up ELSE t.root)
  BY <1>5, <1>8
<1>14. Turned(t, S, d, n, v, u)
  BY <1>0, <1>5, <1>6, <1>8, <1>9, <1>10, <1>12, <1>13, <1>o DEF Turned
<1> QED
  BY <1>4, <1>11, <1>14 DEF u

\* A rotation after which the two entries have changed places and colours,
\* red above black before, black above red after it, keeps every count.
LEMMA SwapHeights ==
  ASSUME NEW t \in Tree, NEW S \in SUBSET Key, NEW h, NEW x, NEW e, Heights(t, S, h, x, e),
         NEW n \in S, NEW d \in Side, NEW v, NEW u, Turned(t, S, d, n, v, u),
         NEW up, up = t[Opp(d)][n],
         t.color[n] = BLACK, t.color[up] = RED, v.color[n] = RED, v.color[up] = BLACK,
         \A m \in Key \ {n, up} : v.color[m] = t.color[m],
         x # up, x = n => e = d
  PROVE  Heights(u, S, [h EXCEPT ![n] = h[up], ![up] = h[n]], x, e)
<1> DEFINE i  == t[d][up]
           a  == t[d][n]
           c  == t[Opp(d)][up]
           g  == [h EXCEPT ![n] = h[up], ![up] = h[n]]
<1>0. /\ Opp(d) \in Side /\ Opp(d) # d /\ (\A f \in Side : f = d \/ f = Opp(d))
      /\ NULL \notin Key /\ h \in [Key -> Nat]
  BY KeyAssumption, Sides DEF Heights
<1>1. /\ up \in S /\ up # n /\ n # NULL /\ up # NULL
      /\ a \in S \cup {NULL} /\ i \in S \cup {NULL} /\ c \in S \cup {NULL}
      /\ a # n /\ a # up /\ i # n /\ i # up /\ c # n /\ c # up
      /\ u[d][n] = a /\ u[Opp(d)][n] = i /\ u[d][up] = n /\ u[Opp(d)][up] = c
      /\ u.color = v.color
  BY <1>0 DEF Turned
<1>2. \A m \in S, f \in Side : m # n /\ m # up =>
           /\ u[f][m] = IF t[f][m] = n THEN up ELSE t[f][m]
           /\ t[f][m] \in S \cup {NULL} /\ t[f][m] # up
  BY DEF Turned
<1>3. /\ g \in [Key -> Nat] /\ g[n] = h[up] /\ g[up] = h[n]
      /\ \A m \in Key : m # n /\ m # up => g[m] = h[m]
  BY <1>0, <1>1
<1> HIDE DEF g
<1>4. /\ Ht(g, a) = Ht(h, a) /\ Ht(g, i) = Ht(h, i) /\ Ht(g, c) = Ht(h, c)
      /\ Ht(g, n) = h[up] /\ Ht(h, up) = h[up]
      /\ \A y \in S \cup {NULL} : y # up => Ht(g, IF y = n THEN up ELSE y) = Ht(h, y)
  BY <1>0, <1>1, <1>3 DEF Ht
<1>5. /\ h[n] = h[up] + 1 /\ h[up] = Ht(h, i) /\ h[up] = Ht(h, c)
      /\ h[n] \in Nat /\ h[up] \in Nat /\ Ht(h, a) \in Nat
      /\ IF x = n /\ e = d THEN h[n] = Ht(h, a) + 2 ELSE h[n] = Ht(h, a) + 1
  <2>1. /\ At(t, h, x, e, n, Opp(d)) /\ At(t, h, x, e, n, d)
        /\ At(t, h, x, e, up, d) /\ At(t, h, x, e, up, Opp(d))
    BY <1>0, <1>1 DEF Heights
  <2>2. /\ h[n] \in Nat /\ h[up] \in Nat /\ Ht(h, a) \in Nat /\ Ht(h, i) \in Nat
        /\ Ht(h, c) \in Nat
    BY <1>0, <1>1 DEF Ht
  <2>3. h[n] = Ht(h, up) + 1
    BY <1>0, <2>1 DEF At, BLACK
  <2>4. h[up] = Ht(h, i) + 0 /\ h[up] = Ht(h, c) + 0
    BY <2>1 DEF At, RED
  <2>5. IF x = n /\ e = d THEN h[n] = Ht(h, a) + 1 + 1 ELSE h[n] = Ht(h, a) + 1
    BY <2>1 DEF At, BLACK
  <2> QED
    BY <1>4, <2>2, <2>3, <2>4, <2>5
<1>6. ASSUME NEW m \in S, NEW f \in Side
      PROVE  IF m = x /\ f = e THEN g[m] = Ht(g, u[f][m]) + u.color[m] + 1
             ELSE g[m] = Ht(g, u[f][m]) + u.color[m]
  <2>1. CASE m = n /\ f = d
    <3>1. u[f][m] = a /\ u.color[m] = 0 /\ Ht(g, a) = Ht(h, a) /\ g[m] = h[up]
      BY <1>1, <1>3, <1>4, <2>1 DEF RED
    <3> QED
      BY <1>5, <2>1, <3>1
  <2>2. CASE m = n /\ f = Opp(d)
    <3>1. u[f][m] = i /\ u.color[m] = 0 /\ g[m] = h[up] /\ ~(m = x /\ f = e) /\ Ht(g, i) = h[up]
      BY <1>0, <1>1, <1>3, <1>4, <1>5, <2>2 DEF RED
    <3> QED
      BY <1>5, <3>1
  <2>3. CASE m = up /\ f = d
    <3>1. u[f][m] = n /\ u.color[m] = 1 /\ Ht(g, n) = h[up] /\ g[m] = h[n] /\ m # x
      BY <1>1, <1>3, <1>4, <2>3 DEF BLACK
    <3> QED
      BY <1>5, <3>1
  <2>4. CASE m = up /\ f = Opp(d)
    <3>1. u[f][m] = c /\ u.color[m] = 1 /\ Ht(g, c) = h[up] /\ g[m] = h[n] /\ m # x
      BY <1>1, <1>3, <1>4, <1>5, <2>4 DEF BLACK
    <3> QED
      BY <1>5, <3>1
  <2>5. CASE m # n /\ m # up
    <3>1. t[f][m] \in S \cup {NULL} /\ Ht(g, u[f][m]) = Ht(h, t[f][m])
      BY <1>2, <1>4, <2>5
    <3>2. u.color[m] = t.color[m] /\ g[m] = h[m]
      BY <1>1, <1>3, <2>5
    <3>3. At(t, h, x, e, m, f)
      BY DEF Heights
    <3> QED
      BY <3>1, <3>2, <3>3 DEF At
  <2> QED
    BY <1>0, <2>1, <2>2, <2>3, <2>4, <2>5
<1>7. Heights(u, S, g, x, e)
  BY <1>3, <1>6 DEF Heights, At
<1> QED
  BY <1>7 DEF g

\* A rotation of two red entries keeps every count.
LEMMA RedHeights ==
  ASSUME NEW t \in Tree, NEW S \in SUBSET Key, NEW h, NEW e, Heights(t, S, h, NULL, e),
         NEW n \in S, NEW d \in Side, NEW u, Turned(t, S, d, n, t, u),
         NEW up, up = t[Opp(d)][n], t.color[n] = RED, t.color[up] = RED
  PROVE  Heights(u, S, h, NULL, e)
<1> DEFINE i  == t[d][up]
           a  == t[d][n]
           c  == t[Opp(d)][up]
<1>0. /\ Opp(d) \in Side /\ Opp(d) # d /\ (\A f \in Side : f = d \/ f = Opp(d))
      /\ NULL \notin Key /\ h \in [Key -> Nat]
  BY KeyAssumption, Sides DEF Heights
<1>1. /\ up \in S /\ up # n /\ n # NULL /\ up # NULL
      /\ a \in S \cup {NULL} /\ i \in S \cup {NULL} /\ c \in S \cup {NULL}
      /\ u[d][n] = a /\ u[Opp(d)][n] = i /\ u[d][up] = n /\ u[Opp(d)][up] = c
      /\ u.color = t.color
  BY <1>0 DEF Turned
<1>2. \A m \in S, f \in Side : m # n /\ m # up => u[f][m] = IF t[f][m] = n THEN up ELSE t[f][m]
  BY DEF Turned
<1>3. /\ h[n] = h[up] /\ h[up] = Ht(h, i) /\ h[up] = Ht(h, c) /\ h[n] = Ht(h, a)
      /\ h[n] \in Nat /\ Ht(h, n) = h[n] /\ Ht(h, up) = h[up]
  <2>1. /\ At(t, h, NULL, e, n, Opp(d)) /\ At(t, h, NULL, e, n, d)
        /\ At(t, h, NULL, e, up, d) /\ At(t, h, NULL, e, up, Opp(d))
    BY <1>0, <1>1 DEF Heights
  <2>2. /\ h[n] \in Nat /\ h[up] \in Nat /\ Ht(h, a) \in Nat /\ Ht(h, i) \in Nat
        /\ Ht(h, c) \in Nat /\ Ht(h, n) = h[n] /\ Ht(h, up) = h[up]
    BY <1>0, <1>1 DEF Ht
  <2>3. /\ h[n] = Ht(h, up) + 0 /\ h[n] = Ht(h, a) + 0
        /\ h[up] = Ht(h, i) + 0 /\ h[up] = Ht(h, c) + 0
    BY <1>1, <2>1 DEF At, RED
  <2> QED
    BY <2>2, <2>3
<1>4. ASSUME NEW m \in S, NEW f \in Side
      PROVE  At(u, h, NULL, e, m, f)
  <2>0. m # NULL
    BY <1>0
  <2>1. CASE m = n \/ m = up
    <3>1. u.color[m] = 0 /\ h[m] = h[n] /\ Ht(h, u[f][m]) = h[n]
      BY <1>0, <1>1, <1>3, <2>1 DEF RED
    <3> QED
      BY <1>3, <2>0, <3>1 DEF At
  <2>2. CASE m # n /\ m # up
    <3>1. Ht(h, u[f][m]) = Ht(h, t[f][m])
      BY <1>2, <1>3, <2>2
    <3>2. At(t, h, NULL, e, m, f)
      BY DEF Heights
    <3> QED
      BY <1>1, <3>1, <3>2 DEF At
  <2> QED
    BY <2>1, <2>2
<1> QED
  BY <1>0, <1>4 DEF Heights

\* The last rotation of __rb_erase_color (rbtree.c:148-151, 175-178): the
\* sibling takes the place and colour of the parent, and the ways through the
\* node get the black entry they lacked.
LEMMA FinalHeights ==
  ASSUME NEW t \in Tree, NEW S \in SUBSET Key, NEW h, NEW n \in S, NEW d \in Side,
         Heights(t, S, h, n, d),
         NEW v, NEW u, Turned(t, S, d, n, v, u),
         NEW up, up = t[Opp(d)][n], NEW c, c = t[Opp(d)][up], c # NULL,
         t.color[up] = BLACK, t.color[c] = RED,
         v.color[n] = BLACK, v.color[up] = t.color[n], v.color[c] = BLACK,
         \A m \in Key \ {n, up, c} : v.color[m] = t.color[m]
  PROVE  Heights(u, S, [h EXCEPT ![n] = h[up], ![up] = h[n], ![c] = h[up]], NULL, "left")
<1> DEFINE i  == t[d][up]
           a  == t[d][n]
           g  == [h EXCEPT ![n] = h[up], ![up] = h[n], ![c] = h[up]]
<1>0. /\ Opp(d) \in Side /\ Opp(d) # d /\ (\A f \in Side : f = d \/ f = Opp(d))
      /\ NULL \notin Key /\ h \in [Key -> Nat] /\ t.color[n] \in {0, 1}
  BY KeyAssumption, Sides DEF Heights, Tree, RED, BLACK
<1>1. /\ up \in S /\ up # n /\ n # NULL /\ up # NULL /\ c \in S
      /\ a \in S \cup {NULL} /\ i \in S \cup {NULL}
      /\ a # n /\ a # up /\ i # n /\ i # up /\ c # n /\ c # up
      /\ u[d][n] = a /\ u[Opp(d)][n] = i /\ u[d][up] = n /\ u[Opp(d)][up] = c
      /\ u.color = v.color /\ a # c /\ i # c
  BY <1>0 DEF Turned
<1>2. \A m \in S, f \in Side : m # n /\ m # up =>
           /\ u[f][m] = IF t[f][m] = n THEN up ELSE t[f][m]
           /\ t[f][m] \in S \cup {NULL} /\ t[f][m] # up /\ t[f][m] # c
  BY DEF Turned
<1>3. /\ g \in [Key -> Nat] /\ g[n] = h[up] /\ g[up] = h[n] /\ g[c] = h[up]
      /\ \A m \in Key : m # n /\ m # up /\ m # c => g[m] = h[m]
  BY <1>0, <1>1
<1> HIDE DEF g
<1>4. /\ Ht(g, a) = Ht(h, a) /\ Ht(g, i) = Ht(h, i) /\ Ht(g, c) = h[up]
      /\ Ht(g, n) = h[up] /\ Ht(h, up) = h[up] /\ Ht(h, c) = h[c]
      /\ \A y \in S \cup {NULL} : y # up /\ y # c => Ht(g, IF y = n THEN up ELSE y) = Ht(h, y)
  BY <1>0, <1>1, <1>3 DEF Ht
<1>5. /\ h[n] = h[up] + t.color[n] /\ h[up] = Ht(h, i) + 1 /\ h[up] = h[c] + 1
      /\ h[up] = Ht(h, a) + 1
      /\ h[n] \in Nat /\ h[up] \in Nat /\ h[c] \in Nat /\ Ht(h, a) \in Nat /\ Ht(h, i) \in Nat
  <2>1. /\ At(t, h, n, d, n, Opp(d)) /\ At(t, h, n, d, n, d)
        /\ At(t, h, n, d, up, d) /\ At(t, h, n, d, up, Opp(d))
    BY <1>0, <1>1 DEF Heights
  <2>2. /\ h[n] \in Nat /\ h[up] \in Nat /\ h[c] \in Nat /\ Ht(h, a) \in Nat /\ Ht(h, i) \in Nat
    BY <1>0, <1>1 DEF Ht
  <2>3. h[n] = Ht(h, up) + t.color[n] /\ h[n] = Ht(h, a) + t.color[n] + 1
    BY <1>0, <2>1 DEF At
  <2>4. h[up] = Ht(h, i) + 1 /\ h[up] = Ht(h, c) + 1
    BY <1>1, <2>1 DEF At, BLACK
  <2> QED
    BY <1>0, <1>4, <2>2, <2>3, <2>4
<1>6. ASSUME NEW m \in S, NEW f \in Side
      PROVE  At(u, g, NULL, "left", m, f)
  <2>0. m # NULL
    BY <1>0
  <2>1. CASE m = n
    <3>0. u[f][m] = a \/ u[f][m] = i
      BY <1>0, <1>1, <2>1
    <3>1. u.color[m] = 1 /\ g[m] = h[up] /\ Ht(g, u[f][m]) + 1 = h[up]
      <4>1. u.color[m] = 1 /\ g[m] = h[up]
        BY <1>1, <1>3, <2>1 DEF BLACK
      <4>2. Ht(g, a) + 1 = h[up] /\ Ht(g, i) + 1 = h[up]
        BY <1>4, <1>5
      <4> QED
        BY <3>0, <4>1, <4>2
    <3> QED
      BY <2>0, <3>1 DEF At
  <2>2. CASE m = up
    <3>1. u.color[m] = t.color[n] /\ g[m] = h[n] /\ Ht(g, u[f][m]) = h[up]
      BY <1>0, <1>1, <1>3, <1>4, <2>2
    <3> QED
      BY <1>5, <2>0, <3>1 DEF At
  <2>3. CASE m # n /\ m # up
    <3>1. Ht(g, u[f][m]) = Ht(h, t[f][m]) /\ t[f][m] \in S \cup {NULL}
      BY <1>2, <1>4, <2>3
    <3>2. At(t, h, n, d, m, f)
      BY DEF Heights
    <3>3. h[m] = Ht(h, t[f][m]) + t.color[m] /\ Ht(h, t[f][m]) \in Nat
      <4>1. h[m] = Ht(h, t[f][m]) + t.color[m]
        BY <2>3, <3>2 DEF At
      <4> QED
        BY <1>0, <3>1, <4>1 DEF Ht
    <3>4. CASE m = c
      <4>1. t.color[m] = 0 /\ u.color[m] = 1 /\ g[m] = h[c] + 1
        BY <1>1, <1>3, <1>5, <3>4 DEF RED, BLACK
      <4> QED
        BY <2>0, <3>1, <3>3, <3>4, <4>1 DEF At
    <3>5. CASE m # c
      <4>1. u.color[m] = t.color[m] /\ g[m] = h[m]
        BY <1>1, <1>3, <2>3, <3>5
      <4> QED
        BY <2>0, <3>1, <3>3, <4>1 DEF At
    <3> QED
      BY <3>4, <3>5
  <2> QED
    BY <2>1, <2>2, <2>3
<1>7. Heights(u, S, g, NULL, "left")
  BY <1>3, <1>6 DEF Heights
<1> QED
  BY <1>7 DEF g

-----------------------------------------------------------------------------
(* The phases of an operation. *)

\* A red-black tree.
Good(t, S, h) ==
  /\ Heights(t, S, h, NULL, "left")
  /\ \A m \in S, f \in Side : ~Clash(t, m, f)
  /\ Black(t, t.root)

\* Inside rb_insert_color: n is red, and only its parent may be red too.
InInsert(t, S, h, n) ==
  /\ n \in S /\ t.color[n] = RED
  /\ Heights(t, S, h, NULL, "left")
  /\ \A m \in S, f \in Side : Clash(t, m, f) => t[f][m] = n
  /\ Black(t, t.root) \/ t.root = n

\* Inside __rb_erase_color: the ways through n, a child of p, lack a black
\* entry, unless n is the root; and only n may be red next to a red entry.
InErase(t, S, h, n, p) ==
  /\ n \in S \cup {NULL}
  /\ \A m \in S, f \in Side : Clash(t, m, f) => m = n \/ t[f][m] = n
  /\ Black(t, t.root) \/ t.root = n
  /\ IF n = t.root THEN Heights(t, S, h, NULL, "left")
     ELSE p \in S /\ \E e \in Side : t[e][p] = n /\ Heights(t, S, h, p, e)

\* Entries outside the tree are empty nodes, but for the one being deleted.
Loose(t, S, v) ==
  \A m \in Key \ S : m # v => t.parent[m] = m /\ \A d \in Side : t[d][m] = NULL

\* Entries of a tree are red or black.
LEMMA ColourFacts ==
  ASSUME NEW t \in Tree, NEW m \in Key
  PROVE  /\ t.color[m] \in {RED, BLACK} /\ RED # BLACK
         /\ Red(t, m) <=> t.color[m] = RED
         /\ Black(t, m) <=> t.color[m] = BLACK
         /\ ~Red(t, NULL) /\ Black(t, NULL)
  BY KeyAssumption DEF Tree, RED, BLACK, Red, Black

\* The test with which the loops find out on which side an entry hangs.
LEMMA SideOfIs ==
  ASSUME NEW t, NEW S, NEW sub, Shape(t, S, sub), NEW n \in S, n # t.root
  PROVE  /\ SideOf(t, n) \in Side /\ t[SideOf(t, n)][t.parent[n]] = n
         /\ t[Opp(SideOf(t, n))][t.parent[n]] # n /\ t.parent[n] \in S
<1>1. PICK e \in Side : t[e][t.parent[n]] = n /\ t[Opp(e)][t.parent[n]] # n
  BY ParentFacts
<1>2. e = "left" \/ e = "right"
  BY DEF Side
<1>3. SideOf(t, n) = e
  BY <1>1, <1>2 DEF SideOf, Opp
<1> QED
  BY <1>1, <1>3, ParentFacts

\* Around the node of rb_insert_color while the loop runs.
Around(t, S, n, p, g, d) ==
  /\ p = t.parent[n] /\ g = t.parent[p] /\ d \in Side /\ d = SideOf(t, p)
  /\ p \in S /\ g \in S /\ n \in S /\ n # p /\ p # g /\ n # g
  /\ t[d][g] = p /\ t[Opp(d)][g] # p
  /\ t.color[n] = RED /\ t.color[p] = RED /\ t.color[g] = BLACK
  /\ n # t.root /\ p # t.root /\ Black(t, t.root)

\* A red parent is not the root, so there is a grandparent, and it is black.
LEMMA AroundIs ==
  ASSUME NEW t, NEW S, NEW sub, Shape(t, S, sub), NEW h, NEW n, InInsert(t, S, h, n),
         Red(t, t.parent[n])
  PROVE  Around(t, S, n, t.parent[n], t.parent[t.parent[n]], SideOf(t, t.parent[n]))
<1> DEFINE p == t.parent[n]
           g == t.parent[p]
           d == SideOf(t, p)
<1>0. t \in Tree /\ S \subseteq Key /\ NULL \notin Key
  BY Basics
<1>1. n \in S /\ t.color[n] = RED /\ p # NULL /\ (\A m \in S, f \in Side : Clash(t, m, f) => t[f][m] = n)
      /\ (Black(t, t.root) \/ t.root = n)
  BY DEF InInsert, Red
<1>2. p \in S /\ n # t.root /\ p # n
  BY <1>1, NodeFacts
<1>3. t.color[p] = RED /\ p # t.root /\ Black(t, t.root)
  <2>1. t.color[p] = RED
    BY DEF Red
  <2> QED
    BY <1>1, <1>2, <2>1 DEF Black, Red
<1>4. d \in Side /\ t[d][g] = p /\ t[Opp(d)][g] # p /\ g \in S /\ g # p
  BY <1>2, <1>3, SideOfIs, NodeFacts
<1> HIDE DEF d
<1>5. t.color[g] = BLACK
  <2> SUFFICES ASSUME t.color[g] # BLACK
               PROVE  FALSE
    OBVIOUS
  <2>1. Red(t, g) /\ Red(t, p)
    BY <1>0, <1>2, <1>3, <1>4, ColourFacts
  <2>2. Clash(t, g, d)
    BY <1>4, <2>1 DEF Clash
  <2> QED
    BY <1>1, <1>2, <1>4, <2>2
<1>6. n # g
  BY <1>1, <1>5, ColourFacts, <1>0
<1> QED
  BY <1>1, <1>2, <1>3, <1>4, <1>5, <1>6 DEF Around, d

\* Painting keeps the links.
LEMMA LinksOfPaint ==
  ASSUME NEW t \in Tree, NEW v, SameLinks(t, v), NEW n \in Key, NEW c \in {RED, BLACK}
  PROVE  /\ SameLinks(t, Paint(v, n, c))
         /\ \A m \in Key : Paint(v, n, c).color[m] = IF m = n THEN c ELSE v.color[m]
<1>1. v \in Tree
  BY DEF SameLinks
<1>2. Painted(v, n, c, Paint(v, n, c))
  BY <1>1, PaintIs
<1> QED
  BY <1>2 DEF SameLinks, Painted

\* Having the same links is reflexive.
LEMMA LinksOfSelf ==
  ASSUME NEW t \in Tree
  PROVE  SameLinks(t, t)
  BY DEF SameLinks

\* The loops paint two or three entries before they rotate.
LEMMA TwoPaints ==
  ASSUME NEW t \in Tree, NEW a \in Key, NEW b \in Key,
         NEW x \in {RED, BLACK}, NEW y \in {RED, BLACK}, NEW v, v = Paint(Paint(t, a, x), b, y)
  PROVE  /\ SameLinks(t, v)
         /\ \A m \in Key : v.color[m] = IF m = b THEN y ELSE IF m = a THEN x ELSE t.color[m]
<1> DEFINE w == Paint(t, a, x)
<1>1. SameLinks(t, w) /\ \A m \in Key : w.color[m] = IF m = a THEN x ELSE t.color[m]
  <2>1. SameLinks(t, t)
    BY LinksOfSelf
  <2>2. \A z \in {RED, BLACK} : /\ SameLinks(t, Paint(t, a, z))
          /\ \A m \in Key : Paint(t, a, z).color[m] = IF m = a THEN z ELSE t.color[m]
    <3> TAKE z \in {RED, BLACK}
    <3>1. RED \in {RED, BLACK} /\ BLACK \in {RED, BLACK}
      OBVIOUS
    <3>2. CASE z = RED
      BY <2>1, <3>1, <3>2, LinksOfPaint
    <3>3. CASE z = BLACK
      BY <2>1, <3>1, <3>3, LinksOfPaint
    <3> QED
      BY <3>2, <3>3
  <2> QED
    BY <2>2
<1>2. v = Paint(w, b, y)
  OBVIOUS
<1> HIDE DEF w
<1>3. SameLinks(t, v) /\ \A m \in Key : v.color[m] = IF m = b THEN y ELSE w.color[m]
  <2>1. \A z \in {RED, BLACK} : /\ SameLinks(t, Paint(w, b, z))
          /\ \A m \in Key : Paint(w, b, z).color[m] = IF m = b THEN z ELSE w.color[m]
    <3> TAKE z \in {RED, BLACK}
    <3>1. RED \in {RED, BLACK} /\ BLACK \in {RED, BLACK}
      OBVIOUS
    <3>2. CASE z = RED
      BY <1>1, <3>1, <3>2, LinksOfPaint
    <3>3. CASE z = BLACK
      BY <1>1, <3>1, <3>3, LinksOfPaint
    <3> QED
      BY <3>2, <3>3
  <2> QED
    BY <1>2, <2>1
<1> QED
  BY <1>1, <1>3

Colour == {RED, BLACK}

PaintedThree(t, a, x, b, y, c, z, v) ==
  /\ SameLinks(t, v)
  /\ \A m \in Key : v.color[m] = IF m = c THEN z ELSE IF m = b THEN y
                                 ELSE IF m = a THEN x ELSE t.color[m]

\* The last case of a deletion and the recolouring of an insertion paint three.
LEMMA ThreePaints ==
  ASSUME NEW t \in Tree, NEW a \in Key, NEW b \in Key, NEW c \in Key,
         NEW x \in Colour, NEW y \in Colour, NEW z \in Colour
  PROVE  PaintedThree(t, a, x, b, y, c, z, Paint(Paint(Paint(t, a, x), b, y), c, z))
<1> DEFINE v == Paint(Paint(Paint(t, a, x), b, y), c, z)
<1> USE DEF Colour
<1> DEFINE w == Paint(Paint(t, a, x), b, y)
<1>1. SameLinks(t, w) /\ \A m \in Key : w.color[m] = IF m = b THEN y ELSE IF m = a THEN x ELSE t.color[m]
  BY TwoPaints
<1>2. v = Paint(w, c, z)
  OBVIOUS
<1> HIDE DEF w
<1>3. SameLinks(t, v) /\ \A m \in Key : v.color[m] = IF m = c THEN z ELSE w.color[m]
  <2>1. \A q \in {RED, BLACK} : /\ SameLinks(t, Paint(w, c, q))
          /\ \A m \in Key : Paint(w, c, q).color[m] = IF m = c THEN q ELSE w.color[m]
    <3> TAKE q \in {RED, BLACK}
    <3>1. RED \in {RED, BLACK} /\ BLACK \in {RED, BLACK}
      OBVIOUS
    <3>2. CASE q = RED
      BY <1>1, <3>1, <3>2, LinksOfPaint
    <3>3. CASE q = BLACK
      BY <1>1, <3>1, <3>3, LinksOfPaint
    <3> QED
      BY <3>2, <3>3
  <2> QED
    BY <1>2, <2>1
<1> QED
  BY <1>1, <1>3 DEF PaintedThree

\* A tree with the links of a search tree is one, of the same entries.
LEMMA ShapeOfSame ==
  ASSUME NEW t, NEW S, NEW sub, Shape(t, S, sub), NEW v, SameLinks(t, v)
  PROVE  Shape(v, S, sub) /\ SameOutside(t, v, S)
<1>1. Shape(v, S, sub)
  BY ShapeOfLinks DEF SameLinks
<1> QED
  BY <1>1 DEF SameLinks, SameOutside

-----------------------------------------------------------------------------
(* The rounds of rb_insert_color. *)

\* The round with a red uncle (rbtree.c:74-80).
LEMMA RecolourKeeps ==
  ASSUME NEW t, NEW S, NEW sub, Shape(t, S, sub), NEW h, NEW n, InInsert(t, S, h, n),
         NEW p, NEW g, NEW d, Around(t, S, n, p, g, d), NEW y, y = t[Opp(d)][g], Red(t, y),
         NEW v, SameLinks(t, v),
         \A m \in Key : v.color[m] = IF m = g THEN RED ELSE IF m = p \/ m = y THEN BLACK
                                     ELSE t.color[m]
  PROVE  \E k : InInsert(v, S, k, g)
<1> DEFINE k == [h EXCEPT ![p] = h[p] + 1, ![y] = h[y] + 1]
<1>0. t \in Tree /\ v \in Tree /\ S \subseteq Key /\ NULL \notin Key /\ h \in [Key -> Nat]
  BY Basics DEF SameLinks, InInsert, Heights
<1>1. /\ p = t.parent[n] /\ g = t.parent[p] /\ d \in Side /\ p \in S /\ g \in S /\ n \in S
      /\ n # p /\ p # g /\ n # g /\ t[d][g] = p /\ y # p
      /\ t.color[p] = RED /\ t.color[g] = BLACK /\ n # t.root /\ Black(t, t.root)
  BY DEF Around
<1>2. y \in S /\ y # g /\ t.parent[y] = g /\ t.color[y] = RED /\ y # NULL /\ Opp(d) \in Side
      /\ (\A f \in Side : f = d \/ f = Opp(d))
  <2>1. y # NULL /\ t.color[y] = RED
    BY DEF Red
  <2>2. Opp(d) \in Side /\ (\A f \in Side : f = d \/ f = Opp(d))
    BY <1>1, Sides
  <2>3. y \in S /\ y # g /\ t.parent[y] = g
    <3>1. g \in S /\ Opp(d) \in Side /\ y = t[Opp(d)][g] /\ y # NULL
      BY <1>1, <2>1, <2>2
    <3> QED
      BY <3>1, KidFacts
  <2> QED
    BY <2>1, <2>2, <2>3
<1>3. /\ v.root = t.root /\ \A f \in Side, m \in S : v[f][m] = t[f][m]
  BY <1>0 DEF SameLinks
<1>4. \A m \in S, f \in Side : t[f][m] # NULL => t.parent[t[f][m]] = m /\ t[f][m] \in S
  BY KidFacts
<1>5. /\ k \in [Key -> Nat] /\ k[p] = h[p] + 1 /\ k[y] = h[y] + 1 /\ h[p] \in Nat /\ h[y] \in Nat
      /\ \A m \in Key : m # p /\ m # y => k[m] = h[m]
  <2>1. p \in Key /\ y \in Key /\ p # y
    BY <1>0, <1>1, <1>2
  <2>2. h[p] \in Nat /\ h[y] \in Nat /\ h[p] + 1 \in Nat /\ h[y] + 1 \in Nat
    BY <1>0, <2>1
  <2> QED
    BY <1>0, <2>1, <2>2
<1> HIDE DEF k
<1>6. \A m \in S, f \in Side : m # g => Ht(k, t[f][m]) = Ht(h, t[f][m])
  <2> SUFFICES ASSUME NEW m \in S, NEW f \in Side, m # g
               PROVE  Ht(k, t[f][m]) = Ht(h, t[f][m])
    OBVIOUS
  <2>1. t[f][m] # NULL => t[f][m] \in Key /\ t[f][m] # p /\ t[f][m] # y
    <3>1. t.parent[p] = g /\ t.parent[y] = g /\ S \subseteq Key
      BY <1>0, <1>1, <1>2
    <3>2. t[f][m] # NULL => t.parent[t[f][m]] = m /\ t[f][m] \in S
      BY <1>4
    <3> QED
      BY <3>1, <3>2
  <2> QED
    BY <1>5, <2>1 DEF Ht
<1>7. Heights(v, S, k, NULL, "left")
  <2> SUFFICES ASSUME NEW m \in S, NEW f \in Side
               PROVE  At(v, k, NULL, "left", m, f)
    BY <1>5 DEF Heights
  <2>0. m # NULL /\ m \in Key
    BY <1>0
  <2>1. h[m] = Ht(h, t[f][m]) + t.color[m] /\ h[m] \in Nat /\ Ht(h, t[f][m]) \in Nat
    <3>1. At(t, h, NULL, "left", m, f)
      BY DEF InInsert, Heights
    <3>2. t[f][m] \in Key \/ t[f][m] = NULL
      BY <1>0, <1>4
    <3> QED
      BY <1>0, <2>0, <3>1, <3>2 DEF At, Ht
  <2>2. CASE m = g
    <3>1. t[f][m] = p \/ t[f][m] = y
      BY <1>1, <1>2, <2>2
    <3>2. Ht(k, t[f][m]) = Ht(h, t[f][m]) + 1
      BY <1>0, <1>1, <1>2, <1>5, <3>1 DEF Ht
    <3>3. t.color[m] = 1 /\ v.color[m] = 0 /\ k[m] = h[m]
      BY <1>1, <1>2, <1>5, <2>0, <2>2 DEF RED, BLACK
    <3> QED
      BY <1>3, <2>0, <2>1, <3>2, <3>3 DEF At
  <2>3. CASE m = p \/ m = y
    <3>1. t.color[m] = 0 /\ v.color[m] = 1 /\ k[m] = h[m] + 1 /\ Ht(k, t[f][m]) = Ht(h, t[f][m])
      BY <1>1, <1>2, <1>5, <1>6, <2>0, <2>3 DEF RED, BLACK
    <3> QED
      BY <1>3, <2>0, <2>1, <3>1 DEF At
  <2>4. CASE m # g /\ m # p /\ m # y
    <3>1. v.color[m] = t.color[m] /\ k[m] = h[m] /\ Ht(k, t[f][m]) = Ht(h, t[f][m])
      BY <1>5, <1>6, <2>0, <2>4
    <3> QED
      BY <1>3, <2>0, <2>1, <3>1 DEF At
  <2> QED
    BY <2>2, <2>3, <2>4
<1>8. ASSUME NEW m \in S, NEW f \in Side, Clash(v, m, f)
      PROVE  v[f][m] = g
  <2> SUFFICES ASSUME t[f][m] # g
               PROVE  FALSE
    BY <1>3
  <2>1. t[f][m] # NULL /\ v.color[m] = RED /\ v.color[t[f][m]] = RED /\ t[f][m] \in S
    BY <1>3, <1>4, <1>8 DEF Clash, Red
  <2>2. RED # BLACK
    BY DEF RED, BLACK
  <2>3. m # p /\ m # y /\ t[f][m] # p /\ t[f][m] # y /\ t.color[t[f][m]] = RED
    BY <1>0, <1>1, <1>2, <2>1, <2>2
  <2>4. m # g
    BY <1>1, <1>2, <2>3
  <2>5. t.color[m] = RED
    BY <1>0, <2>1, <2>3, <2>4
  <2>6. Clash(t, m, f)
    BY <1>0, <2>1, <2>3, <2>5 DEF Clash, Red
  <2>7. t[f][m] = n
    BY <2>6 DEF InInsert
  <2> QED
    BY <1>1, <1>4, <2>1, <2>3, <2>7
<1>9. Black(v, v.root) \/ v.root = g
  <2> SUFFICES ASSUME t.root # g
               PROVE  Black(v, t.root)
    BY <1>3
  <2>1. t.root \in Key
    BY <1>0, <1>1, NodeFacts
  <2>2. v.color[t.root] = BLACK
    BY <1>0, <1>1, <2>1, ColourFacts
  <2> QED
    BY <1>0, <2>1, <2>2, ColourFacts
<1>10. v.color[g] = RED
  BY <1>0, <1>1
<1> QED
  BY <1>1, <1>7, <1>8, <1>9, <1>10 DEF InInsert

\* The first rotation of the round with a black uncle (rbtree.c:83-89): the
\* node and its parent change places.
LEMMA InnerTurn ==
  ASSUME NEW t, NEW S, NEW sub, Shape(t, S, sub), NEW h, NEW n, InInsert(t, S, h, n),
         NEW p, NEW g, NEW d, Around(t, S, n, p, g, d), t[Opp(d)][p] = n,
         NEW u, u = Rotate(t, d, p)
  PROVE  /\ Shape(u, S, RotSub(t, d, p, sub)) /\ InInsert(u, S, h, p)
         /\ Around(u, S, p, n, g, d) /\ u[d][n] = p /\ u[Opp(d)][g] = t[Opp(d)][g]
         /\ SameOutside(t, u, S) /\ u.color = t.color
<1>0. t \in Tree /\ S \subseteq Key /\ NULL \notin Key /\ SameLinks(t, t)
  BY Basics, LinksOfSelf
<1>1. /\ p = t.parent[n] /\ g = t.parent[p] /\ d \in Side /\ p \in S /\ g \in S /\ n \in S
      /\ n # p /\ p # g /\ n # g /\ t[d][g] = p /\ t[Opp(d)][g] # p
      /\ t.color[n] = RED /\ t.color[p] = RED /\ t.color[g] = BLACK
      /\ n # t.root /\ p # t.root /\ Black(t, t.root)
  BY DEF Around
<1>2. Opp(d) \in Side /\ (\A f \in Side : f = d \/ f = Opp(d)) /\ n # NULL
  BY <1>0, <1>1, Sides
<1>3. Turned(t, S, d, p, t, u) /\ Shape(u, S, RotSub(t, d, p, sub)) /\ SameOutside(t, u, S)
  BY <1>0, <1>1, <1>2, TurnedIs
<1>4. /\ u \in Tree /\ u.color = t.color /\ u.root = t.root
      /\ u[d][p] = t[d][p] /\ u[Opp(d)][p] = t[d][n] /\ u[d][n] = p /\ u[Opp(d)][n] = t[Opp(d)][n]
      /\ t[d][p] # n /\ t[d][n] # n /\ t[Opp(d)][n] # n
      /\ \A m \in S, f \in Side : m # p /\ m # n =>
           u[f][m] = (IF t[f][m] = p THEN n ELSE t[f][m]) /\ t[f][m] # n
  BY <1>1, <1>3 DEF Turned
<1>5. u[d][g] = n /\ u[Opp(d)][g] = t[Opp(d)][g]
  BY <1>1, <1>2, <1>4
<1>6. u.parent[p] = n /\ u.parent[n] = g
  <2>1. p # NULL /\ n # NULL /\ d \in Side /\ n \in S /\ g \in S
    BY <1>0, <1>1
  <2>2. p = u[d][n] /\ n = u[d][g] /\ Shape(u, S, RotSub(t, d, p, sub))
    BY <1>3, <1>4, <1>5
  <2>3. u.parent[p] = n
    BY <2>1, <2>2, KidFacts
  <2>4. u.parent[n] = g
    BY <2>1, <2>2, KidFacts
  <2> QED
    BY <2>3, <2>4
<1>7. d = SideOf(u, n) /\ t[Opp(d)][g] # n
  <2>1. t[Opp(d)][g] # n
    BY <1>1, <1>2, <1>4
  <2>2. /\ SideOf(u, n) \in Side /\ u[SideOf(u, n)][u.parent[n]] = n
    BY <1>1, <1>3, <1>4, SideOfIs
  <2> QED
    BY <1>2, <1>5, <1>6, <2>1, <2>2
<1>8. Black(u, u.root)
  BY <1>1, <1>4 DEF Black, Red
<1>9. Around(u, S, p, n, g, d)
  BY <1>1, <1>2, <1>4, <1>5, <1>6, <1>7, <1>8 DEF Around
<1>10. Heights(u, S, h, NULL, "left")
  <2>1. Heights(t, S, h, NULL, "left")
    BY DEF InInsert
  <2>2. S \in SUBSET Key
    BY <1>0
  <2> QED
    BY <1>0, <1>1, <1>3, <2>1, <2>2, RedHeights
<1>11. ASSUME NEW m \in S, NEW f \in Side, Clash(u, m, f)
       PROVE  u[f][m] = p
  <2>0. \A b \in S, e \in Side : Clash(t, b, e) => t[e][b] = n
    BY DEF InInsert
  <2>1. Red(t, m) /\ Red(t, u[f][m])
    BY <1>4, <1>11 DEF Clash, Red
  <2>2. CASE m = p
    <3>1. Red(t, n) /\ Red(t, p)
      BY <1>0, <1>1, ColourFacts
    <3>2. u[f][m] = t[d][p] \/ u[f][m] = t[d][n]
      BY <1>2, <1>4, <2>2
    <3>3. Clash(t, p, d) \/ Clash(t, n, d)
      BY <2>1, <3>1, <3>2 DEF Clash
    <3> QED
      BY <1>1, <1>4, <2>0, <3>3
  <2>3. CASE m = n
    <3>1. CASE f = d
      BY <1>4, <2>3, <3>1
    <3>2. CASE f = Opp(d)
      <4>1. Clash(t, n, Opp(d))
        BY <1>4, <2>1, <2>3, <3>2 DEF Clash
      <4> QED
        BY <1>1, <1>2, <1>4, <2>0, <4>1
    <3> QED
      BY <1>2, <3>1, <3>2
  <2>4. CASE m # p /\ m # n
    <3>1. t[f][m] # p
      <4> SUFFICES ASSUME t[f][m] = p
                   PROVE  FALSE
        OBVIOUS
      <4>1. m = g
        BY <1>0, <1>1, KidFacts
      <4> QED
        BY <1>0, <1>1, <2>1, <4>1, ColourFacts
    <3>2. u[f][m] = t[f][m] /\ t[f][m] # n
      BY <1>4, <2>4, <3>1
    <3>3. Clash(t, m, f)
      BY <2>1, <3>2 DEF Clash
    <3> QED
      BY <2>0, <3>2, <3>3
  <2> QED
    BY <2>2, <2>3, <2>4
<1>12. InInsert(u, S, h, p)
  BY <1>1, <1>4, <1>8, <1>10, <1>11 DEF InInsert
<1> QED
  BY <1>3, <1>4, <1>5, <1>9, <1>12

\* The second one (rbtree.c:91-93): the parent takes the grandparent's place.
LEMMA OuterTurn ==
  ASSUME NEW t, NEW S, NEW sub, Shape(t, S, sub), NEW h, NEW n, InInsert(t, S, h, n),
         NEW p, NEW g, NEW d, Around(t, S, n, p, g, d), t[d][p] = n,
         Black(t, t[Opp(d)][g]), NEW v, SameLinks(t, v),
         \A m \in Key : v.color[m] = IF m = g THEN RED ELSE IF m = p THEN BLACK ELSE t.color[m],
         NEW u, u = Rotate(v, Opp(d), g)
  PROVE  /\ Shape(u, S, RotSub(v, Opp(d), g, sub)) /\ \E k : InInsert(u, S, k, n)
         /\ SameOutside(t, u, S)
<1> DEFINE o == Opp(d)
           y == t[o][g]
           i == t[o][p]
           k == [h EXCEPT ![g] = h[p], ![p] = h[g]]
<1>0. t \in Tree /\ v \in Tree /\ S \subseteq Key /\ NULL \notin Key /\ S \in SUBSET Key
  BY Basics DEF SameLinks
<1>1. /\ p = t.parent[n] /\ g = t.parent[p] /\ d \in Side /\ p \in S /\ g \in S /\ n \in S
      /\ n # p /\ p # g /\ n # g /\ t[d][g] = p /\ t[Opp(d)][g] # p
      /\ t.color[n] = RED /\ t.color[p] = RED /\ t.color[g] = BLACK
      /\ n # t.root /\ p # t.root /\ Black(t, t.root)
  BY DEF Around
<1>2. o \in Side /\ Opp(o) = d /\ o # d /\ (\A f \in Side : f = d \/ f = o) /\ p # NULL
  BY <1>0, <1>1, Sides
<1>o. o = Opp(d)
  OBVIOUS
<1> HIDE DEF o
<1>3. Turned(t, S, o, g, v, u) /\ Shape(u, S, RotSub(v, o, g, sub)) /\ SameOutside(t, u, S)
  <2>1. t[Opp(o)][g] # NULL
    BY <1>1, <1>2
  <2> QED
    BY <1>1, <1>2, <1>o, <2>1, TurnedIs
<1>4. /\ u \in Tree /\ u.color = v.color /\ u.root = (IF g = t.root THEN p ELSE t.root)
      /\ u[o][g] = y /\ u[d][g] = i /\ u[o][p] = g /\ u[d][p] = n
      /\ i # n /\ y # n
      /\ \A m \in S, f \in Side : m # g /\ m # p =>
           /\ u[f][m] = (IF t[f][m] = g THEN p ELSE t[f][m]) /\ t[f][m] # p
           /\ t[f][m] # NULL => t[f][m] # n
  <2>1. n # NULL /\ t[Opp(o)][g] = p /\ Opp(o) = d /\ t[Opp(o)][p] = n
    BY <1>0, <1>1, <1>2
  <2>2. Turned(t, S, o, g, v, u)
    BY <1>3
  <2> HIDE DEF y, i
  <2>3. /\ u \in Tree /\ u.color = v.color /\ u.root = (IF g = t.root THEN p ELSE t.root)
        /\ u[o][g] = t[o][g] /\ u[d][g] = t[o][p] /\ u[o][p] = g /\ u[d][p] = n
    BY <2>1, <2>2 DEF Turned
  <2>4. /\ (t[o][p] # NULL => t[o][p] # n) /\ (t[o][g] # NULL => t[o][g] # n)
    BY <2>1, <2>2 DEF Turned
  <2>5. \A m \in S, f \in Side : m # g /\ m # p =>
           /\ u[f][m] = (IF t[f][m] = g THEN p ELSE t[f][m]) /\ t[f][m] # p
           /\ t[f][m] # NULL => t[f][m] # n
    BY <2>1, <2>2 DEF Turned
  <2> QED
    BY <2>1, <2>3, <2>4, <2>5 DEF y, i
<1>5. Heights(u, S, k, NULL, "left")
  <2>1. Heights(t, S, h, NULL, "left")
    BY DEF InInsert
  <2>2. p = t[Opp(o)][g] /\ v.color[g] = RED /\ v.color[p] = BLACK /\ g # NULL
    BY <1>0, <1>1, <1>2
  <2>3. \A m \in Key \ {g, p} : v.color[m] = t.color[m]
    OBVIOUS
  <2> HIDE DEF k
  <2>4. Heights(u, S, [h EXCEPT ![g] = h[p], ![p] = h[g]], NULL, "left")
    <3>1. t \in Tree /\ S \in SUBSET Key /\ g \in S /\ o \in Side
      BY <1>0, <1>1, <1>2
    <3>2. t.color[g] = BLACK /\ t.color[p] = RED /\ NULL # p /\ (NULL = g => "left" = o)
      BY <1>1, <1>2, <2>2
    <3>3. Turned(t, S, o, g, v, u)
      BY <1>3
    <3> QED
      BY <2>1, <2>2, <2>3, <3>1, <3>2, <3>3, SwapHeights
  <2> QED
    BY <2>4 DEF k
<1>6. ASSUME NEW m \in S, NEW f \in Side
      PROVE  ~Clash(u, m, f)
  <2> SUFFICES ASSUME Clash(u, m, f)
               PROVE  FALSE
    OBVIOUS
  <2>0. \A b \in S, e \in Side : Clash(t, b, e) => t[e][b] = n
    BY DEF InInsert
  <2>1. v.color[m] = RED /\ u[f][m] # NULL /\ v.color[u[f][m]] = RED
    BY <1>4 DEF Clash, Red
  <2>r. RED # BLACK
    BY DEF RED, BLACK
  <2>2. m # p
    BY <1>0, <1>1, <2>1, <2>r
  <2>3. \A b \in Key : b # g /\ v.color[b] = RED => Red(t, b)
    BY <1>0, <2>r, ColourFacts
  <2>4. CASE m = g
    <3>1. u[f][m] = y \/ u[f][m] = i
      BY <1>2, <1>4, <2>4
    <3>2. u[f][m] # g /\ u[f][m] \in Key
      <4>1. Shape(u, S, RotSub(v, o, g, sub))
        BY <1>3
      <4>2. u[f][m] \in S /\ u[f][m] # m
        BY <2>1, <4>1, KidFacts
      <4> QED
        BY <1>0, <2>4, <4>2
    <3>3. Red(t, u[f][m])
      BY <2>1, <2>3, <3>2
    <3>4. u[f][m] = i
      BY <1>o, <3>1, <3>3 DEF Black
    <3>5. Clash(t, p, o)
      <4>1. Red(t, p)
        BY <1>0, <1>1, ColourFacts
      <4> QED
        BY <3>3, <3>4, <4>1 DEF Clash
    <3>6. t[o][p] = n
      BY <1>1, <1>2, <2>0, <3>5
    <3>7. t[o][p] # n
      BY <1>4
    <3> QED
      BY <3>6, <3>7
  <2>5. CASE m # g
    <3>1. t[f][m] # g
      BY <1>0, <1>1, <1>4, <2>1, <2>2, <2>5, <2>r
    <3>2. u[f][m] = t[f][m] /\ t[f][m] # n
      BY <1>4, <2>1, <2>2, <2>5, <3>1
    <3>3. u[f][m] \in Key
      <4>1. u[f][m] \in S
        BY <1>3, <2>1, KidFacts
      <4> QED
        BY <1>0, <4>1
    <3>4. Clash(t, m, f)
      BY <1>0, <2>1, <2>3, <2>5, <3>1, <3>2, <3>3 DEF Clash
    <3> QED
      BY <2>0, <3>2, <3>4
  <2> QED
    BY <2>4, <2>5
<1>7. Black(u, u.root)
  <2>1. u.root \in Key /\ u.root # g /\ (u.root # p => u.root = t.root)
    <3>1. t.root \in S
      BY <1>1, NodeFacts
    <3> QED
      BY <1>0, <1>1, <1>4, <3>1
  <2>2. v.color[u.root] = BLACK
    BY <1>0, <1>1, <2>1, ColourFacts
  <2> QED
    BY <1>4, <2>1, <2>2, ColourFacts
<1>8. u.color[n] = RED
  BY <1>0, <1>1, <1>4
<1>9. InInsert(u, S, k, n)
  BY <1>1, <1>5, <1>6, <1>7, <1>8 DEF InInsert
<1> QED
  BY <1>3, <1>9 DEF o

-----------------------------------------------------------------------------
(* The end of both loops. *)

\* Painting a red entry black adds one to the ways through it.
LEMMA BlackHeights ==
  ASSUME NEW t, NEW S, NEW sub, Shape(t, S, sub), NEW h, NEW x, NEW e, Heights(t, S, h, x, e),
         NEW n \in S, t.color[n] = RED,
         (n = t.root /\ x = NULL) \/ (n # t.root /\ x \in S /\ e \in Side /\ t[e][x] = n),
         NEW v, SameLinks(t, v),
         \A m \in Key : v.color[m] = IF m = n THEN BLACK ELSE t.color[m]
  PROVE  Heights(v, S, [h EXCEPT ![n] = h[n] + 1], NULL, "left")
<1> DEFINE k == [h EXCEPT ![n] = h[n] + 1]
<1>0. t \in Tree /\ S \subseteq Key /\ NULL \notin Key /\ h \in [Key -> Nat] /\ n \in Key /\ h[n] \in Nat
  BY Basics DEF Heights
<1>1. k \in [Key -> Nat] /\ k[n] = h[n] + 1 /\ \A m \in Key : m # n => k[m] = h[m]
  BY <1>0
<1> HIDE DEF k
<1>2. \A m \in S, f \in Side : t[f][m] # NULL => t[f][m] \in S /\ t.parent[t[f][m]] = m
  BY KidFacts
<1>k. \A m \in S, f \in Side : t[f][m] = n => m = x /\ f = e
  <2> SUFFICES ASSUME NEW m \in S, NEW f \in Side, t[f][m] = n
               PROVE  m = x /\ f = e
    OBVIOUS
  <2>1. n # t.root /\ t.parent[n] = m
    BY <1>0, KidFacts
  <2>2. x \in S /\ e \in Side /\ t[e][x] = n
    BY <2>1
  <2>3. x = m
    BY <1>0, <1>2, <2>1, <2>2
  <2>4. t[Opp(f)][m] # n
    BY <1>0, KidFacts
  <2> QED
    BY <2>2, <2>3, <2>4, Sides
<1>3. ASSUME NEW m \in S, NEW f \in Side
      PROVE  At(v, k, NULL, "left", m, f)
  <2>0. m # NULL /\ m \in Key /\ v[f][m] = t[f][m]
    BY <1>0 DEF SameLinks
  <2>1. At(t, h, x, e, m, f)
    BY DEF Heights
  <2>2. h[m] \in Nat /\ Ht(h, t[f][m]) \in Nat /\ t.color[m] \in {0, 1}
    <3>1. t[f][m] \in Key \/ t[f][m] = NULL
      BY <1>0, <1>2
    <3>2. t.color[m] \in {0, 1}
      BY <1>0, <2>0 DEF Tree, RED, BLACK
    <3> QED
      BY <1>0, <2>0, <3>1, <3>2 DEF Ht
  <2>3. IF t[f][m] = n THEN h[m] = Ht(h, t[f][m]) + t.color[m] + 1
        ELSE h[m] = Ht(h, t[f][m]) + t.color[m]
    <3>1. m = x /\ f = e => t[f][m] = n
      BY <2>0
    <3>2. t[f][m] = n <=> m = x /\ f = e
      BY <1>k, <3>1
    <3> QED
      BY <2>1, <3>2 DEF At
  <2>4. IF t[f][m] = n THEN Ht(k, t[f][m]) = Ht(h, t[f][m]) + 1
        ELSE Ht(k, t[f][m]) = Ht(h, t[f][m])
    BY <1>0, <1>1, <1>2 DEF Ht
  <2>5. IF m = n THEN k[m] = h[m] + 1 /\ v.color[m] = 1 /\ t.color[m] = 0
        ELSE k[m] = h[m] /\ v.color[m] = t.color[m]
    BY <1>1, <2>0 DEF RED, BLACK
  <2>6. ~(m = n /\ t[f][m] = n)
    BY <1>0, <1>2, NodeFacts
  <2>7. k[m] = Ht(k, t[f][m]) + v.color[m]
    BY <2>2, <2>3, <2>4, <2>5, <2>6
  <2> QED
    BY <2>0, <2>7 DEF At
<1>4. Heights(v, S, k, NULL, "left")
  BY <1>1, <1>3 DEF Heights
<1> QED
  BY <1>4 DEF k

\* Heights depend on links and colours of the tree's entries only.
LEMMA HeightsOfSame ==
  ASSUME NEW t, NEW S, NEW h, NEW x, NEW e, Heights(t, S, h, x, e), NEW v,
         \A m \in S : v.color[m] = t.color[m],
         \A m \in S, f \in Side : v[f][m] = t[f][m]
  PROVE  Heights(v, S, h, x, e)
  BY DEF Heights, At

\* The node at which a loop ended is painted black, and the tree is a
\* red-black tree again (rbtree.c:120, 184-185).
LEMMA BlackEnds ==
  ASSUME NEW t, NEW S, NEW sub, Shape(t, S, sub), NEW h, NEW x, NEW e, Heights(t, S, h, x, e),
         NEW n \in S,
         \/ n = t.root /\ x = NULL /\ e = "left"
         \/ n # t.root /\ x \in S /\ e \in Side /\ t[e][x] = n /\ t.color[n] = RED,
         \A m \in S, f \in Side : Clash(t, m, f) => m = n \/ t[f][m] = n,
         Black(t, t.root) \/ t.root = n
  PROVE  /\ \E k : Good(Paint(t, n, BLACK), S, k)
         /\ Shape(Paint(t, n, BLACK), S, sub) /\ SameOutside(t, Paint(t, n, BLACK), S)
<1> DEFINE v == Paint(t, n, BLACK)
<1>0. t \in Tree /\ S \subseteq Key /\ NULL \notin Key /\ n \in Key /\ BLACK \in {RED, BLACK}
  BY Basics
<1>1. SameLinks(t, v) /\ \A m \in Key : v.color[m] = IF m = n THEN BLACK ELSE t.color[m]
  BY <1>0, LinksOfSelf, LinksOfPaint
<1> HIDE DEF v
<1>2. Shape(v, S, sub) /\ SameOutside(t, v, S)
  BY <1>1, ShapeOfSame
<1>3. v \in Tree /\ v.root = t.root /\ \A m \in S, f \in Side : v[f][m] = t[f][m]
  BY <1>0, <1>1 DEF SameLinks
<1>4. \E k : Heights(v, S, k, NULL, "left")
  <2>1. CASE t.color[n] = RED
    <3>1. (n = t.root /\ x = NULL) \/ (n # t.root /\ x \in S /\ e \in Side /\ t[e][x] = n)
      OBVIOUS
    <3>2. Heights(v, S, [h EXCEPT ![n] = h[n] + 1], NULL, "left")
      BY <1>1, <2>1, <3>1, BlackHeights
    <3> QED
      BY <3>2
  <2>2. CASE t.color[n] # RED
    <3>1. x = NULL /\ e = "left"
      BY <2>2
    <3>2. \A m \in S : v.color[m] = t.color[m]
      BY <1>0, <1>1, <2>2, ColourFacts
    <3>3. Heights(v, S, h, NULL, "left")
      BY <1>3, <3>1, <3>2, HeightsOfSame
    <3> QED
      BY <3>3
  <2> QED
    BY <2>1, <2>2
<1>5. RED # BLACK
  BY DEF RED, BLACK
<1>6. ASSUME NEW m \in S, NEW f \in Side
      PROVE  ~Clash(v, m, f)
  <2> SUFFICES ASSUME Clash(v, m, f)
               PROVE  FALSE
    OBVIOUS
  <2>1. v.color[m] = RED /\ t[f][m] # NULL /\ v.color[t[f][m]] = RED /\ m # NULL
    BY <1>3 DEF Clash, Red
  <2>2. t[f][m] \in Key
    BY <1>0, <2>1, KidFacts
  <2>3. m # n /\ t[f][m] # n
    BY <1>0, <1>1, <1>5, <2>1
  <2>4. t.color[m] = RED /\ t.color[t[f][m]] = RED
    BY <1>0, <1>1, <2>1, <2>2, <2>3
  <2>5. Clash(t, m, f)
    BY <2>1, <2>4 DEF Clash, Red
  <2> QED
    BY <2>3, <2>5
<1>7. Black(v, v.root)
  <2>1. t.root \in Key
    BY <1>0, NodeFacts
  <2>2. v.color[t.root] = BLACK
    BY <1>0, <1>1, <2>1, ColourFacts
  <2> QED
    BY <1>3, <2>1, <2>2, ColourFacts
<1>8. \E k : Good(v, S, k)
  BY <1>4, <1>6, <1>7 DEF Good
<1> QED
  BY <1>2, <1>8 DEF v

\* rb_insert_color ends with a parent that is not red, or with no parent.
LEMMA InsertEnds ==
  ASSUME NEW t, NEW S, NEW sub, Shape(t, S, sub), NEW h, NEW n, InInsert(t, S, h, n),
         ~Red(t, t.parent[n])
  PROVE  /\ \E k : Good(Paint(t, t.root, BLACK), S, k)
         /\ Shape(Paint(t, t.root, BLACK), S, sub)
         /\ SameOutside(t, Paint(t, t.root, BLACK), S)
<1>1. n \in S /\ Heights(t, S, h, NULL, "left") /\ t.root \in S
  BY NodeFacts DEF InInsert
<1>2. ASSUME NEW m \in S, NEW f \in Side
      PROVE  ~Clash(t, m, f)
  <2> SUFFICES ASSUME Clash(t, m, f)
               PROVE  FALSE
    OBVIOUS
  <2>1. t[f][m] = n /\ Red(t, m) /\ t[f][m] # NULL
    BY DEF InInsert, Clash, Red
  <2>2. t.parent[n] = m
    BY <2>1, KidFacts
  <2> QED
    BY <2>1, <2>2
<1> QED
  BY <1>1, <1>2, BlackEnds

-----------------------------------------------------------------------------
(* The first step of an insertion and of a deletion. *)

\* A new red leaf: only it may be red below a red entry.
LEMMA LinkKeeps ==
  ASSUME NEW t, NEW S, NEW sub, Shape(t, S, sub), NEW h, Good(t, S, h),
         NEW k \in Key, k \notin S, NEW u, u = rb_link_node(t, k, Descend(t, k))
  PROVE  \E w, j : /\ Shape(u, S \cup {k}, w) /\ InInsert(u, S \cup {k}, j, k)
                   /\ SameOutside(t, u, S \cup {k})
<1> DEFINE p == Descend(t, k)
           R == S \cup {k}
           j == [h EXCEPT ![k] = 0]
<1>0. /\ t \in Tree /\ S \subseteq Key /\ NULL \notin Key /\ Ptr = Key \cup {NULL}
      /\ \A e \in Side, m \in Key : t[e][m] \in S \cup {NULL}
      /\ (t.root = NULL <=> S = {}) /\ t.root \in S \cup {NULL}
  BY Basics
<1>1. /\ p \in S \cup {NULL} /\ p # k /\ (p = NULL <=> S = {})
      /\ p # NULL => t[Toward(k, p)][p] = NULL
  <2>1. CASE S = {}
    <3>1. p = NULL
      BY <1>0, <2>1 DEF Descend
    <3> QED
      BY <1>0, <2>1, <3>1
  <2>2. CASE S # {}
    <3>1. p \in S /\ p # k /\ t[Toward(k, p)][p] = NULL
      BY <2>2, DescendIs
    <3> QED
      BY <1>0, <2>2, <3>1
  <2> QED
    BY <2>1, <2>2
<1>2. Linked(t, k, p, u)
  BY <1>0, <1>1, LinkedIs
<1>3. \E w : Shape(u, R, w)
  <2>1. CASE S = {}
    <3>1. Shape(t, {}, sub) /\ Linked(t, k, NULL, u) /\ R = {k}
      BY <1>1, <1>2, <2>1
    <3>2. Shape(u, {k}, InsSub({}, sub, k, NULL))
      BY <3>1, ShapeFirst
    <3> QED
      BY <3>1, <3>2
  <2>2. CASE S # {}
    <3>1. Shape(u, S \cup {k}, InsSub(S, sub, k, p))
      BY <1>2, <2>2, ShapeLinked
    <3> QED
      BY <3>1
  <2> QED
    BY <2>1, <2>2
<1> HIDE DEF p
<1>4. /\ u \in Tree /\ u.root = (IF p = NULL THEN k ELSE t.root) /\ u.color[k] = RED
      /\ \A m \in Key : m # k => u.parent[m] = t.parent[m] /\ u.color[m] = t.color[m]
      /\ \A f \in Side : u[f][k] = NULL
      /\ \A f \in Side, m \in Key : m # k =>
           u[f][m] = IF m = p /\ f = Toward(k, p) THEN k ELSE t[f][m]
  BY <1>2 DEF Linked
<1>5. h \in [Key -> Nat] /\ j \in [Key -> Nat] /\ j[k] = 0 /\ \A m \in Key : m # k => j[m] = h[m]
  BY DEF Good, Heights
<1> HIDE DEF j
<1>6. Heights(u, R, j, NULL, "left")
  <2> SUFFICES ASSUME NEW m \in R, NEW f \in Side
               PROVE  At(u, j, NULL, "left", m, f)
    BY <1>5 DEF Heights
  <2>1. CASE m = k
    <3>1. j[m] = 0 /\ Ht(j, u[f][m]) = 0 /\ u.color[m] = 0 /\ m # NULL
      BY <1>0, <1>4, <1>5, <2>1 DEF Ht, RED
    <3> QED
      BY <3>1 DEF At
  <2>2. CASE m # k
    <3>0. m \in S /\ m \in Key /\ m # NULL
      BY <1>0, <2>2
    <3>1. At(t, h, NULL, "left", m, f)
      BY <3>0 DEF Good, Heights
    <3>2. Ht(j, u[f][m]) = Ht(h, t[f][m])
      <4>1. CASE m = p /\ f = Toward(k, p)
        <5>1. t[f][m] = NULL /\ u[f][m] = k
          BY <1>1, <1>4, <2>2, <3>0, <4>1
        <5> QED
          BY <1>5, <5>1 DEF Ht
      <4>2. CASE ~(m = p /\ f = Toward(k, p))
        <5>1. u[f][m] = t[f][m] /\ t[f][m] \in S \cup {NULL}
          BY <1>0, <1>4, <2>2, <3>0, <4>2
        <5>2. t[f][m] # k
          BY <1>0, <5>1
        <5> QED
          BY <1>0, <1>5, <5>1, <5>2 DEF Ht
      <4> QED
        BY <4>1, <4>2
    <3>3. u.color[m] = t.color[m] /\ j[m] = h[m]
      BY <1>4, <1>5, <2>2, <3>0
    <3> QED
      BY <3>0, <3>1, <3>2, <3>3 DEF At
  <2> QED
    BY <2>1, <2>2
<1>7. ASSUME NEW m \in R, NEW f \in Side, Clash(u, m, f)
      PROVE  u[f][m] = k
  <2> SUFFICES ASSUME u[f][m] # k
               PROVE  FALSE
    OBVIOUS
  <2>1. m # k /\ m \in S /\ m \in Key
    BY <1>0, <1>4, <1>7 DEF Clash, Red
  <2>2. u[f][m] = t[f][m]
    BY <1>4, <2>1
  <2>3. Clash(t, m, f)
    <3>1. t[f][m] # NULL /\ t[f][m] \in Key /\ t[f][m] # k
      BY <1>0, <1>7, <2>1, <2>2 DEF Clash, Red
    <3> QED
      BY <1>4, <1>7, <2>1, <2>2, <3>1 DEF Clash, Red
  <2> QED
    BY <2>1, <2>3 DEF Good
<1>8. Black(u, u.root) \/ u.root = k
  <2> SUFFICES ASSUME u.root # k
               PROVE  Black(u, t.root)
    BY <1>4
  <2>1. t.root \in Key /\ t.root # k
    BY <1>0, <1>1, <1>4
  <2> QED
    BY <1>4, <2>1 DEF Good, Black, Red
<1>9. InInsert(u, R, j, k)
  BY <1>4, <1>6, <1>7, <1>8 DEF InInsert
<1>10. SameOutside(t, u, R)
  <2> SUFFICES ASSUME NEW m \in Key, m \notin R
               PROVE  u.parent[m] = t.parent[m] /\ \A f \in Side : u[f][m] = t[f][m]
    BY DEF SameOutside
  <2>1. m # k /\ m # p
    BY <1>0, <1>1
  <2> QED
    BY <1>4, <2>1
<1> QED
  BY <1>3, <1>9, <1>10

\* What rb_erase leaves behind once k is cut out: if the entry that is missing
\* on some way down is black, the ways through the child that took its place
\* lack one; otherwise the tree is a red-black tree.
Cut(t, S, k, r) ==
  /\ \E w : Shape(r.tree, S \ {k}, w)
  /\ r.child \in Ptr /\ r.parent \in Ptr
  /\ r.color # BLACK => \E j : Good(r.tree, S \ {k}, j)
  /\ r.color = BLACK => \E j : InErase(r.tree, S \ {k}, j, r.child, r.parent)
  /\ SameOutside(t, r.tree, S)

\* rb_erase of an entry with at most one child (rbtree.c:233-248), up to
\* the test of the colour that calls __rb_erase_color.
LEMMA UnlinkKeeps ==
  ASSUME NEW t, NEW S, NEW sub, Shape(t, S, sub), NEW h, Good(t, S, h), NEW k \in S,
         \A m \in Key \ S, d \in Side : t[d][m] = NULL,
         t.left[k] = NULL \/ t.right[k] = NULL
  PROVE  Cut(t, S, k, Unlink(t, k))
<1> DEFINE r == Unlink(t, k)
           u == r.tree
           c == OnlyKid(t, k)
           p == t.parent[k]
           R == S \ {k}
<1>0. /\ S \subseteq Key /\ NULL \notin Key /\ Ptr = Key \cup {NULL} /\ t \in Tree
      /\ \A d \in Side, m \in Key : t[d][m] \in S \cup {NULL}
  BY Basics
<1>1. /\ Unlinked(t, k, c, u) /\ r.child = c /\ r.parent = p /\ r.color = t.color[k]
      /\ \E e \in Side : c = t[e][k] /\ t[Opp(e)][k] = NULL
  BY UnlinkedIs
<1>2. PICK e \in Side : c = t[e][k] /\ t[Opp(e)][k] = NULL
  BY <1>1
<1>o. p = t.parent[k]
  OBVIOUS
<1>r. \A m : m \in R <=> m \in S /\ m # k
  OBVIOUS
<1> HIDE DEF r, c
<1>3. Shape(u, R, DelSub(sub, k))
  BY <1>1, <1>2, ShapeUnlinked
<1>4. /\ u \in Tree /\ u.root = (IF p = NULL THEN c ELSE t.root) /\ u.color = t.color
      /\ \A m \in Key : u.parent[m] = IF m = c THEN p ELSE t.parent[m]
      /\ \A f \in Side, m \in Key : u[f][m] = IF m = p /\ t[f][m] = k THEN c ELSE t[f][m]
  BY <1>1 DEF Unlinked
<1> HIDE DEF u, p, R
<1>5. /\ k \in Key /\ k # NULL /\ p \in S \cup {NULL} /\ p # k /\ (p = NULL <=> k = t.root)
      /\ t.root \in S
  BY <1>o, NodeFacts
<1>6. /\ c \in S \cup {NULL} /\ c # k
      /\ c # NULL => c \in R /\ t.parent[c] = k /\ c # t.root
  <2>1. CASE c = NULL
    BY <1>0, <1>5, <2>1
  <2>2. CASE c # NULL
    BY <1>2, <1>r, <2>2, KidFacts
  <2> QED
    BY <2>1, <2>2
<1>7. \A f \in Side, m \in S : t[f][m] = k => m = p
  BY <1>5, <1>o, KidFacts
<1>8. \A f \in Side, m \in S : u[f][m] = IF t[f][m] = k THEN c ELSE t[f][m]
  BY <1>0, <1>4, <1>7
<1>9. /\ h \in [Key -> Nat] /\ \A m \in S, f \in Side : h[m] = Ht(h, t[f][m]) + t.color[m]
  <2>1. h \in [Key -> Nat] /\ \A m \in S, f \in Side : At(t, h, NULL, "left", m, f)
    BY DEF Good, Heights
  <2>2. \A m \in S : m # NULL
    BY <1>0
  <2> QED
    BY <2>1, <2>2 DEF At
<1>10. /\ \A m \in S, f \in Side : ~Clash(t, m, f)
       /\ Black(t, t.root)
  BY DEF Good
<1>11. h[k] = Ht(h, c) + t.color[k]
  BY <1>2, <1>9
<1>12. \A m \in R, f \in Side : Clash(u, m, f) => t[f][m] = k /\ u[f][m] = c
  <2> SUFFICES ASSUME NEW m \in R, NEW f \in Side, Clash(u, m, f), t[f][m] # k
               PROVE  FALSE
    BY <1>8, <1>r
  <2>1. m \in S /\ u[f][m] = t[f][m]
    BY <1>8, <1>r
  <2>2. Clash(t, m, f)
    BY <1>4, <2>1 DEF Clash, Red
  <2> QED
    BY <1>10, <2>1, <2>2
<1>13. SameOutside(t, u, S)
  <2> SUFFICES ASSUME NEW m \in Key, m \notin S
               PROVE  u.parent[m] = t.parent[m] /\ \A f \in Side : u[f][m] = t[f][m]
    BY DEF SameOutside
  <2>1. m # c /\ m # p
    BY <1>0, <1>5, <1>6
  <2> QED
    BY <1>4, <2>1
<1>14. \A m \in R : m \in S /\ m \in Key /\ m # NULL /\ h[m] \in Nat /\ t.color[m] \in {0, 1}
  BY <1>0, <1>9, <1>r DEF Tree, RED, BLACK
<1>15. Ht(h, c) \in Nat
  BY <1>0, <1>6, <1>9 DEF Ht
<1>16. ASSUME t.color[k] # BLACK
       PROVE  Good(u, R, h)
  <2>0. t.color[k] = RED /\ Red(t, k) /\ t.color[k] = 0
    BY <1>0, <1>5, <1>16, ColourFacts DEF RED
  <2>1. p # NULL
    BY <1>5, <1>10, <2>0 DEF Black
  <2>2. Ht(h, c) = Ht(h, k)
    BY <1>5, <1>11, <1>15, <2>0 DEF Ht
  <2>3. \A m \in R, f \in Side : Ht(h, u[f][m]) = Ht(h, t[f][m])
    BY <1>8, <1>14, <2>2
  <2>4. \A m \in R, f \in Side : At(u, h, NULL, "left", m, f)
    BY <1>4, <1>9, <1>14, <2>3 DEF At
  <2>5. \A m \in R, f \in Side : ~Clash(u, m, f)
    <3> SUFFICES ASSUME NEW m \in R, NEW f \in Side, Clash(u, m, f)
                 PROVE  FALSE
      OBVIOUS
    <3>1. Red(u, c)
      BY <1>12 DEF Clash
    <3>2. Clash(t, k, e)
      BY <1>2, <1>4, <2>0, <3>1 DEF Clash, Red
    <3> QED
      BY <1>10, <3>2
  <2>6. Black(u, u.root)
    BY <1>4, <1>10, <2>1 DEF Black, Red
  <2> QED
    BY <1>9, <2>4, <2>5, <2>6 DEF Good, Heights
<1>17. ASSUME t.color[k] = BLACK
       PROVE  InErase(u, R, h, c, p)
  <2>0. h[k] = Ht(h, c) + 1
    BY <1>11, <1>17 DEF BLACK
  <2>1. \A m \in R, f \in Side : Clash(u, m, f) => m = c \/ u[f][m] = c
    BY <1>12
  <2>2. c \in R \cup {NULL}
    BY <1>6
  <2>3. Black(u, u.root) \/ u.root = c
    BY <1>4, <1>10 DEF Black, Red
  <2>4. CASE p = NULL
    <3>1. c = u.root
      BY <1>4, <2>4
    <3>2. \A m \in R, f \in Side : u[f][m] = t[f][m]
      BY <1>0, <1>7, <1>8, <1>14, <2>4
    <3>3. \A m \in R, f \in Side : At(u, h, NULL, "left", m, f)
      BY <1>4, <1>9, <1>14, <3>2 DEF At
    <3>4. Heights(u, R, h, NULL, "left")
      BY <1>9, <3>3 DEF Heights
    <3> QED
      BY <2>1, <2>2, <2>3, <3>1, <3>4 DEF InErase
  <2>5. CASE p # NULL
    <3>1. p \in R /\ k # t.root
      BY <1>5, <1>r, <2>5
    <3>2. PICK d \in Side : t[d][p] = k /\ t[Opp(d)][p] # k
      BY <1>o, <3>1, ParentFacts
    <3>3. c # u.root
      BY <1>0, <1>4, <1>5, <1>6, <2>5
    <3>4. u[d][p] = c
      BY <1>5, <1>8, <2>5, <3>2
    <3>5. ASSUME NEW m \in R, NEW f \in Side
          PROVE  At(u, h, p, d, m, f)
      <4>0. h[m] = Ht(h, t[f][m]) + t.color[m] /\ t.color[m] \in {0, 1} /\ u.color[m] = t.color[m]
        BY <1>4, <1>9, <1>14
      <4>1. t[f][m] = k <=> m = p /\ f = d
        <5>1. f = d \/ f = Opp(d)
          BY Sides
        <5> QED
          BY <1>7, <1>14, <3>2, <5>1
      <4>2. CASE m = p /\ f = d
        <5>1. Ht(h, t[f][m]) = Ht(h, c) + 1 /\ u[f][m] = c
          BY <1>5, <2>0, <3>2, <3>4, <4>2 DEF Ht
        <5>2. h[m] = Ht(h, u[f][m]) + u.color[m] + 1
          BY <1>15, <4>0, <5>1
        <5> QED
          BY <4>2, <5>2 DEF At
      <4>3. CASE ~(m = p /\ f = d)
        <5>1. u[f][m] = t[f][m]
          BY <1>8, <1>14, <4>1, <4>3
        <5> QED
          BY <4>0, <4>3, <5>1 DEF At
      <4> QED
        BY <4>2, <4>3
    <3>6. Heights(u, R, h, p, d)
      BY <1>9, <3>5 DEF Heights
    <3> QED
      BY <2>1, <2>2, <2>3, <3>1, <3>3, <3>4, <3>6 DEF InErase
  <2> QED
    BY <2>4, <2>5
<1>18. /\ \E w : Shape(r.tree, S \ {k}, w)
       /\ r.child \in Ptr /\ r.parent \in Ptr
       /\ r.color # BLACK => \E j : Good(r.tree, S \ {k}, j)
       /\ r.color = BLACK => \E j : InErase(r.tree, S \ {k}, j, r.child, r.parent)
       /\ SameOutside(t, r.tree, S)
  <2>1. \E w : Shape(u, R, w)
    BY <1>3
  <2>2. r.child \in Ptr /\ r.parent \in Ptr
    BY <1>0, <1>1, <1>5, <1>6 DEF p
  <2>3. r.color # BLACK => \E j : Good(u, R, j)
    BY <1>1, <1>16
  <2>4. r.color = BLACK => \E j : InErase(u, R, j, r.child, r.parent)
    <3>1. r.child = c /\ r.parent = p /\ r.color = t.color[k]
      BY <1>1 DEF p
    <3> QED
      BY <1>17, <3>1
  <2> QED
    BY <1>13, <2>1, <2>2, <2>3, <2>4 DEF u, R
<1>19. Cut(t, S, k, r)
  BY <1>18 DEF Cut
<1> QED
  BY <1>19 DEF r

\* rb_erase of an entry with two children (rbtree.c:196-231, 246-248), up
\* to that test: the successor takes the entry's place and colour, and what may
\* be missing is the black that the successor was.
LEMMA SpliceKeeps ==
  ASSUME NEW t, NEW S, NEW sub, Shape(t, S, sub), NEW h, Good(t, S, h), NEW k \in S,
         \A m \in Key \ S, d \in Side : t[d][m] = NULL,
         t.left[k] # NULL, t.right[k] # NULL
  PROVE  Cut(t, S, k, Splice(t, k))
<1> DEFINE z == Splice(t, k)
           u == z.tree
           s == Outermost(t, "left", t.right[k])
           p == t.parent[k]
           q == t.parent[s]
           l == t["left"][k]
           r == t["right"][k]
           c == t["right"][s]
           x == IF q = k THEN s ELSE q
           e == IF q = k THEN "right" ELSE "left"
           R == S \ {k}
           j == [h EXCEPT ![s] = h[k]]
<1>0. /\ S \subseteq Key /\ NULL \notin Key /\ Ptr = Key \cup {NULL} /\ t \in Tree /\ k \in Key
      /\ \A d \in Side, m \in Key : t[d][m] \in S \cup {NULL}
      /\ t.left = t["left"] /\ t.right = t["right"] /\ "left" \in Side /\ "right" \in Side
  BY Basics, TreeTypes DEF Side
<1>1. Succ(t, S, sub, k, s)
  BY SuccIs
<1>s. s = Outermost(t, "left", t.right[k])
  OBVIOUS
<1> HIDE DEF s, z
<1>2. /\ l \in S /\ r \in S /\ s \in S /\ q \in S /\ s # k
      /\ t["left"][s] = NULL /\ t.parent[l] = k /\ t.parent[r] = k /\ l # r /\ l # s /\ l # k /\ r # k
      /\ p # s /\ p # q /\ p # k /\ q # s
      /\ q = k <=> s = r
      /\ q # k => t["left"][q] = s /\ t["right"][q] # s
      /\ c \in S \cup {NULL}
      /\ c # NULL => t.parent[c] = s /\ c # s /\ c # l /\ c # r /\ c # k
  BY <1>1 DEF Succ
<1>3. /\ Spliced(t, k, s, u) /\ z.child = c /\ z.color = t.color[s] /\ z.parent = x
  <2>1. p # NULL => \E d \in Side : t[d][p] = k /\ t[Opp(d)][p] # k
    BY ParentFacts, NodeFacts
  <2>2. s \in Key /\ q \in Key
    BY <1>0, <1>2
  <2>3. s # t.left[k] /\ (q # k => s # t.right[k] /\ s # t.right[s])
    <3>1. c # s
      BY <1>0, <1>2
    <3> QED
      BY <1>0, <1>2, <3>1
  <2>4. /\ Spliced(t, k, s, Splice(t, k).tree)
        /\ Splice(t, k).child = t.right[s] /\ Splice(t, k).color = t.color[s]
        /\ Splice(t, k).parent = (IF t.parent[s] = k THEN s ELSE t.parent[s])
    BY <1>0, <1>2, <1>s, <2>1, <2>2, <2>3, SplicedIs
  <2> QED
    BY <1>0, <2>4 DEF z
<1>4. Shape(u, R, SplSub(sub, k, s))
  BY <1>1, <1>3, ShapeSpliced
<1>5. /\ u \in Tree /\ u.root = (IF p = NULL THEN s ELSE t.root)
      /\ \A m \in Key : u.color[m] = IF m = s THEN t.color[k] ELSE t.color[m]
      /\ \A m \in Key : u.parent[m] =
           IF m = l THEN s ELSE IF m = s THEN p ELSE IF q # k /\ m = r THEN s
           ELSE IF q # k /\ m = c THEN q ELSE t.parent[m]
      /\ \A m \in Key : u["left"][m] =
           IF m = s THEN l ELSE IF q # k /\ m = q THEN c
           ELSE IF m = p /\ t["left"][m] = k THEN s ELSE t["left"][m]
      /\ \A m \in Key : u["right"][m] =
           IF q # k /\ m = s THEN r
           ELSE IF m = p /\ t["right"][m] = k THEN s ELSE t["right"][m]
  <2>1. u \in Tree
    BY <1>4, Basics
  <2>2. u.left = u["left"] /\ u.right = u["right"]
    BY <2>1, TreeTypes
  <2> HIDE DEF u
  <2> QED
    BY <1>0, <1>3, <2>1, <2>2 DEF Spliced
<1>r. \A m : m \in R <=> m \in S /\ m # k
  OBVIOUS
<1>o. p = t.parent[k] /\ q = t.parent[s]
  OBVIOUS
<1> HIDE DEF u, p, q, l, r, c, R
<1>6. /\ p \in S \cup {NULL} /\ (p = NULL <=> k = t.root) /\ t.root \in S /\ s # t.root
      /\ (c # NULL => c # t.root)
  <2>1. p \in S \cup {NULL} /\ (p = NULL <=> k = t.root) /\ t.root \in S
    BY <1>o, NodeFacts
  <2>2. t.parent[t.root] = NULL
    BY <2>1, NodeFacts
  <2> QED
    BY <1>0, <1>2, <1>o, <2>1, <2>2
<1>7. /\ x \in R /\ e \in Side /\ u[e][x] = c /\ c \in R \cup {NULL} /\ c # u.root
  <2>1. x \in R /\ e \in Side /\ c \in R \cup {NULL}
    BY <1>0, <1>2, <1>r
  <2>2. u[e][x] = c
    <3>1. CASE q = k
      <4>1. u["right"][s] = t["right"][s]
        BY <1>0, <1>2, <1>5, <3>1
      <4> QED
        BY <3>1, <4>1 DEF c
    <3>2. CASE q # k
      BY <1>0, <1>2, <1>5, <3>2
    <3> QED
      BY <3>1, <3>2
  <2>3. c # u.root
    BY <1>0, <1>2, <1>5, <1>6
  <2> QED
    BY <2>1, <2>2, <2>3
<1>8. /\ h \in [Key -> Nat] /\ \A m \in S, f \in Side : h[m] = Ht(h, t[f][m]) + t.color[m]
  <2>1. h \in [Key -> Nat] /\ \A m \in S, f \in Side : At(t, h, NULL, "left", m, f)
    BY DEF Good, Heights
  <2>2. \A m \in S : m # NULL
    BY <1>0
  <2> QED
    BY <2>1, <2>2 DEF At
<1>9. /\ \A m \in S, f \in Side : ~Clash(t, m, f)
      /\ Black(t, t.root)
  BY DEF Good
<1>10. \A m \in S : m \in Key /\ m # NULL /\ h[m] \in Nat /\ t.color[m] \in {0, 1}
  BY <1>0, <1>8 DEF Tree, RED, BLACK
<1>11. j \in [Key -> Nat] /\ j[s] = h[k] /\ \A m \in Key : m # s => j[m] = h[m]
  BY <1>2, <1>8, <1>10
<1>12. \A m \in S \cup {NULL} : m # s => Ht(j, m) = Ht(h, m)
  BY <1>10, <1>11 DEF Ht
<1> HIDE DEF j
\* Where a pointer down of u comes from.
<1>13. ASSUME NEW m \in R, NEW f \in Side
       PROVE  \/ m = s /\ u[f][m] = t[f][k] /\ u[f][m] # s /\ u[f][m] \in S /\ ~(m = x /\ f = e)
              \/ m = x /\ f = e /\ u[f][m] = c
              \/ m # s /\ t[f][m] = k /\ u[f][m] = s /\ ~(m = x /\ f = e)
              \/ /\ m # s /\ u[f][m] = t[f][m] /\ t[f][m] # s /\ t[f][m] # k /\ ~(m = x /\ f = e)
                 /\ t[f][m] \in S \cup {NULL}
  <2>0. m \in S /\ m # k /\ m \in Key /\ t[f][m] \in S \cup {NULL}
    BY <1>0, <1>r
  <2>1. CASE m = x /\ f = e
    BY <1>7, <2>1
  <2>2. CASE m = s /\ ~(m = x /\ f = e)
    <3>1. f = "left" \/ (f = "right" /\ q # k)
      BY <2>2 DEF Side
    <3>2. u[f][m] = t[f][k]
      BY <1>5, <2>0, <2>2, <3>1 DEF l, r
    <3>3. u[f][m] = l \/ u[f][m] = r
      BY <1>5, <2>0, <2>2, <3>1
    <3>4. u[f][m] \in S
      BY <1>2, <3>3
    <3>5. u[f][m] # s
      BY <1>2, <1>5, <2>0, <2>2, <3>1
    <3> QED
      BY <2>2, <3>2, <3>4, <3>5
  <2>3. CASE m # s /\ ~(m = x /\ f = e)
    <3>1. t[f][m] # s
      <4> SUFFICES ASSUME t[f][m] = s
                   PROVE  FALSE
        OBVIOUS
      <4>1. m = q
        BY <1>10, <1>2, <1>o, <2>0, KidFacts
      <4>2. q # k /\ f # "left"
        BY <2>0, <2>3, <4>1
      <4>3. f = "right"
        BY <4>2 DEF Side
      <4> QED
        BY <1>2, <4>1, <4>2, <4>3
    <3>2. t[f][m] = k => m = p
      BY <1>10, <1>o, <2>0, KidFacts
    <3>3. u[f][m] = IF m = p /\ t[f][m] = k THEN s ELSE t[f][m]
      <4>1. CASE f = "left"
        BY <1>5, <2>0, <2>3, <4>1
      <4>2. CASE f = "right"
        BY <1>5, <2>0, <2>3, <4>2
      <4> QED
        BY <4>1, <4>2 DEF Side
    <3> QED
      BY <2>0, <2>3, <3>1, <3>2, <3>3
  <2> QED
    BY <2>1, <2>2, <2>3
<1>14. h[s] = Ht(h, c) + t.color[s] /\ Ht(j, c) = Ht(h, c) /\ Ht(h, c) \in Nat
  <2>1. c # s
    BY <1>10, <1>2
  <2> QED
    BY <1>0, <1>2, <1>8, <1>10, <1>12, <2>1 DEF Ht, c
<1>15. ASSUME NEW m \in R, NEW f \in Side
       PROVE  IF m = x /\ f = e THEN j[m] = Ht(j, u[f][m]) + u.color[m] + t.color[s]
              ELSE j[m] = Ht(j, u[f][m]) + u.color[m]
  <2>0. m \in S /\ m # k /\ m \in Key
    BY <1>10, <1>r
  <2>1. CASE m = s /\ u[f][m] = t[f][k] /\ u[f][m] # s /\ u[f][m] \in S /\ ~(m = x /\ f = e)
    <3>1. h[k] = Ht(h, t[f][k]) + t.color[k]
      BY <1>8
    <3>2. Ht(j, u[f][m]) = Ht(h, t[f][k]) /\ u.color[m] = t.color[k] /\ j[m] = h[k]
      BY <1>5, <1>11, <1>12, <2>0, <2>1
    <3> QED
      BY <2>1, <3>1, <3>2
  <2>2. CASE m = x /\ f = e /\ u[f][m] = c
    <3>1. CASE q = k
      <4>1. h[k] = Ht(h, r) + t.color[k] /\ r = s /\ m = s
        BY <1>0, <1>2, <1>8, <2>2, <3>1 DEF r
      <4>2. Ht(h, s) = h[s] /\ j[m] = h[k] /\ u.color[m] = t.color[k]
        BY <1>2, <1>5, <1>10, <1>11, <2>0, <4>1 DEF Ht
      <4>3. h[k] \in Nat /\ h[s] \in Nat /\ t.color[k] \in {0, 1} /\ t.color[s] \in {0, 1}
        BY <1>2, <1>10
      <4>4. h[k] = h[s] + t.color[k]
        BY <4>1, <4>2
      <4>5. j[m] = Ht(j, u[f][m]) + u.color[m] + t.color[s]
        BY <1>14, <2>2, <4>2, <4>3, <4>4
      <4> QED
        BY <2>2, <4>5
    <3>2. CASE q # k
      <4>1. h[q] = Ht(h, s) + t.color[q] /\ m = q /\ m # s
        BY <1>0, <1>2, <1>8, <2>2, <3>2
      <4>2. Ht(h, s) = h[s] /\ j[m] = h[q] /\ u.color[m] = t.color[q]
        BY <1>2, <1>5, <1>10, <1>11, <2>0, <4>1 DEF Ht
      <4>3. h[q] \in Nat /\ h[s] \in Nat /\ t.color[q] \in {0, 1} /\ t.color[s] \in {0, 1}
        BY <1>2, <1>10
      <4>4. h[q] = h[s] + t.color[q]
        BY <4>1, <4>2
      <4>5. j[m] = Ht(j, u[f][m]) + u.color[m] + t.color[s]
        BY <1>14, <2>2, <4>2, <4>3, <4>4
      <4> QED
        BY <2>2, <4>5
    <3> QED
      BY <3>1, <3>2
  <2>3. CASE m # s /\ t[f][m] = k /\ u[f][m] = s /\ ~(m = x /\ f = e)
    <3>1. h[m] = Ht(h, k) + t.color[m]
      BY <1>8, <2>0, <2>3
    <3>2. Ht(j, s) = Ht(h, k) /\ u.color[m] = t.color[m] /\ j[m] = h[m]
      BY <1>2, <1>5, <1>10, <1>11, <2>0, <2>3 DEF Ht
    <3> QED
      BY <2>3, <3>1, <3>2
  <2>4. CASE /\ m # s /\ u[f][m] = t[f][m] /\ t[f][m] # s /\ t[f][m] # k /\ ~(m = x /\ f = e)
             /\ t[f][m] \in S \cup {NULL}
    <3>1. h[m] = Ht(h, t[f][m]) + t.color[m]
      BY <1>8, <2>0
    <3>2. Ht(j, u[f][m]) = Ht(h, t[f][m]) /\ u.color[m] = t.color[m] /\ j[m] = h[m]
      BY <1>5, <1>11, <1>12, <2>0, <2>4
    <3> QED
      BY <2>4, <3>1, <3>2
  <2> QED
    BY <1>13, <2>1, <2>2, <2>3, <2>4
<1>16. \A m \in S \cup {NULL} : m # s => (Red(u, m) <=> Red(t, m))
  BY <1>5, <1>10 DEF Red
<1>17. Red(u, s) <=> Red(t, k)
  BY <1>2, <1>5, <1>10 DEF Red
<1>18. ASSUME NEW m \in R, NEW f \in Side, Clash(u, m, f)
       PROVE  u[f][m] = c /\ t.color[s] = BLACK
  <2>0. m \in S /\ m # k /\ m \in Key /\ Red(u, m) /\ Red(u, u[f][m])
    BY <1>10, <1>18, <1>r DEF Clash
  <2>1. CASE m = s /\ u[f][m] = t[f][k] /\ u[f][m] # s /\ u[f][m] \in S /\ ~(m = x /\ f = e)
    <3>1. Clash(t, k, f)
      BY <1>16, <1>17, <2>0, <2>1 DEF Clash
    <3> QED
      BY <1>9, <3>1
  <2>2. CASE m = x /\ f = e /\ u[f][m] = c
    <3> SUFFICES ASSUME t.color[s] # BLACK
                 PROVE  FALSE
      BY <2>2
    <3>1. Red(t, s)
      BY <1>0, <1>2, <1>10, ColourFacts
    <3>2. Red(t, c)
      BY <1>2, <1>10, <1>16, <2>0, <2>2
    <3>3. Clash(t, s, "right")
      BY <3>1, <3>2 DEF Clash, c
    <3> QED
      BY <1>0, <1>2, <1>9, <3>3
  <2>3. CASE m # s /\ t[f][m] = k /\ u[f][m] = s /\ ~(m = x /\ f = e)
    <3>1. Clash(t, m, f)
      BY <1>16, <1>17, <2>0, <2>3 DEF Clash
    <3> QED
      BY <1>9, <2>0, <3>1
  <2>4. CASE /\ m # s /\ u[f][m] = t[f][m] /\ t[f][m] # s /\ t[f][m] # k /\ ~(m = x /\ f = e)
             /\ t[f][m] \in S \cup {NULL}
    <3>1. Clash(t, m, f)
      BY <1>16, <2>0, <2>4 DEF Clash
    <3> QED
      BY <1>9, <2>0, <3>1
  <2> QED
    BY <1>13, <2>1, <2>2, <2>3, <2>4
<1>19. Black(u, u.root)
  <2>1. u.root = s => p = NULL
    BY <1>5, <1>6
  <2>2. Red(u, u.root) => Red(t, t.root)
    BY <1>5, <1>6, <1>16, <1>17
  <2> QED
    BY <1>9, <2>2 DEF Black
<1>20. SameOutside(t, u, S)
  <2> SUFFICES ASSUME NEW m \in Key, m \notin S
               PROVE  u.parent[m] = t.parent[m] /\ \A f \in Side : u[f][m] = t[f][m]
    BY DEF SameOutside
  <2>1. m # c /\ m # p /\ m # l /\ m # s /\ m # r /\ m # q
    BY <1>0, <1>2, <1>6
  <2>2. u.parent[m] = t.parent[m] /\ u["left"][m] = t["left"][m] /\ u["right"][m] = t["right"][m]
    BY <1>5, <2>1
  <2> QED
    BY <2>2 DEF Side
<1>21. t.color[s] # BLACK => Good(u, R, j)
  <2> SUFFICES ASSUME t.color[s] # BLACK
               PROVE  Good(u, R, j)
    OBVIOUS
  <2>1. t.color[s] = 0
    BY <1>2, <1>10 DEF BLACK
  <2>2. ASSUME NEW m \in R, NEW f \in Side
        PROVE  At(u, j, NULL, "left", m, f)
    <3>1. m # NULL /\ m \in S /\ m \in Key
      BY <1>10, <1>r
    <3>2. u.color[m] \in {0, 1} /\ Ht(j, u[f][m]) \in Nat
      <4>1. u[f][m] = NULL \/ u[f][m] \in Key
        BY <1>4, <3>1, Basics
      <4> QED
        BY <1>5, <1>11, <3>1, <4>1 DEF Ht, Tree, RED, BLACK
    <3>3. j[m] = Ht(j, u[f][m]) + u.color[m]
      BY <1>15, <2>1, <3>2
    <3> QED
      BY <3>1, <3>3 DEF At
  <2> QED
    BY <1>11, <1>18, <1>19, <2>2 DEF Good, Heights
<1>22. t.color[s] = BLACK => InErase(u, R, j, c, x)
  <2> SUFFICES ASSUME t.color[s] = BLACK
               PROVE  InErase(u, R, j, c, x)
    OBVIOUS
  <2>1. t.color[s] = 1
    BY DEF BLACK
  <2>2. \A m \in R, f \in Side : At(u, j, x, e, m, f)
    <3> TAKE m \in R, f \in Side
    <3>1. IF m = x /\ f = e THEN j[m] = Ht(j, u[f][m]) + u.color[m] + 1
              ELSE j[m] = Ht(j, u[f][m]) + u.color[m]
      BY <1>15, <2>1
    <3> HIDE DEF x, e
    <3> QED
      BY <3>1 DEF At
  <2> HIDE DEF x, e
  <2>3. Heights(u, R, j, x, e)
    BY <1>11, <2>2 DEF Heights
  <2>4. \A m \in R, f \in Side : Clash(u, m, f) => m = c \/ u[f][m] = c
    BY <1>18
  <2> QED
    BY <1>7, <1>19, <2>3, <2>4 DEF InErase
<1>23. x \in Ptr /\ c \in Ptr
  BY <1>0, <1>7, <1>r
<1> HIDE DEF x
<1>24. Cut(t, S, k, z)
  <2>1. Shape(z.tree, S \ {k}, SplSub(sub, k, s))
    BY <1>4 DEF u, R
  <2>2. z.child = c /\ z.color = t.color[s] /\ z.parent = x
    BY <1>3
  <2>3. t.color[s] # BLACK => Good(z.tree, S \ {k}, j)
    BY <1>21 DEF u, R
  <2>4. t.color[s] = BLACK => InErase(z.tree, S \ {k}, j, c, x)
    BY <1>22 DEF u, R
  <2>5. SameOutside(t, z.tree, S)
    BY <1>20 DEF u
  <2> QED
    BY <1>23, <2>1, <2>2, <2>3, <2>4, <2>5 DEF Cut
<1> QED
  BY <1>24 DEF z

-----------------------------------------------------------------------------
(* The rounds of __rb_erase_color. *)

\* The loop runs: the ways through the black child n of p on side d lack a
\* black entry, and no red entry has a red child.
Lacks(t, S, h, n, p, d) ==
  /\ n \in S \cup {NULL} /\ p \in S /\ d \in Side /\ t[d][p] = n
  /\ Heights(t, S, h, p, d)
  /\ \A m \in S, f \in Side : ~Clash(t, m, f)
  /\ Black(t, t.root) /\ Black(t, n) /\ n # t.root

\* The sibling o of the node: it exists, and is none of its relatives.
Other(t, S, n, p, d, o) ==
  /\ o = t[Opp(d)][p] /\ o \in S /\ o # p /\ o # n /\ o # t.root /\ n # p
  /\ t.parent[o] = p /\ t.parent[p] # o /\ t.parent[p] # p
  /\ Opp(d) \in Side /\ Opp(d) # d /\ Opp(Opp(d)) = d
  /\ \A f \in Side : f = d \/ f = Opp(d)
  /\ \A f \in Side, m \in S : t[f][m] = o => m = p /\ f = Opp(d)
  /\ \A f \in Side : t[f][o] \in S \cup {NULL} /\ t[f][o] # o /\ t[f][o] # p /\ (t[f][o] # NULL => t[f][o] # n)

\* __rb_erase_color follows the sibling's pointers without a test for NULL
\* (rbtree.c:130): the ways through it pass one black entry more than the ones
\* through the node, so there is one.
LEMMA OtherIs ==
  ASSUME NEW t, NEW S, NEW sub, Shape(t, S, sub), NEW h, NEW n, NEW p, NEW d,
         Lacks(t, S, h, n, p, d)
  PROVE  /\ Other(t, S, n, p, d, t[Opp(d)][p])
         /\ h[t[Opp(d)][p]] = Ht(h, n) + 1
<1> DEFINE o == t[Opp(d)][p]
<1>0. /\ S \subseteq Key /\ NULL \notin Key /\ t \in Tree
      /\ \A f \in Side, m \in Key : t[f][m] \in S \cup {NULL}
  BY Basics
<1>1. n \in S \cup {NULL} /\ p \in S /\ d \in Side /\ t[d][p] = n /\ Heights(t, S, h, p, d)
  BY DEF Lacks
<1>2. Opp(d) \in Side /\ Opp(d) # d /\ Opp(Opp(d)) = d /\ \A f \in Side : f = d \/ f = Opp(d)
  BY <1>1, Sides
<1>3. At(t, h, p, d, p, d) /\ At(t, h, p, d, p, Opp(d)) /\ h \in [Key -> Nat]
  BY <1>1, <1>2 DEF Heights
<1>4. h[p] = Ht(h, n) + t.color[p] + 1 /\ h[p] = Ht(h, o) + t.color[p]
  BY <1>1, <1>2, <1>3 DEF At
<1>5. o \in S \cup {NULL} /\ p \in Key
  BY <1>0, <1>1, <1>2
<1>6. Ht(h, n) \in Nat /\ Ht(h, o) \in Nat /\ t.color[p] \in {0, 1} /\ Ht(h, NULL) = 0
  BY <1>0, <1>1, <1>3, <1>5 DEF Ht, Tree, RED, BLACK
<1> HIDE DEF o
<1>7. Ht(h, o) = Ht(h, n) + 1
  BY <1>4, <1>6
<1>8. o # NULL
  <2> SUFFICES ASSUME o = NULL
               PROVE  FALSE
    OBVIOUS
  <2>1. Ht(h, o) = 0
    BY <1>6
  <2> QED
    BY <1>6, <1>7, <2>1
<1>9. h[o] = Ht(h, n) + 1 /\ o \in S
  BY <1>5, <1>7, <1>8 DEF Ht
<1>10. /\ o # p /\ o # t.root /\ t.parent[o] = p /\ t.parent[p] # o /\ t[d][p] # o
  BY <1>1, <1>2, <1>8, KidFacts DEF o
<1>11. n # p
  BY <1>0, <1>1, KidFacts
<1>12. t.parent[p] # p
  BY <1>1, NodeFacts
<1>13. ASSUME NEW f \in Side, NEW m \in S, t[f][m] = o
       PROVE  m = p /\ f = Opp(d)
  <2>1. t.parent[o] = m
    BY <1>8, <1>13, KidFacts
  <2> QED
    BY <1>2, <1>10, <1>13, <2>1
<1>14. ASSUME NEW f \in Side
       PROVE  t[f][o] \in S \cup {NULL} /\ t[f][o] # o /\ t[f][o] # p /\ (t[f][o] # NULL => t[f][o] # n)
  <2>1. CASE t[f][o] = NULL
    BY <1>0, <1>1, <1>9, <2>1
  <2>2. CASE t[f][o] # NULL
    <3>1. t[f][o] \in S /\ t.parent[t[f][o]] = o /\ t[f][o] # o
      BY <1>9, <2>2, KidFacts
    <3>2. n # NULL => t.parent[n] = p
      BY <1>1, KidFacts
    <3> QED
      BY <1>10, <2>2, <3>1, <3>2
  <2> QED
    BY <2>1, <2>2
<1>15. Other(t, S, n, p, d, o)
  <2>1. o = t[Opp(d)][p]
    BY DEF o
  <2>2. o # n
    BY <1>1, <1>10
  <2> QED
    BY <1>2, <1>9, <1>10, <1>11, <1>12, <1>13, <1>14, <2>1, <2>2 DEF Other
<1> QED
  BY <1>9, <1>15 DEF o

\* The loop's test of the side (rbtree.c:128): a missing left child is never
\* taken for a missing right child that is the node.
LEMMA LacksIs ==
  ASSUME NEW t, NEW S, NEW sub, Shape(t, S, sub), NEW h, NEW n, NEW p, InErase(t, S, h, n, p),
         Black(t, n), n # t.root
  PROVE  Lacks(t, S, h, n, p, IF t.left[p] = n THEN "left" ELSE "right")
<1> DEFINE d == IF t.left[p] = n THEN "left" ELSE "right"
<1>0. S \subseteq Key /\ NULL \notin Key /\ t \in Tree /\ t.left = t["left"] /\ t.right = t["right"]
  BY Basics, TreeTypes
<1>1. PICK e \in Side : t[e][p] = n /\ Heights(t, S, h, p, e)
  BY DEF InErase
<1>2. n \in S \cup {NULL} /\ p \in S /\ (Black(t, t.root) \/ t.root = n)
      /\ \A m \in S, f \in Side : Clash(t, m, f) => m = n \/ t[f][m] = n
  BY DEF InErase
<1>3. e = "left" \/ e = "right"
  BY DEF Side
<1>4. d \in Side /\ t[d][p] = n /\ (e # d => d = "left" /\ e = "right")
  BY <1>0, <1>1, <1>3 DEF Side
<1> HIDE DEF d
<1>5. d = e
  <2> SUFFICES ASSUME d # e
               PROVE  FALSE
    OBVIOUS
  <2>1. t["left"][p] = n /\ t["right"][p] = n /\ e = "right" /\ "left" \in Side /\ "right" \in Side
    BY <1>1, <1>4
  <2>2. n = NULL
    BY <1>2, <2>1, KidFacts DEF Opp
  <2>3. At(t, h, p, "right", p, "left") /\ At(t, h, p, "right", p, "right") /\ h \in [Key -> Nat]
    BY <1>1, <1>2, <2>1 DEF Heights
  <2>4. h[p] = Ht(h, NULL) + t.color[p] /\ h[p] = Ht(h, NULL) + t.color[p] + 1
    BY <2>1, <2>2, <2>3 DEF At
  <2>5. Ht(h, NULL) = 0 /\ t.color[p] \in {0, 1}
    BY <1>0, <1>2 DEF Ht, Tree, RED, BLACK
  <2> QED
    BY <2>4, <2>5
<1>6. \A m \in S, f \in Side : ~Clash(t, m, f)
  BY <1>2 DEF Clash, Black
<1>7. Lacks(t, S, h, n, p, d)
  BY <1>1, <1>2, <1>4, <1>5, <1>6 DEF Lacks
<1> QED
  BY <1>7 DEF d

\* A red sibling is rotated away (rbtree.c:130-135): the node keeps its parent
\* and its side and gets a black sibling.
LEMMA SiblingTurn ==
  ASSUME NEW t, NEW S, NEW sub, Shape(t, S, sub), NEW h, NEW n, NEW p, NEW d,
         Lacks(t, S, h, n, p, d), NEW o, Other(t, S, n, p, d, o), Red(t, o),
         NEW u, u = Rotate(Paint(Paint(t, o, BLACK), p, RED), d, p)
  PROVE  /\ \E w, k : Shape(u, S, w) /\ Lacks(u, S, k, n, p, d)
         /\ Black(u, u[Opp(d)][p]) /\ SameOutside(t, u, S)
<1> DEFINE v == Paint(Paint(t, o, BLACK), p, RED)
           k == [h EXCEPT ![p] = h[o], ![o] = h[p]]
           i == t[d][o]
<1>0. t \in Tree /\ S \subseteq Key /\ NULL \notin Key /\ S \in SUBSET Key
      /\ BLACK \in {RED, BLACK} /\ RED \in {RED, BLACK} /\ RED # BLACK
  BY Basics DEF RED, BLACK
<1>1. /\ n \in S \cup {NULL} /\ p \in S /\ d \in Side /\ t[d][p] = n
      /\ Heights(t, S, h, p, d) /\ \A m \in S, f \in Side : ~Clash(t, m, f)
      /\ Black(t, t.root) /\ Black(t, n) /\ n # t.root
  BY DEF Lacks
<1>2. /\ o = t[Opp(d)][p] /\ o \in S /\ o # p /\ o # n /\ o # t.root /\ n # p
      /\ Opp(d) \in Side /\ Opp(d) # d /\ \A f \in Side : f = d \/ f = Opp(d)
  BY DEF Other
<1>3. SameLinks(t, v) /\ \A m \in Key : v.color[m] = IF m = p THEN RED ELSE IF m = o THEN BLACK ELSE t.color[m]
  <2>1. p \in Key /\ o \in Key
    BY <1>0, <1>1, <1>2
  <2> QED
    BY <1>0, <2>1, TwoPaints
<1> HIDE DEF v
<1>4. Turned(t, S, d, p, v, u) /\ Shape(u, S, RotSub(v, d, p, sub)) /\ SameOutside(t, u, S)
  <2>1. t[Opp(d)][p] # NULL /\ u = Rotate(v, d, p)
    BY <1>0, <1>2 DEF v
  <2> QED
    BY <1>1, <1>3, <2>1, TurnedIs
<1>5. /\ u \in Tree /\ u.color = v.color /\ u.root = (IF p = t.root THEN o ELSE t.root)
      /\ u[d][p] = n /\ u[Opp(d)][p] = i /\ i # p /\ i # o /\ i \in S \cup {NULL}
      /\ \A m \in S, f \in Side : m # p /\ m # o =>
           /\ u[f][m] = (IF t[f][m] = p THEN o ELSE t[f][m])
           /\ t[f][m] \in S \cup {NULL} /\ t[f][m] # o
  BY <1>1, <1>2, <1>4 DEF Turned
<1>c. t.color[o] = RED /\ t.color[p] = BLACK
  <2>1. t.color[o] = RED
    BY DEF Red
  <2>2. ~Red(t, p)
    BY <1>1, <1>2 DEF Clash
  <2> QED
    BY <1>0, <1>1, <2>1, <2>2, ColourFacts
<1>6. Heights(u, S, k, p, d)
  <2>1. v.color[p] = RED /\ v.color[o] = BLACK /\ \A m \in Key \ {p, o} : v.color[m] = t.color[m]
    BY <1>0, <1>1, <1>2, <1>3
  <2> HIDE DEF k
  <2>2. Heights(u, S, [h EXCEPT ![p] = h[o], ![o] = h[p]], p, d)
    BY <1>0, <1>1, <1>2, <1>4, <1>c, <2>1, SwapHeights
  <2> QED
    BY <2>2 DEF k
<1>7. \A m \in S \cup {NULL} : /\ m # p /\ m # o => (Red(u, m) <=> Red(t, m))
                               /\ m = o => ~Red(u, m)
  BY <1>0, <1>2, <1>3, <1>5 DEF Red
<1>8. ~Red(u, n) /\ ~Red(u, i)
  <2>1. ~Red(t, i)
    BY <1>1, <1>2 DEF Clash
  <2> QED
    BY <1>1, <1>2, <1>5, <1>7, <2>1 DEF Black
<1>9. ASSUME NEW m \in S, NEW f \in Side
      PROVE  ~Clash(u, m, f)
  <2> SUFFICES ASSUME Red(u, m), Red(u, u[f][m])
               PROVE  FALSE
    BY DEF Clash
  <2>1. CASE m = p
    BY <1>2, <1>5, <1>8, <2>1
  <2>2. CASE m = o
    BY <1>7, <2>2
  <2>3. CASE m # p /\ m # o
    <3>1. t[f][m] # p
      BY <1>2, <1>5, <1>7, <2>3
    <3>2. Clash(t, m, f)
      BY <1>5, <1>7, <2>3, <3>1 DEF Clash
    <3> QED
      BY <1>1, <3>2
  <2> QED
    BY <2>1, <2>2, <2>3
<1>10. ~Red(u, u.root) /\ n # u.root
  <2>1. t.root \in S
    BY <1>1, NodeFacts
  <2> QED
    BY <1>1, <1>2, <1>5, <1>7, <2>1 DEF Black
<1>11. Lacks(u, S, k, n, p, d)
  <2> HIDE DEF k
  <2> QED
    BY <1>1, <1>5, <1>6, <1>8, <1>9, <1>10 DEF Lacks, Black
<1> QED
  BY <1>4, <1>5, <1>8, <1>11 DEF Black

\* The sibling before the cases of the loop: black, whether or not it had to
\* be rotated (rbtree.c:129-135, 156-162).
LEMMA SiblingIs ==
  ASSUME NEW t, NEW S, NEW sub, Shape(t, S, sub), NEW h, NEW n, NEW p, NEW d,
         Lacks(t, S, h, n, p, d), NEW o, o = t[Opp(d)][p],
         NEW u, u = IF Red(t, o) THEN Rotate(Paint(Paint(t, o, BLACK), p, RED), d, p) ELSE t
  PROVE  /\ \E w, k : Shape(u, S, w) /\ Lacks(u, S, k, n, p, d)
         /\ Other(u, S, n, p, d, u[Opp(d)][p]) /\ Black(u, u[Opp(d)][p]) /\ SameOutside(t, u, S)
<1>1. Other(t, S, n, p, d, o)
  BY OtherIs
<1>2. /\ \E w, k : Shape(u, S, w) /\ Lacks(u, S, k, n, p, d)
      /\ Black(u, u[Opp(d)][p]) /\ SameOutside(t, u, S)
  <2>1. CASE Red(t, o)
    BY <1>1, <2>1, SiblingTurn
  <2>2. CASE ~Red(t, o)
    BY <2>2 DEF Black, SameOutside
  <2> QED
    BY <2>1, <2>2
<1>3. Other(u, S, n, p, d, u[Opp(d)][p])
  BY <1>2, OtherIs
<1> QED
  BY <1>2, <1>3

\* A black sibling without a red child turns red: what was lacking on one side
\* of the parent now lacks on both, and the loop climbs (rbtree.c:136-140,
\* 163-167).
LEMMA ClimbKeeps ==
  ASSUME NEW t, NEW S, NEW sub, Shape(t, S, sub), NEW h, NEW n, NEW p, NEW d,
         Lacks(t, S, h, n, p, d), NEW o, Other(t, S, n, p, d, o), Black(t, o),
         \A f \in Side : Black(t, t[f][o]), NEW u, u = Paint(t, o, RED)
  PROVE  /\ Shape(u, S, sub) /\ \E k : InErase(u, S, k, p, t.parent[p])
         /\ SameOutside(t, u, S)
<1> DEFINE k == [h EXCEPT ![o] = h[o] - 1, ![p] = h[p] - 1]
           x == IF p = t.root THEN NULL ELSE t.parent[p]
           e == IF p = t.root THEN "left" ELSE SideOf(t, p)
<1>0. /\ t \in Tree /\ S \subseteq Key /\ NULL \notin Key
      /\ \A f \in Side, m \in Key : t[f][m] \in S \cup {NULL}
      /\ RED \in {RED, BLACK} /\ RED # BLACK
  BY Basics DEF RED, BLACK
<1>1. /\ n \in S \cup {NULL} /\ p \in S /\ d \in Side /\ t[d][p] = n
      /\ Heights(t, S, h, p, d) /\ \A m \in S, f \in Side : ~Clash(t, m, f)
      /\ Black(t, t.root) /\ Black(t, n) /\ n # t.root
  BY DEF Lacks
<1>2. /\ o = t[Opp(d)][p] /\ o \in S /\ o # p /\ o # n /\ o # t.root /\ n # p
      /\ t.parent[p] # o /\ t.parent[p] # p
      /\ Opp(d) \in Side /\ Opp(d) # d
      /\ \A f \in Side : f = d \/ f = Opp(d)
      /\ \A f \in Side, m \in S : t[f][m] = o => m = p /\ f = Opp(d)
      /\ \A f \in Side : t[f][o] \in S \cup {NULL} /\ t[f][o] # o /\ t[f][o] # p
  <2>1. /\ o = t[Opp(d)][p] /\ o \in S /\ o # p /\ o # n /\ o # t.root /\ n # p
        /\ t.parent[p] # o /\ t.parent[p] # p
        /\ Opp(d) \in Side /\ Opp(d) # d /\ \A f \in Side : f = d \/ f = Opp(d)
    BY DEF Other
  <2>2. \A f \in Side, m \in S : t[f][m] = o => m = p /\ f = Opp(d)
    BY DEF Other
  <2>3. \A f \in Side : t[f][o] \in S \cup {NULL} /\ t[f][o] # o /\ t[f][o] # p
    BY DEF Other
  <2> QED
    BY <2>1, <2>2, <2>3
<1>3. SameLinks(t, u) /\ \A m \in Key : u.color[m] = IF m = o THEN RED ELSE t.color[m]
  <2>1. t \in Tree /\ o \in Key /\ RED \in {RED, BLACK}
    BY <1>0, <1>2
  <2>2. SameLinks(t, t)
    BY <2>1, LinksOfSelf
  <2> QED
    BY <2>1, <2>2, LinksOfPaint
<1>4. Shape(u, S, sub) /\ SameOutside(t, u, S)
  BY <1>3, ShapeOfSame
<1>5. u \in Tree /\ u.root = t.root /\ \A f \in Side, m \in S : u[f][m] = t[f][m]
  BY <1>0, <1>3 DEF SameLinks
<1>6. h[o] = Ht(h, n) + 1 /\ h \in [Key -> Nat] /\ \A m \in S, f \in Side : At(t, h, p, d, m, f)
  BY <1>1, <1>2, OtherIs DEF Heights
<1>7. /\ \A m \in S : m \in Key /\ m # NULL /\ h[m] \in Nat /\ t.color[m] \in {0, 1}
      /\ \A m \in S \cup {NULL} : Ht(h, m) \in Nat
  BY <1>0, <1>6 DEF Tree, RED, BLACK, Ht
<1>8. h[p] = Ht(h, n) + t.color[p] + 1 /\ h[p] = h[o] + t.color[p]
  <2>1. At(t, h, p, d, p, d) /\ At(t, h, p, d, p, Opp(d))
    BY <1>1, <1>2, <1>6
  <2>2. Ht(h, o) = h[o]
    BY <1>2, <1>7 DEF Ht
  <2> QED
    BY <1>1, <1>2, <2>1, <2>2 DEF At
<1>9. h[o] - 1 \in Nat /\ h[p] - 1 \in Nat
  BY <1>1, <1>6, <1>7, <1>8
<1>10. /\ k \in [Key -> Nat] /\ k[o] = h[o] - 1 /\ k[p] = h[p] - 1
       /\ \A m \in Key : m # o /\ m # p => k[m] = h[m]
  BY <1>1, <1>2, <1>6, <1>7, <1>9
<1> HIDE DEF k
<1>11. /\ \A m \in S \cup {NULL} : m # o /\ m # p => Ht(k, m) = Ht(h, m)
       /\ Ht(k, o) = h[o] - 1 /\ Ht(k, p) = h[p] - 1 /\ Ht(h, o) = h[o] /\ Ht(h, p) = h[p]
  BY <1>1, <1>2, <1>7, <1>10 DEF Ht
<1>12. ASSUME NEW m \in S, NEW f \in Side
       PROVE  t[f][m] = p <=> m = x /\ f = e
  <2>1. CASE p = t.root
    BY <1>1, <1>7, <2>1, KidFacts
  <2>2. CASE p # t.root
    <3>1. e \in Side /\ t[e][x] = p /\ t[Opp(e)][x] # p
      BY <1>1, <2>2, SideOfIs
    <3>2. t[f][m] = p => m = x
      BY <1>1, <1>7, <2>2, KidFacts
    <3>3. f = e \/ f = Opp(e)
      BY <3>1, Sides
    <3> QED
      BY <3>1, <3>2, <3>3
  <2> QED
    BY <2>1, <2>2
<1>13. x # o /\ x # p /\ (p # t.root => x \in S /\ e \in Side /\ t[e][x] = p /\ x = t.parent[p])
       /\ (p = t.root => x = NULL /\ e = "left")
  BY <1>1, <1>2, <1>7, SideOfIs
<1> HIDE DEF x, e
<1>14. ASSUME NEW m \in S, NEW f \in Side
       PROVE  At(u, k, x, e, m, f)
  <2>0. At(t, h, p, d, m, f) /\ u[f][m] = t[f][m] /\ m \in Key /\ t[f][m] \in S \cup {NULL}
    BY <1>0, <1>5, <1>6
  <2>1. CASE m = o
    <3>1. h[o] = Ht(h, t[f][o]) + 1
      <4>1. t.color[o] = 1
        BY <1>0, <1>2, ColourFacts DEF BLACK
      <4> QED
        BY <1>2, <2>0, <2>1, <4>1 DEF At
    <3>2. Ht(k, t[f][o]) = Ht(h, t[f][o]) /\ u.color[o] = 0
      BY <1>2, <1>3, <1>7, <1>11 DEF RED
    <3>3. Ht(h, t[f][o]) \in Nat
      BY <1>2, <1>7
    <3>4. k[o] = Ht(k, t[f][o]) + u.color[o]
      BY <1>10, <3>1, <3>2, <3>3
    <3> QED
      BY <1>13, <2>0, <2>1, <3>4 DEF At
  <2>2. CASE m = p /\ f = d
    <3>1. Ht(k, n) = Ht(h, n) /\ u.color[p] = t.color[p] /\ Ht(h, n) \in Nat /\ t.color[p] \in {0, 1}
      BY <1>1, <1>2, <1>3, <1>7, <1>11
    <3>2. k[p] = Ht(k, n) + u.color[p]
      BY <1>8, <1>10, <3>1
    <3> QED
      BY <1>1, <1>13, <2>0, <2>2, <3>2 DEF At
  <2>3. CASE m = p /\ f # d
    <3>1. u.color[p] = t.color[p] /\ h[o] \in Nat /\ t.color[p] \in {0, 1} /\ t[f][m] = o
      BY <1>1, <1>2, <1>3, <1>7, <2>3
    <3>2. k[p] = Ht(k, o) + u.color[p]
      BY <1>8, <1>10, <1>11, <3>1
    <3> QED
      BY <1>13, <2>0, <2>3, <3>1, <3>2 DEF At
  <2>4. CASE m # o /\ m # p
    <3>1. h[m] = Ht(h, t[f][m]) + t.color[m]
      BY <2>0, <2>4 DEF At
    <3>2. k[m] = h[m] /\ u.color[m] = t.color[m] /\ t[f][m] # o
      BY <1>2, <1>3, <1>10, <2>0, <2>4
    <3>3. CASE t[f][m] = p
      <4>1. h[p] \in Nat /\ t.color[m] \in {0, 1} /\ Ht(k, p) = h[p] - 1
        BY <1>1, <1>7, <1>11
      <4>2. h[m] = h[p] + t.color[m]
        BY <1>11, <3>1, <3>3
      <4>3. k[m] = Ht(k, p) + u.color[m] + 1
        BY <3>2, <4>1, <4>2
      <4> QED
        BY <1>12, <2>0, <3>3, <4>3 DEF At
    <3>4. CASE t[f][m] # p
      <4>1. Ht(k, t[f][m]) = Ht(h, t[f][m])
        BY <1>11, <2>0, <3>2, <3>4
      <4> QED
        BY <1>12, <2>0, <3>1, <3>2, <3>4, <4>1 DEF At
    <3> QED
      BY <3>3, <3>4
  <2> QED
    BY <2>1, <2>2, <2>3, <2>4
<1>15. Heights(u, S, k, x, e)
  BY <1>10, <1>14 DEF Heights
<1>16. \A m \in S \cup {NULL} : m # o => (Red(u, m) <=> Red(t, m))
  BY <1>3, <1>7 DEF Red
<1>17. ASSUME NEW m \in S, NEW f \in Side, Clash(u, m, f)
       PROVE  m = p \/ u[f][m] = p
  <2>0. Red(u, m) /\ Red(u, t[f][m]) /\ t[f][m] \in S \cup {NULL}
    BY <1>0, <1>5, <1>17 DEF Clash
  <2>1. CASE m = o
    <3>1. Red(t, t[f][o])
      BY <1>2, <1>16, <2>0, <2>1
    <3> QED
      BY <3>1 DEF Black
  <2>2. CASE m # o /\ t[f][m] = o
    BY <1>2, <2>2
  <2>3. CASE m # o /\ t[f][m] # o
    <3>1. Clash(t, m, f)
      BY <1>16, <2>0, <2>3 DEF Clash
    <3> QED
      BY <1>1, <3>1
  <2> QED
    BY <2>1, <2>2, <2>3
<1>18. Black(u, u.root)
  <2>1. t.root \in S
    BY <1>1, NodeFacts
  <2> QED
    BY <1>1, <1>2, <1>5, <1>16, <2>1 DEF Black
<1>19. InErase(u, S, k, p, t.parent[p])
  BY <1>1, <1>5, <1>13, <1>15, <1>17, <1>18 DEF InErase
<1> QED
  BY <1>4, <1>19

\* The sibling's only red child is the near one: it is rotated outwards
\* (rbtree.c:142-147, 169-174).
LEMMA NephewTurn ==
  ASSUME NEW t, NEW S, NEW sub, Shape(t, S, sub), NEW h, NEW n, NEW p, NEW d,
         Lacks(t, S, h, n, p, d), NEW o, Other(t, S, n, p, d, o), Black(t, o),
         NEW y, y = t[d][o], Red(t, y), ~Red(t, t[Opp(d)][o]),
         NEW u, u = Rotate(Paint(Paint(t, y, BLACK), o, RED), Opp(d), o)
  PROVE  /\ \E w, k : Shape(u, S, w) /\ Lacks(u, S, k, n, p, d)
         /\ u[Opp(d)][p] = y /\ Black(u, y) /\ Red(u, u[Opp(d)][y]) /\ SameOutside(t, u, S)
<1> DEFINE v == Paint(Paint(t, y, BLACK), o, RED)
           k == [h EXCEPT ![o] = h[y], ![y] = h[o]]
           g == Opp(d)
           i == t[g][y]
           a == t[g][o]
<1>0. t \in Tree /\ S \subseteq Key /\ NULL \notin Key /\ S \in SUBSET Key
      /\ BLACK \in {RED, BLACK} /\ RED \in {RED, BLACK} /\ RED # BLACK
  BY Basics DEF RED, BLACK
<1>1. /\ n \in S \cup {NULL} /\ p \in S /\ d \in Side /\ t[d][p] = n
      /\ Heights(t, S, h, p, d) /\ \A m \in S, f \in Side : ~Clash(t, m, f)
      /\ Black(t, t.root) /\ Black(t, n) /\ n # t.root
  BY DEF Lacks
<1>2. /\ o = t[g][p] /\ o \in S /\ o # p /\ o # n /\ o # t.root /\ n # p
      /\ g \in Side /\ g # d /\ Opp(g) = d /\ \A f \in Side : f = d \/ f = g
      /\ \A f \in Side : t[f][o] \in S \cup {NULL} /\ t[f][o] # o /\ t[f][o] # p /\ (t[f][o] # NULL => t[f][o] # n)
  BY DEF Other
<1>y. y \in S /\ y # NULL /\ y # o /\ y # p /\ y # n
  BY <1>0, <1>1, <1>2 DEF Red
<1>3. SameLinks(t, v) /\ \A m \in Key : v.color[m] = IF m = o THEN RED ELSE IF m = y THEN BLACK ELSE t.color[m]
  <2>1. y \in Key /\ o \in Key
    BY <1>0, <1>y, <1>2
  <2> QED
    BY <1>0, <2>1, TwoPaints
<1>g. g = Opp(d)
  OBVIOUS
<1> HIDE DEF v, g
<1>4. Turned(t, S, g, o, v, u) /\ Shape(u, S, RotSub(v, g, o, sub)) /\ SameOutside(t, u, S)
  <2>1. t[Opp(g)][o] # NULL /\ u = Rotate(v, g, o)
    BY <1>2, <1>y, <1>g DEF v
  <2> QED
    BY <1>2, <1>3, <2>1, TurnedIs
<1>5. /\ u \in Tree /\ u.color = v.color /\ u.root = t.root /\ y # t.root
      /\ u[g][o] = a /\ u[d][o] = i /\ u[g][y] = o
      /\ a # o /\ a # y /\ a \in S \cup {NULL}
      /\ i # o /\ i # y /\ i \in S \cup {NULL}
      /\ \A m \in S, f \in Side : m # o /\ m # y =>
           /\ u[f][m] = (IF t[f][m] = o THEN y ELSE t[f][m])
           /\ t[f][m] \in S \cup {NULL} /\ t[f][m] # y
  <2>1. t[Opp(g)][o] = y /\ Opp(g) = d
    BY <1>2
  <2>2. Turned(t, S, g, o, v, u)
    BY <1>4
  <2> HIDE DEF i, a
  <2>3. /\ u \in Tree /\ u.color = v.color /\ u.root = t.root /\ y # t.root
        /\ u[g][o] = t[g][o] /\ u[d][o] = t[g][y] /\ u[g][y] = o
    BY <1>2, <2>1, <2>2 DEF Turned
  <2>4. /\ t[g][o] # o /\ t[g][o] # y /\ t[g][o] \in S \cup {NULL}
        /\ t[g][y] # o /\ t[g][y] # y /\ t[g][y] \in S \cup {NULL}
    BY <2>1, <2>2 DEF Turned
  <2>5. \A m \in S, f \in Side : m # o /\ m # y =>
           /\ u[f][m] = (IF t[f][m] = o THEN y ELSE t[f][m])
           /\ t[f][m] \in S \cup {NULL} /\ t[f][m] # y
    BY <2>1, <2>2 DEF Turned
  <2> QED
    BY <2>3, <2>4, <2>5 DEF i, a
<1>c. t.color[y] = RED /\ t.color[o] = BLACK
  BY <1>0, <1>2, ColourFacts DEF Red
<1>6. Heights(u, S, k, p, d)
  <2>1. v.color[o] = RED /\ v.color[y] = BLACK /\ \A m \in Key \ {o, y} : v.color[m] = t.color[m]
    BY <1>0, <1>2, <1>3, <1>y
  <2>2. y = t[Opp(g)][o]
    BY <1>2
  <2> HIDE DEF k
  <2>3. p # y /\ (p = o => d = g) /\ g \in Side /\ o \in S /\ Turned(t, S, g, o, v, u)
    BY <1>2, <1>4, <1>y
  <2>4. Heights(u, S, [h EXCEPT ![o] = h[y], ![y] = h[o]], p, d)
    BY <1>0, <1>1, <1>c, <2>1, <2>2, <2>3, SwapHeights
  <2> QED
    BY <2>4 DEF k
<1>7. \A m \in S \cup {NULL} : /\ m # o /\ m # y => (Red(u, m) <=> Red(t, m))
                               /\ m = y => ~Red(u, m)
                               /\ m = o => Red(u, m)
  <2>1. u.color = v.color /\ o \in Key /\ o # NULL /\ y \in Key /\ \A m \in S : m \in Key
    BY <1>0, <1>2, <1>5, <1>y
  <2>2. v.color[o] = RED /\ v.color[y] = BLACK /\ \A m \in S : m # o /\ m # y => v.color[m] = t.color[m]
    BY <1>3, <1>y, <2>1
  <2> QED
    BY <1>0, <2>1, <2>2 DEF Red
<1>8. ~Red(u, n) /\ ~Red(u, i) /\ ~Red(u, a) /\ ~Red(u, y) /\ Red(u, o)
  <2>1. ~Red(t, i)
    BY <1>1, <1>2, <1>y DEF Clash
  <2>2. ~Red(t, a)
    BY <1>g
  <2> QED
    BY <1>1, <1>2, <1>5, <1>7, <1>y, <2>1, <2>2 DEF Black
<1>9. ASSUME NEW m \in S, NEW f \in Side
      PROVE  ~Clash(u, m, f)
  <2> SUFFICES ASSUME Red(u, m), Red(u, u[f][m])
               PROVE  FALSE
    BY DEF Clash
  <2>1. CASE m = o
    <3>1. u[f][o] = a \/ u[f][o] = i
      BY <1>2, <1>5
    <3> QED
      BY <1>8, <2>1, <3>1
  <2>2. CASE m = y
    BY <1>8, <2>2
  <2>3. CASE m # o /\ m # y
    <3>1. t[f][m] # o
      BY <1>5, <1>8, <2>3
    <3>2. Clash(t, m, f)
      BY <1>5, <1>7, <2>3, <3>1 DEF Clash
    <3> QED
      BY <1>1, <3>2
  <2> QED
    BY <2>1, <2>2, <2>3
<1>10. ~Red(u, u.root) /\ n # u.root
  <2>1. t.root \in S
    BY <1>1, NodeFacts
  <2> QED
    BY <1>1, <1>2, <1>5, <1>7, <2>1 DEF Black
<1>11. u[d][p] = n /\ u[g][p] = y
  BY <1>1, <1>2, <1>5, <1>y
<1>12. Lacks(u, S, k, n, p, d)
  <2> HIDE DEF k
  <2> QED
    BY <1>1, <1>6, <1>8, <1>9, <1>10, <1>11 DEF Lacks, Black
<1> QED
  BY <1>4, <1>5, <1>8, <1>11, <1>12, <1>g DEF Black

\* The sibling takes the parent's place and colour; with that nothing lacks
\* any more, and the loop ends at the root (rbtree.c:148-153, 175-180).
LEMMA FinalTurn ==
  ASSUME NEW t, NEW S, NEW sub, Shape(t, S, sub), NEW h, NEW n, NEW p, NEW d,
         Lacks(t, S, h, n, p, d), NEW o, Other(t, S, n, p, d, o), Black(t, o),
         NEW c, c = t[Opp(d)][o], Red(t, c),
         NEW u, u = Rotate(Paint(Paint(Paint(t, o, t.color[p]), p, BLACK), c, BLACK), d, p)
  PROVE  \E w, k : /\ Shape(u, S, w)
                   /\ u.root \in S
                   /\ \A q : InErase(u, S, k, u.root, q)
                   /\ SameOutside(t, u, S)
<1> DEFINE v == Paint(Paint(Paint(t, o, t.color[p]), p, BLACK), c, BLACK)
           k == [h EXCEPT ![p] = h[o], ![o] = h[p], ![c] = h[o]]
<1>0. t \in Tree /\ S \subseteq Key /\ NULL \notin Key /\ S \in SUBSET Key
      /\ BLACK \in {RED, BLACK} /\ RED \in {RED, BLACK} /\ RED # BLACK
  BY Basics DEF RED, BLACK
<1>1. /\ n \in S \cup {NULL} /\ p \in S /\ d \in Side /\ t[d][p] = n
      /\ Heights(t, S, h, p, d) /\ \A m \in S, f \in Side : ~Clash(t, m, f)
  BY DEF Lacks
<1>2. /\ o = t[Opp(d)][p] /\ o \in S /\ o # p
      /\ Opp(d) \in Side /\ Opp(d) # d /\ \A f \in Side : f = d \/ f = Opp(d)
      /\ t[Opp(d)][o] \in S \cup {NULL} /\ t[Opp(d)][o] # o /\ t[Opp(d)][o] # p
  BY DEF Other
<1>y. c \in S /\ c # NULL /\ c # o /\ c # p
  BY <1>0, <1>2 DEF Red
<1>3. SameLinks(t, v) /\ \A m \in Key : v.color[m] = IF m = c THEN BLACK ELSE IF m = p THEN BLACK
                                                     ELSE IF m = o THEN t.color[p] ELSE t.color[m]
  <2>1. p \in Key /\ o \in Key /\ c \in Key /\ t.color[p] \in Colour /\ BLACK \in Colour
    BY <1>0, <1>1, <1>2, <1>y, ColourFacts DEF Colour
  <2>2. v = Paint(Paint(Paint(t, o, t.color[p]), p, BLACK), c, BLACK)
    OBVIOUS
  <2>t. t \in Tree
    BY <1>0
  <2> HIDE DEF v
  <2>3. PaintedThree(t, o, t.color[p], p, BLACK, c, BLACK, v)
    BY <2>t, <2>1, <2>2, ThreePaints
  <2> QED
    BY <2>3 DEF PaintedThree
<1> HIDE DEF v
<1>4. Turned(t, S, d, p, v, u) /\ Shape(u, S, RotSub(v, d, p, sub)) /\ SameOutside(t, u, S)
  <2>1. t[Opp(d)][p] # NULL /\ u = Rotate(v, d, p)
    BY <1>0, <1>2 DEF v
  <2> QED
    BY <1>1, <1>3, <2>1, TurnedIs
<1>5. /\ u \in Tree /\ u.color = v.color
      /\ u[d][o] = p /\ u[Opp(d)][o] = c
      /\ \A m \in S, f \in Side : m # p /\ m # o =>
           /\ u[f][m] = (IF t[f][m] = p THEN o ELSE t[f][m])
           /\ t[f][m] \in S \cup {NULL} /\ t[f][m] # o
           /\ t[f][m] # NULL => t[f][m] # c
  <2>1. t[Opp(d)][p] = o /\ t[Opp(d)][o] = c /\ Turned(t, S, d, p, v, u)
    BY <1>2, <1>4
  <2>2. /\ u \in Tree /\ u.color = v.color
        /\ u[d][o] = p /\ u[Opp(d)][o] = c
    BY <2>1 DEF Turned
  <2>3. \A m \in S, f \in Side : m # p /\ m # o =>
           /\ u[f][m] = (IF t[f][m] = p THEN o ELSE t[f][m])
           /\ t[f][m] \in S \cup {NULL} /\ t[f][m] # o
           /\ t[f][m] # NULL => t[f][m] # c
    BY <2>1 DEF Turned
  <2> QED
    BY <2>2, <2>3
<1>c. t.color[c] = RED /\ t.color[o] = BLACK
  BY <1>0, <1>2, ColourFacts DEF Red
<1>6. Heights(u, S, k, NULL, "left")
  <2>1. /\ v.color[p] = BLACK /\ v.color[o] = t.color[p] /\ v.color[c] = BLACK
        /\ \A m \in Key \ {p, o, c} : v.color[m] = t.color[m]
    <3>1. p \in Key /\ o \in Key /\ c \in Key /\ o # p /\ c # o /\ c # p
      BY <1>0, <1>1, <1>2, <1>y
    <3>2. v.color[p] = BLACK /\ v.color[c] = BLACK
      BY <1>3, <3>1
    <3>3. v.color[o] = t.color[p]
      BY <1>3, <3>1
    <3>4. \A m \in Key \ {p, o, c} : v.color[m] = t.color[m]
      BY <1>3
    <3> QED
      BY <3>2, <3>3, <3>4
  <2> HIDE DEF k
  <2>2. Heights(u, S, [h EXCEPT ![p] = h[o], ![o] = h[p], ![c] = h[o]], NULL, "left")
    <3>1. t \in Tree /\ S \in SUBSET Key /\ p \in S /\ d \in Side /\ Heights(t, S, h, p, d)
      BY <1>0, <1>1
    <3>2. Turned(t, S, d, p, v, u) /\ o = t[Opp(d)][p] /\ c = t[Opp(d)][o] /\ c # NULL
      BY <1>2, <1>4, <1>y
    <3> QED
      BY <1>c, <2>1, <3>1, <3>2, FinalHeights
  <2> QED
    BY <2>2 DEF k
<1>7. \A m \in S \cup {NULL} : /\ m # p /\ m # o /\ m # c => (Red(u, m) <=> Red(t, m))
                               /\ m = p \/ m = c => ~Red(u, m)
                               /\ m = o => (Red(u, m) <=> Red(t, p))
  <2>1. /\ p # NULL /\ o # NULL /\ c # NULL /\ RED # BLACK
        /\ S \subseteq Key /\ p \in Key /\ o \in Key /\ c \in Key /\ c # o /\ c # p /\ o # p
    BY <1>0, <1>1, <1>2, <1>y
  <2>2. /\ u.color[p] = BLACK /\ u.color[c] = BLACK /\ u.color[o] = t.color[p]
    BY <1>3, <1>5, <2>1
  <2>3. \A m \in Key : m # p /\ m # o /\ m # c => u.color[m] = t.color[m]
    BY <1>3, <1>5
  <2> QED
    BY <2>1, <2>2, <2>3 DEF Red
<1>9. ASSUME NEW m \in S, NEW f \in Side
      PROVE  ~Clash(u, m, f)
  <2> SUFFICES ASSUME Red(u, m), Red(u, u[f][m])
               PROVE  FALSE
    BY DEF Clash
  <2>1. CASE m = p \/ m = c
    BY <1>7, <2>1
  <2>2. CASE m = o
    <3>1. u[f][m] = p \/ u[f][m] = c
      BY <1>2, <1>5, <2>2
    <3> QED
      BY <1>1, <1>7, <1>y, <3>1
  <2>3. CASE m # p /\ m # o /\ m # c
    <3>1. CASE t[f][m] = p
      <4>1. Clash(t, m, f)
        BY <1>2, <1>5, <1>7, <2>3, <3>1 DEF Clash
      <4> QED
        BY <1>1, <4>1
    <3>2. CASE t[f][m] # p
      <4>1. u[f][m] = t[f][m] /\ t[f][m] # NULL
        BY <1>5, <2>3, <3>2 DEF Red
      <4>2. Clash(t, m, f)
        BY <1>5, <1>7, <2>3, <3>2, <4>1 DEF Clash
      <4> QED
        BY <1>1, <4>2
    <3> QED
      BY <3>1, <3>2
  <2> QED
    BY <2>1, <2>2, <2>3
<1>10. u.root \in S
  BY <1>1, <1>4, NodeFacts
<1>11. \A q : InErase(u, S, k, u.root, q)
  <2> HIDE DEF k
  <2> QED
    BY <1>6, <1>9, <1>10 DEF InErase
<1> QED
  BY <1>4, <1>10, <1>11

\* The node at which __rb_erase_color ends turns black (rbtree.c:184-185).
LEMMA EraseEnds ==
  ASSUME NEW t, NEW S, NEW sub, Shape(t, S, sub), NEW h, NEW n, NEW p, InErase(t, S, h, n, p),
         ~(Black(t, n) /\ n # t.root),
         NEW u, u = IF n = NULL THEN t ELSE Paint(t, n, BLACK)
  PROVE  /\ Shape(u, S, sub) /\ \E k : Good(u, S, k)
         /\ SameOutside(t, u, S)
<1>0. t \in Tree /\ NULL \notin Key /\ S \subseteq Key /\ (t.root = NULL <=> S = {})
  BY Basics
<1>1. /\ n \in S \cup {NULL}
      /\ \A m \in S, f \in Side : Clash(t, m, f) => m = n \/ t[f][m] = n
      /\ Black(t, t.root) \/ t.root = n
  BY DEF InErase
<1>2. CASE n = NULL
  <2>1. Black(t, NULL)
    BY DEF Black, Red
  <2>2. n = t.root /\ S = {} /\ u = t
    BY <1>0, <1>2, <2>1
  <2>3. Heights(t, S, h, NULL, "left")
    BY <2>2 DEF InErase
  <2>4. Good(t, S, h)
    BY <1>2, <2>1, <2>2, <2>3 DEF Good
  <2> QED
    BY <2>2, <2>4 DEF SameOutside
<1>3. CASE n # NULL /\ n = t.root
  <2>1. Heights(t, S, h, NULL, "left") /\ n \in S
    BY <1>1, <1>3 DEF InErase
  <2> QED
    BY <1>1, <1>3, <2>1, BlackEnds
<1>4. CASE n # NULL /\ n # t.root
  <2>1. p \in S /\ \E e \in Side : t[e][p] = n /\ Heights(t, S, h, p, e)
    BY <1>4 DEF InErase
  <2>2. PICK e \in Side : t[e][p] = n /\ Heights(t, S, h, p, e)
    BY <2>1
  <2>3. n \in S /\ t.color[n] = RED
    BY <1>1, <1>4 DEF Black, Red
  <2> QED
    BY <1>1, <1>4, <2>1, <2>2, <2>3, BlackEnds
<1> QED
  BY <1>2, <1>3, <1>4

\* RB_CLEAR_NODE touches the deleted entry only, which is no longer in the tree
\* (breakpoint.c:283).
LEMMA ClearKeeps ==
  ASSUME NEW t, NEW S, NEW sub, Shape(t, S, sub), NEW h, Good(t, S, h), NEW k \in Key, k \notin S,
         Loose(t, S, k),
         NEW u, u = [t EXCEPT !.parent[k] = k, !.color[k] = RED, !.left[k] = NULL, !.right[k] = NULL]
  PROVE  Shape(u, S, sub) /\ Good(u, S, h) /\ Loose(u, S, NULL)
<1>0. /\ S \subseteq Key /\ NULL \notin Key /\ Ptr = Key \cup {NULL} /\ t \in Tree /\ Side = {"left", "right"}
      /\ \A e \in Side, m \in Key : t[e][m] \in S \cup {NULL}
      /\ t.root \in S \cup {NULL}
  BY Basics DEF Side
<1>1. /\ u \in Tree /\ u.root = t.root /\ u.parent[k] = k /\ u.left[k] = NULL /\ u.right[k] = NULL
      /\ \A m \in Key : m # k => /\ u.parent[m] = t.parent[m] /\ u.color[m] = t.color[m]
                                 /\ u.left[m] = t.left[m] /\ u.right[m] = t.right[m]
  BY <1>0 DEF Tree, RED, BLACK
<1>2. /\ \A f \in Side : u[f][k] = NULL
      /\ \A f \in Side, m \in Key : m # k => u[f][m] = t[f][m]
  <2>1. u.left = u["left"] /\ u.right = u["right"] /\ t.left = t["left"] /\ t.right = t["right"]
    BY <1>0, <1>1, TreeTypes
  <2> QED
    BY <1>0, <1>1, <2>1
<1>3. /\ \A m \in S : m \in Key /\ m # k /\ u.parent[m] = t.parent[m] /\ u.color[m] = t.color[m]
      /\ \A m \in S, f \in Side : u[f][m] = t[f][m]
  BY <1>0, <1>1, <1>2
<1>4. ASSUME NEW m \in S
      PROVE  IsNode(u, S, sub, m)
  <2>0. IsNode(t, S, sub, m) /\ (\A f \in Side : Opp(f) \in Side)
    BY Sides DEF Shape
  <2>1. \A f \in Side : t[f][m] # NULL => t[f][m] \in S
    BY <1>0, <1>3
  <2> QED
    BY <1>1, <1>3, <2>0, <2>1 DEF IsNode
<1>5. Shape(u, S, sub)
  <2>1. ASSUME NEW f \in Side, NEW m \in Key
        PROVE  u[f][m] \in S \cup {NULL}
    <3>1. u[f][m] = NULL \/ u[f][m] = t[f][m]
      BY <1>2
    <3>2. t[f][m] \in S \cup {NULL}
      BY Basics
    <3> QED
      BY <3>1, <3>2
  <2>2. u.root # NULL => u.root \in S /\ u.parent[u.root] = NULL
    BY <1>1, <1>3 DEF Shape
  <2> QED
    BY <1>1, <1>4, <2>1, <2>2 DEF Shape
<1>6. Good(u, S, h)
  <2>0. Heights(t, S, h, NULL, "left") /\ \A m \in S, f \in Side : ~Clash(t, m, f)
    BY DEF Good
  <2>1. Heights(u, S, h, NULL, "left")
    <3>1. \A m \in S : u.color[m] = t.color[m]
      BY <1>3
    <3>2. \A m \in S, f \in Side : u[f][m] = t[f][m]
      BY <1>3
    <3>3. ASSUME NEW m \in S, NEW f \in Side
          PROVE  At(u, h, NULL, "left", m, f)
      <4>1. At(t, h, NULL, "left", m, f)
        BY <2>0 DEF Heights
      <4>2. u[f][m] = t[f][m] /\ u.color[m] = t.color[m]
        BY <3>1, <3>2
      <4> QED
        BY <4>1, <4>2 DEF At
    <3> QED
      BY <2>0, <3>3 DEF Heights
  <2>2. \A m \in S \cup {NULL} : Red(u, m) <=> Red(t, m)
    BY <1>3 DEF Red
  <2>3. \A m \in S, f \in Side : ~Clash(u, m, f)
    <3> SUFFICES ASSUME NEW m \in S, NEW f \in Side, Clash(u, m, f)
                 PROVE  FALSE
      OBVIOUS
    <3>1. u[f][m] = t[f][m] /\ t[f][m] \in S \cup {NULL}
      BY <1>3, Basics
    <3>2. Clash(t, m, f)
      BY <2>2, <3>1 DEF Clash
    <3> QED
      BY <2>0, <3>2
  <2>4. Black(u, u.root)
    BY <1>0, <1>1, <2>2 DEF Good, Black
  <2> QED
    BY <2>1, <2>3, <2>4 DEF Good
<1>7. Loose(u, S, NULL)
  <2> SUFFICES ASSUME NEW m \in Key, m \notin S
               PROVE  u.parent[m] = m /\ \A d \in Side : u[d][m] = NULL
    BY DEF Loose
  <2>1. CASE m = k
    BY <1>1, <1>2, <2>1
  <2>2. CASE m # k
    BY <1>1, <1>2, <2>2 DEF Loose
  <2> QED
    BY <2>1, <2>2
<1> QED
  BY <1>5, <1>6, <1>7

-----------------------------------------------------------------------------
(***************************************************************************)
(* The inductive invariant.  S are the entries of the tree, sub their      *)
(* subtrees and h the number of black entries on the way down; none of the *)
(* three is in the code.                                                   *)
(***************************************************************************)
Inv(S, sub, h) ==
  /\ Shape(tree, S, sub) /\ Loose(tree, S, victim)
  /\ pc \in {"idle", "insert", "erase", "clear"} /\ node \in Ptr /\ parent \in Ptr
  /\ pc \in {"idle", "clear"} => Good(tree, S, h)
  /\ pc = "insert" => InInsert(tree, S, h, node)
  /\ pc = "erase" => InErase(tree, S, h, node, parent)
  /\ pc \in {"idle", "insert"} => victim = NULL
  /\ pc \in {"erase", "clear"} => victim \in Key \ S

\* The entries of the tree are S.
Holds(S) == \E sub, h : Inv(S, sub, h)

\* What a round leaves alone stays an empty node.
LEMMA LooseOf ==
  ASSUME NEW t, NEW S, NEW v, Loose(t, S, v), NEW u, SameOutside(t, u, S)
  PROVE  Loose(u, S, v)
  BY DEF Loose, SameOutside

\* breakpoint_init: the tree is empty.
LEMMA InitHolds ==
  ASSUME Init
  PROVE  Holds({})
<1> DEFINE sub == [n \in Key |-> {}]
           h == [n \in Key |-> 0]
<1>1. /\ tree \in Tree /\ tree.root = NULL /\ NULL \notin Key
      /\ \A n \in Key : tree.left[n] = NULL /\ tree.right[n] = NULL /\ tree.parent[n] = n
      /\ pc = "idle" /\ node = NULL /\ parent = NULL /\ victim = NULL
  BY KeyAssumption DEF Init, Tree, Ptr
<1>2. \A d \in Side, n \in Key : tree[d][n] = NULL
  <2>1. tree.left = tree["left"] /\ tree.right = tree["right"]
    BY <1>1, TreeTypes
  <2> QED
    BY <1>1, <2>1 DEF Side
<1>3. Shape(tree, {}, sub)
  BY <1>1, <1>2 DEF Shape, Of
<1>4. Loose(tree, {}, NULL)
  BY <1>1, <1>2 DEF Loose
<1>5. Good(tree, {}, h)
  BY <1>1 DEF Good, Heights, Black, Red
<1>6. Inv({}, sub, h)
  BY <1>1, <1>3, <1>4, <1>5 DEF Inv, Ptr
<1> QED
  BY <1>6 DEF Holds

\* breakpoint_rb_search_insert of an address that is not in the tree.
LEMMA InsertHolds ==
  ASSUME NEW S, Holds(S), NEW k \in Key, Insert(k)
  PROVE  k \notin S /\ Holds(S \cup {k})'
<1>1. PICK sub, h : Inv(S, sub, h)
  BY DEF Holds
<1>2. /\ Shape(tree, S, sub) /\ Loose(tree, S, NULL) /\ Good(tree, S, h) /\ victim = NULL
      /\ parent \in Ptr
  BY <1>1 DEF Inv, Insert
<1>3. k \notin S /\ k \in Ptr
  BY <1>2, FindIs, KeyAssumption DEF Insert, Ptr
<1>4. tree' = rb_link_node(tree, k, Descend(tree, k)) /\ pc' = "insert" /\ node' = k
      /\ parent' = parent /\ victim' = victim
  BY DEF Insert
<1>5. PICK w, j : /\ Shape(tree', S \cup {k}, w) /\ InInsert(tree', S \cup {k}, j, k)
                  /\ SameOutside(tree, tree', S \cup {k})
  BY <1>2, <1>3, <1>4, LinkKeeps
<1>6. Loose(tree', S \cup {k}, NULL)
  BY <1>2, <1>5 DEF Loose, SameOutside
<1>7. Inv(S \cup {k}, w, j)'
  BY <1>2, <1>3, <1>4, <1>5, <1>6 DEF Inv
<1> QED
  BY <1>3, <1>7 DEF Holds

\* One round of rb_insert_color with a red uncle.
LEMMA InsertRecolourHolds ==
  ASSUME NEW S, Holds(S), InsertRecolour
  PROVE  Holds(S)'
<1> DEFINE n == node
           p == tree.parent[node]
           g == tree.parent[p]
           d == SideOf(tree, p)
           y == tree[Opp(d)][g]
<1>1. PICK sub, h : Inv(S, sub, h)
  BY DEF Holds
<1>2. /\ Shape(tree, S, sub) /\ Loose(tree, S, NULL) /\ InInsert(tree, S, h, node) /\ victim = NULL
      /\ parent \in Ptr
  BY <1>1 DEF Inv, InsertRecolour, InsertLoops
<1>3. /\ Red(tree, p) /\ Red(tree, y) /\ pc = "insert"
      /\ tree' = Paint(Paint(Paint(tree, y, BLACK), p, BLACK), g, RED)
      /\ pc' = pc /\ node' = g /\ parent' = parent /\ victim' = victim
  BY DEF InsertRecolour, InsertLoops, Uncle, GParent
<1>4. Around(tree, S, node, p, g, d)
  BY <1>2, <1>3, AroundIs
<1>o. y = tree[Opp(d)][g]
  OBVIOUS
<1> HIDE DEF p, g, d, y
<1>5. tree \in Tree /\ p \in Key /\ g \in Key /\ y \in Key /\ p # g /\ y # g /\ g \in Ptr
  <2>1. p \in S /\ g \in S /\ p # g /\ d \in Side
    BY <1>4 DEF Around
  <2>2. Opp(d) \in Side /\ y # NULL
    BY <1>3, <2>1, Sides DEF Red
  <2>3. y \in S /\ y # g
    BY <1>2, <1>o, <2>1, <2>2, KidFacts
  <2> QED
    BY <1>2, <2>1, <2>3, Basics
<1>6. PaintedThree(tree, y, BLACK, p, BLACK, g, RED, tree')
  BY <1>3, <1>5, ThreePaints DEF Colour
<1>7. SameLinks(tree, tree') /\ \A m \in Key : tree'.color[m] = IF m = g THEN RED ELSE IF m = p \/ m = y THEN BLACK
                                      ELSE tree.color[m]
  BY <1>6 DEF PaintedThree
<1>8. \E k : InInsert(tree', S, k, g)
  BY <1>2, <1>3, <1>4, <1>7, <1>o, RecolourKeeps
<1>9. PICK k : InInsert(tree', S, k, g)
  BY <1>8
<1>10. Shape(tree', S, sub) /\ SameOutside(tree, tree', S)
  BY <1>2, <1>7, ShapeOfSame
<1>11. Loose(tree', S, NULL)
  BY <1>2, <1>10, LooseOf
<1>12. Inv(S, sub, k)'
  BY <1>2, <1>3, <1>5, <1>9, <1>10, <1>11 DEF Inv
<1> QED
  BY <1>12 DEF Holds

\* One round of rb_insert_color with a black uncle.
LEMMA InsertRotateHolds ==
  ASSUME NEW S, Holds(S), InsertRotate
  PROVE  Holds(S)'
<1> DEFINE n == node
           p == tree.parent[node]
           g == tree.parent[p]
           d == SideOf(tree, p)
           inner == tree[Opp(d)][p] = node
           t1 == IF inner THEN Rotate(tree, d, p) ELSE tree
           top == IF inner THEN node ELSE p
           low == IF inner THEN p ELSE node
           v == Paint(Paint(t1, top, BLACK), g, RED)
<1>1. PICK sub, h : Inv(S, sub, h)
  BY DEF Holds
<1>2. /\ Shape(tree, S, sub) /\ Loose(tree, S, NULL) /\ InInsert(tree, S, h, node) /\ victim = NULL
      /\ parent \in Ptr
  BY <1>1 DEF Inv, InsertRotate, InsertLoops
<1>3. /\ Red(tree, p) /\ Black(tree, tree[Opp(d)][g]) /\ pc = "insert"
      /\ tree' = Rotate(v, Opp(d), g)
      /\ pc' = pc /\ node' = low /\ parent' = parent /\ victim' = victim
  BY DEF InsertRotate, InsertLoops, Uncle, GParent
<1>4. Around(tree, S, node, p, g, d)
  BY <1>2, <1>3, AroundIs
<1>d. d \in Side /\ p \in S /\ g \in S /\ node \in S /\ tree.parent[node] = p
  BY <1>4 DEF Around
<1>i. inner <=> tree[Opp(d)][p] = node
  OBVIOUS
<1>t. v = Paint(Paint(t1, top, BLACK), g, RED)
  OBVIOUS
<1> HIDE DEF p, g, d, v
<1>5. \E w : /\ Shape(t1, S, w) /\ InInsert(t1, S, h, low) /\ Around(t1, S, low, top, g, d)
             /\ t1[d][top] = low /\ Black(t1, t1[Opp(d)][g]) /\ SameOutside(tree, t1, S)
  <2>1. CASE inner
    <3>1. t1 = Rotate(tree, d, p) /\ low = p /\ top = node
      BY <2>1
    <3> HIDE DEF t1, low, top
    <3>2. /\ Shape(t1, S, RotSub(tree, d, p, sub)) /\ InInsert(t1, S, h, p)
          /\ Around(t1, S, p, node, g, d) /\ t1[d][node] = p
          /\ t1[Opp(d)][g] = tree[Opp(d)][g]
          /\ SameOutside(tree, t1, S) /\ t1.color = tree.color
      BY <1>2, <1>4, <1>i, <2>1, <3>1, InnerTurn
    <3>3. Black(t1, t1[Opp(d)][g])
      BY <1>3, <3>2 DEF Black, Red
    <3> QED
      BY <3>1, <3>2, <3>3
  <2>2. CASE ~inner
    <3>1. t1 = tree /\ low = node /\ top = p
      BY <2>2
    <3>2. tree[d][p] = node
      <4>1. node # tree.root
        BY <1>4 DEF Around
      <4>2. PICK e \in Side : tree[e][p] = node
        BY <1>2, <1>d, <4>1, ParentFacts
      <4>3. e = d \/ e = Opp(d)
        BY <1>d, Sides
      <4> QED
        BY <1>i, <2>2, <4>2, <4>3
    <3>3. SameOutside(tree, tree, S)
      BY DEF SameOutside
    <3> HIDE DEF t1, low, top, inner
    <3> QED
      BY <1>2, <1>3, <1>4, <3>1, <3>2, <3>3
  <2> QED
    BY <2>1, <2>2
<1> HIDE DEF t1, low, top, inner
<1>6. PICK w : /\ Shape(t1, S, w) /\ InInsert(t1, S, h, low) /\ Around(t1, S, low, top, g, d)
               /\ t1[d][top] = low /\ Black(t1, t1[Opp(d)][g]) /\ SameOutside(tree, t1, S)
  BY <1>5
<1>7. t1 \in Tree /\ top \in Key /\ g \in Key /\ S \subseteq Key /\ low \in S /\ Ptr = Key \cup {NULL}
  <2>1. top \in S /\ g \in S /\ low \in S
    BY <1>6 DEF Around
  <2> QED
    BY <1>6, <2>1, Basics
<1>8. SameLinks(t1, v) /\ \A m \in Key : v.color[m] = IF m = g THEN RED ELSE IF m = top THEN BLACK ELSE t1.color[m]
  BY <1>7, <1>t, TwoPaints
<1>9. /\ Shape(tree', S, RotSub(v, Opp(d), g, w)) /\ (\E k : InInsert(tree', S, k, low))
      /\ SameOutside(t1, tree', S)
  BY <1>3, <1>6, <1>8, OuterTurn
<1>10. PICK k : InInsert(tree', S, k, low)
  BY <1>9
<1>11. Loose(tree', S, NULL)
  <2>1. Loose(t1, S, NULL)
    BY <1>2, <1>6, LooseOf
  <2> QED
    BY <1>9, <2>1, LooseOf
<1>12. PICK z : Shape(tree', S, z)
  BY <1>9
<1>13. Inv(S, z, k)'
  BY <1>2, <1>3, <1>7, <1>10, <1>11, <1>12 DEF Inv
<1> QED
  BY <1>13 DEF Holds

\* The end of rb_insert_color and of the insertion.
LEMMA InsertReturnsHolds ==
  ASSUME NEW S, Holds(S), InsertReturns
  PROVE  Holds(S)'
<1>1. PICK sub, h : Inv(S, sub, h)
  BY DEF Holds
<1>2. /\ Shape(tree, S, sub) /\ Loose(tree, S, NULL) /\ InInsert(tree, S, h, node) /\ victim = NULL
      /\ parent \in Ptr
  BY <1>1 DEF Inv, InsertReturns
<1>3. /\ ~Red(tree, tree.parent[node]) /\ tree' = Paint(tree, tree.root, BLACK)
      /\ pc' = "idle" /\ node' = NULL /\ parent' = parent /\ victim' = victim
  BY DEF InsertReturns, InsertLoops
<1>4. /\ \E k : Good(tree', S, k)
      /\ Shape(tree', S, sub) /\ SameOutside(tree, tree', S)
  BY <1>2, <1>3, InsertEnds
<1>5. PICK k : Good(tree', S, k)
  BY <1>4
<1>6. Loose(tree', S, NULL)
  BY <1>2, <1>4, LooseOf
<1>7. Inv(S, sub, k)'
  BY <1>2, <1>3, <1>4, <1>5, <1>6 DEF Inv, Ptr
<1> QED
  BY <1>7 DEF Holds

\* breakpoint_rb_delete of an address that is in the tree, up to the fix-up.
LEMMA DeleteHolds ==
  ASSUME NEW S, Holds(S), NEW k \in Key, Delete(k)
  PROVE  k \in S /\ Holds(S \ {k})'
<1> DEFINE e == IF tree.left[k] = NULL \/ tree.right[k] = NULL
                THEN Unlink(tree, k) ELSE Splice(tree, k)
<1>1. PICK sub, h : Inv(S, sub, h)
  BY DEF Holds
<1>2. /\ Shape(tree, S, sub) /\ Loose(tree, S, NULL) /\ Good(tree, S, h) /\ NULL \notin Key
  BY <1>1, KeyAssumption DEF Inv, Delete
<1>3. k \in S
  BY <1>2, FindIs DEF Delete
<1>4. /\ tree' = e.tree /\ node' = e.child /\ parent' = e.parent
      /\ pc' = (IF e.color = BLACK THEN "erase" ELSE "clear") /\ victim' = k
  BY DEF Delete
<1>5. \A m \in Key \ S, d \in Side : tree[d][m] = NULL
  BY <1>2 DEF Loose
<1>6. Cut(tree, S, k, e)
  <2>1. CASE tree.left[k] = NULL \/ tree.right[k] = NULL
    <3>1. Cut(tree, S, k, Unlink(tree, k))
      BY <1>2, <1>3, <1>5, <2>1, UnlinkKeeps
    <3> QED
      BY <2>1, <3>1
  <2>2. CASE ~(tree.left[k] = NULL \/ tree.right[k] = NULL)
    <3>1. Cut(tree, S, k, Splice(tree, k))
      BY <1>2, <1>3, <1>5, <2>2, SpliceKeeps
    <3> QED
      BY <2>2, <3>1
  <2> QED
    BY <2>1, <2>2
<1> HIDE DEF e
<1>7. /\ \E w : Shape(tree', S \ {k}, w)
      /\ node' \in Ptr /\ parent' \in Ptr
      /\ e.color # BLACK => \E j : Good(tree', S \ {k}, j)
      /\ e.color = BLACK => \E j : InErase(tree', S \ {k}, j, node', parent')
      /\ SameOutside(tree, tree', S)
  BY <1>4, <1>6 DEF Cut
<1>8. Loose(tree', S \ {k}, k)
  BY <1>2, <1>7 DEF Loose, SameOutside
<1>9. PICK w : Shape(tree', S \ {k}, w)
  BY <1>7
<1>10. CASE e.color = BLACK
  <2>1. PICK j : InErase(tree', S \ {k}, j, node', parent')
    BY <1>7, <1>10
  <2>2. Inv(S \ {k}, w, j)'
    BY <1>4, <1>7, <1>8, <1>9, <1>10, <2>1 DEF Inv
  <2> QED
    BY <1>3, <2>2 DEF Holds
<1>11. CASE e.color # BLACK
  <2>1. PICK j : Good(tree', S \ {k}, j)
    BY <1>7, <1>11
  <2>2. Inv(S \ {k}, w, j)'
    BY <1>4, <1>7, <1>8, <1>9, <1>11, <2>1 DEF Inv
  <2> QED
    BY <1>3, <2>2 DEF Holds
<1> QED
  BY <1>10, <1>11

\* What holds at the start of a round of __rb_erase_color, and after a red
\* sibling was rotated away.
LEMMA EraseRound ==
  ASSUME NEW S, NEW sub, NEW h, Inv(S, sub, h), EraseLoops
  PROVE  /\ Lacks(tree, S, h, node, parent, EraseSide)
         /\ Other(tree, S, node, parent, EraseSide, tree[Opp(EraseSide)][parent])
         /\ \E w, k : Shape(SiblingBlack, S, w) /\ Lacks(SiblingBlack, S, k, node, parent, EraseSide)
         /\ Other(SiblingBlack, S, node, parent, EraseSide, SiblingBlack[Opp(EraseSide)][parent])
         /\ Black(SiblingBlack, SiblingBlack[Opp(EraseSide)][parent])
         /\ SameOutside(tree, SiblingBlack, S)
         /\ victim \in Key \ S /\ Loose(tree, S, victim) /\ pc = "erase" /\ node \in Ptr /\ parent \in Ptr
<1>1. /\ Shape(tree, S, sub) /\ InErase(tree, S, h, node, parent) /\ Black(tree, node) /\ node # tree.root
      /\ victim \in Key \ S /\ Loose(tree, S, victim) /\ pc = "erase" /\ node \in Ptr /\ parent \in Ptr
  BY DEF Inv, EraseLoops
<1>2. Lacks(tree, S, h, node, parent, EraseSide)
  BY <1>1, LacksIs DEF EraseSide
<1> DEFINE d == EraseSide
           o == tree[Opp(d)][parent]
           u == SiblingBlack
<1>3. u = IF Red(tree, o) THEN Rotate(Paint(Paint(tree, o, BLACK), parent, RED), d, parent) ELSE tree
  BY DEF SiblingBlack
<1>4. Other(tree, S, node, parent, d, o)
  BY <1>1, <1>2, OtherIs
<1> HIDE DEF u, d
<1>5. /\ \E w, k : Shape(u, S, w) /\ Lacks(u, S, k, node, parent, d)
      /\ Other(u, S, node, parent, d, u[Opp(d)][parent]) /\ Black(u, u[Opp(d)][parent]) /\ SameOutside(tree, u, S)
  <2>1. Lacks(tree, S, h, node, parent, d)
    BY <1>2 DEF d
  <2> QED
    BY <1>1, <1>3, <2>1, SiblingIs
<1> QED
  BY <1>1, <1>2, <1>4, <1>5 DEF u, d

\* The round that climbs.
LEMMA EraseClimbHolds ==
  ASSUME NEW S, Holds(S), EraseClimb
  PROVE  Holds(S)'
<1> DEFINE d == EraseSide
           u == SiblingBlack
           o == u[Opp(d)][parent]
<1>1. PICK sub, h : Inv(S, sub, h)
  BY DEF Holds
<1>2. /\ EraseLoops /\ Black(u, u.left[o]) /\ Black(u, u.right[o])
      /\ tree' = Paint(u, o, RED) /\ node' = parent /\ parent' = u.parent[parent]
      /\ pc' = pc /\ victim' = victim
  BY DEF EraseClimb
<1>3. /\ \E w, k : Shape(u, S, w) /\ Lacks(u, S, k, node, parent, d)
      /\ Other(u, S, node, parent, d, o) /\ Black(u, o) /\ SameOutside(tree, u, S)
      /\ victim \in Key \ S /\ Loose(tree, S, victim) /\ pc = "erase" /\ parent \in Ptr
  BY <1>1, <1>2, EraseRound
<1> HIDE DEF u, d, o
<1>4. PICK w, k : Shape(u, S, w) /\ Lacks(u, S, k, node, parent, d)
  BY <1>3
<1>5. \A f \in Side : Black(u, u[f][o])
  <2>1. u \in Tree
    BY <1>4, Basics
  <2>2. u.left = u["left"] /\ u.right = u["right"]
    BY <2>1, TreeTypes
  <2> QED
    BY <1>2, <2>2 DEF Side
<1>6. /\ Shape(tree', S, w) /\ (\E j : InErase(tree', S, j, parent, u.parent[parent]))
      /\ SameOutside(u, tree', S)
  BY <1>2, <1>3, <1>4, <1>5, ClimbKeeps
<1>7. PICK j : InErase(tree', S, j, node', parent')
  BY <1>2, <1>6
<1>8. Loose(tree', S, victim)
  <2>1. Loose(u, S, victim)
    BY <1>3, LooseOf
  <2> QED
    BY <1>6, <2>1, LooseOf
<1>9. parent' \in Ptr
  <2>1. parent \in S /\ u \in Tree /\ S \subseteq Key
    BY <1>4, Basics DEF Lacks
  <2> QED
    BY <1>2, <2>1, TreeTypes
<1>10. Inv(S, w, j)'
  BY <1>2, <1>3, <1>6, <1>7, <1>8, <1>9 DEF Inv
<1> QED
  BY <1>10 DEF Holds

\* The round that ends the loop.
LEMMA EraseRotateHolds ==
  ASSUME NEW S, Holds(S), EraseRotate
  PROVE  Holds(S)'
<1> DEFINE d == EraseSide
           u == SiblingBlack
           o == u[Opp(d)][parent]
           v == NephewOutside(u)
           b == v[Opp(d)][parent]
           c == v[Opp(d)][b]
<1>1. PICK sub, h : Inv(S, sub, h)
  BY DEF Holds
<1>2. /\ EraseLoops /\ \E e \in Side : Red(u, u[e][o])
      /\ tree' = Rotate(Paint(Paint(Paint(v, b, v.color[parent]), parent, BLACK), c, BLACK), d, parent)
      /\ node' = tree'.root /\ parent' = parent
      /\ pc' = pc /\ victim' = victim
  BY DEF EraseRotate
<1>3. /\ \E w, k : Shape(u, S, w) /\ Lacks(u, S, k, node, parent, d)
      /\ Other(u, S, node, parent, d, o) /\ Black(u, o) /\ SameOutside(tree, u, S)
      /\ victim \in Key \ S /\ Loose(tree, S, victim) /\ pc = "erase" /\ parent \in Ptr
  BY <1>1, <1>2, EraseRound
<1>v. v = IF Red(u, u[Opp(d)][o]) THEN u
          ELSE Rotate(Paint(Paint(u, u[d][o], BLACK), o, RED), Opp(d), o)
  BY DEF NephewOutside
<1>o. o = u[Opp(d)][parent] /\ b = v[Opp(d)][parent] /\ c = v[Opp(d)][b]
  OBVIOUS
<1> HIDE DEF u, d, o, v, b, c
<1>4. PICK w, k : Shape(u, S, w) /\ Lacks(u, S, k, node, parent, d)
  BY <1>3
<1>d. d \in Side /\ \A e \in Side : e = d \/ e = Opp(d)
  BY <1>4, Sides DEF Lacks
<1>5. /\ \E z, j : Shape(v, S, z) /\ Lacks(v, S, j, node, parent, d)
      /\ Black(v, b) /\ Red(v, c) /\ SameOutside(u, v, S)
  <2>1. CASE Red(u, u[Opp(d)][o])
    <3>1. v = u /\ b = o /\ Red(v, c)
      BY <1>o, <1>v, <2>1
    <3>2. SameOutside(u, u, S)
      BY DEF SameOutside
    <3> QED
      BY <1>3, <1>4, <3>1, <3>2
  <2>2. CASE ~Red(u, u[Opp(d)][o])
    <3>1. v = Rotate(Paint(Paint(u, u[d][o], BLACK), o, RED), Opp(d), o)
      BY <1>v, <2>2
    <3>2. Red(u, u[d][o])
      BY <1>2, <1>d, <2>2
    <3>3. PICK y : y = u[d][o]
      OBVIOUS
    <3>4. /\ \E z, j : Shape(v, S, z) /\ Lacks(v, S, j, node, parent, d)
          /\ v[Opp(d)][parent] = y /\ Black(v, y) /\ Red(v, v[Opp(d)][y]) /\ SameOutside(u, v, S)
      BY <1>3, <1>4, <2>2, <3>1, <3>2, <3>3, NephewTurn
    <3> QED
      BY <1>o, <3>4
  <2> QED
    BY <2>1, <2>2
<1>6. PICK z, j : Shape(v, S, z) /\ Lacks(v, S, j, node, parent, d)
  BY <1>5
<1>7. Other(v, S, node, parent, d, b)
  BY <1>6, <1>o, OtherIs
<1>8. PICK x, i : /\ Shape(tree', S, x)
                  /\ tree'.root \in S
                  /\ \A q : InErase(tree', S, i, tree'.root, q)
                  /\ SameOutside(v, tree', S)
  BY <1>2, <1>5, <1>6, <1>7, <1>o, FinalTurn
<1>9. Loose(tree', S, victim)
  <2>1. Loose(u, S, victim)
    BY <1>3, LooseOf
  <2>2. Loose(v, S, victim)
    BY <1>5, <2>1, LooseOf
  <2> QED
    BY <1>8, <2>2, LooseOf
<1>10. node' \in Ptr /\ InErase(tree', S, i, node', parent')
  <2>1. S \subseteq Key /\ Ptr = Key \cup {NULL}
    BY <1>6, Basics
  <2>2. InErase(tree', S, i, tree'.root, parent')
    BY <1>8
  <2> QED
    BY <1>2, <1>8, <2>1, <2>2
<1>11. Inv(S, x, i)'
  BY <1>2, <1>3, <1>8, <1>9, <1>10 DEF Inv
<1> QED
  BY <1>11 DEF Holds

\* The end of __rb_erase_color.
LEMMA EraseDoneHolds ==
  ASSUME NEW S, Holds(S), EraseDone
  PROVE  Holds(S)'
<1>1. PICK sub, h : Inv(S, sub, h)
  BY DEF Holds
<1>2. /\ Shape(tree, S, sub) /\ Loose(tree, S, victim) /\ InErase(tree, S, h, node, parent)
      /\ victim \in Key \ S /\ parent \in Ptr /\ node \in Ptr
  BY <1>1 DEF Inv, EraseDone
<1>3. /\ ~(Black(tree, node) /\ node # tree.root)
      /\ tree' = (IF node = NULL THEN tree ELSE Paint(tree, node, BLACK))
      /\ pc' = "clear" /\ node' = node /\ parent' = parent /\ victim' = victim
  BY DEF EraseDone, EraseLoops
<1>4. Shape(tree', S, sub) /\ (\E k : Good(tree', S, k)) /\ SameOutside(tree, tree', S)
  BY <1>2, <1>3, EraseEnds
<1>5. PICK k : Good(tree', S, k)
  BY <1>4
<1>6. Loose(tree', S, victim)
  BY <1>2, <1>4, LooseOf
<1>7. Inv(S, sub, k)'
  BY <1>2, <1>3, <1>4, <1>5, <1>6 DEF Inv
<1> QED
  BY <1>7 DEF Holds

\* The end of breakpoint_rb_delete_internal.
LEMMA DeleteReturnsHolds ==
  ASSUME NEW S, Holds(S), DeleteReturns
  PROVE  Holds(S)'
<1>1. PICK sub, h : Inv(S, sub, h)
  BY DEF Holds
<1>2. /\ Shape(tree, S, sub) /\ Loose(tree, S, victim) /\ Good(tree, S, h)
      /\ victim \in Key /\ victim \notin S
  BY <1>1 DEF Inv, DeleteReturns
<1>3. /\ tree' = [tree EXCEPT !.parent[victim] = victim, !.color[victim] = RED,
                              !.left[victim] = NULL, !.right[victim] = NULL]
      /\ pc' = "idle" /\ node' = NULL /\ parent' = NULL /\ victim' = NULL
  BY DEF DeleteReturns
<1>4. Shape(tree', S, sub) /\ Good(tree', S, h) /\ Loose(tree', S, NULL)
  BY <1>2, <1>3, ClearKeeps
<1>5. Inv(S, sub, h)'
  BY <1>3, <1>4 DEF Inv, Ptr
<1> QED
  BY <1>5 DEF Holds

-----------------------------------------------------------------------------
(* The theorems. *)

IInv == \E S : Holds(S)

\* Found are the tree's entries: every search of the SIGTRAP handler finds an
\* address exactly when it is in the tree, in the middle of a rebalancing too.
LEMMA FoundIs ==
  ASSUME NEW S, Holds(S)
  PROVE  Found = S
<1>1. PICK sub, h : Inv(S, sub, h)
  BY DEF Holds
<1>2. Shape(tree, S, sub) /\ S \subseteq Key /\ NULL \notin Key
  BY <1>1, Basics DEF Inv
<1>3. \A k \in Key : breakpoint_rb_find_internal(tree, k) = IF k \in S THEN k ELSE NULL
  BY <1>2, FindIs
<1>4. \A k \in Key : breakpoint_rb_find_internal(tree, k) = k <=> k \in S
  BY <1>2, <1>3
<1> QED
  BY <1>2, <1>4 DEF Found

\* Every step of the program keeps the invariant, and changes the entries by
\* the one that is inserted or deleted.
LEMMA NextHolds ==
  ASSUME NEW S, Holds(S), [Next]_vars
  PROVE  \/ Holds(S)'
         \/ \E k \in Key \ S : Holds(S \cup {k})'
         \/ \E k \in S : Holds(S \ {k})'
<1>1. ASSUME NEW k \in Key, Insert(k)
      PROVE  \E j \in Key \ S : Holds(S \cup {j})'
  BY <1>1, InsertHolds
<1>2. ASSUME NEW k \in Key, Delete(k)
      PROVE  \E j \in S : Holds(S \ {j})'
  BY <1>2, DeleteHolds
<1>3. CASE Step
  <2>1. CASE InsertRecolour
    BY <2>1, InsertRecolourHolds
  <2>2. CASE InsertRotate
    BY <2>2, InsertRotateHolds
  <2>3. CASE InsertReturns
    BY <2>3, InsertReturnsHolds
  <2>4. CASE EraseClimb
    BY <2>4, EraseClimbHolds
  <2>5. CASE EraseRotate
    BY <2>5, EraseRotateHolds
  <2>6. CASE EraseDone
    BY <2>6, EraseDoneHolds
  <2>7. CASE DeleteReturns
    BY <2>7, DeleteReturnsHolds
  <2> QED
    BY <1>3, <2>1, <2>2, <2>3, <2>4, <2>5, <2>6, <2>7 DEF Step
<1>4. CASE UNCHANGED vars
  BY <1>4 DEF vars, Holds, Inv
<1> QED
  BY <1>1, <1>2, <1>3, <1>4 DEF Next

\* The invariant holds in every state.
THEOREM Invariance == Spec => []IInv
<1>1. Init => IInv
  BY InitHolds DEF IInv
<1>2. IInv /\ [Next]_vars => IInv'
  <2> SUFFICES ASSUME NEW S, Holds(S), [Next]_vars
               PROVE  IInv'
    BY DEF IInv
  <2> QED
    BY NextHolds DEF IInv
<1> QED
  BY <1>1, <1>2, PTL DEF Spec

\* Type correctness: the root, the children and the parents of the entries are
\* entries or NULL, and so are the nodes that the loops of rbtree.c hold.
THEOREM TypeCorrect == Spec => []TypeOK
<1>1. IInv => TypeOK
  <2> SUFFICES ASSUME NEW S, NEW sub, NEW h, Inv(S, sub, h)
               PROVE  TypeOK
    BY DEF IInv, Holds
  <2>1. tree \in Tree /\ S \subseteq Key
    BY Basics DEF Inv
  <2>2. pc = "insert" => node \in Key
    BY <2>1 DEF Inv, InInsert
  <2>3. victim \in Ptr
    BY DEF Inv, Ptr
  <2> QED
    BY <2>1, <2>2, <2>3 DEF Inv, TypeOK, Tree
<1> QED
  BY <1>1, Invariance, PTL

\* No round of the loops follows a NULL pointer to a grandparent, a parent or
\* a sibling (rbtree.c:71, 128, 130, 136).
THEOREM NullSafety == Spec => []NeverFollowsNull
<1>1. IInv => NeverFollowsNull
  <2> SUFFICES ASSUME NEW S, NEW sub, NEW h, Inv(S, sub, h)
               PROVE  NeverFollowsNull
    BY DEF IInv, Holds
  <2>0. S \subseteq Key /\ NULL \notin Key
    BY Basics DEF Inv
  <2>1. ASSUME InsertLoops
        PROVE  GParent # NULL
    <3>1. Shape(tree, S, sub) /\ InInsert(tree, S, h, node) /\ Red(tree, tree.parent[node])
      BY <2>1 DEF InsertLoops, Inv
    <3>2. Around(tree, S, node, tree.parent[node], GParent, SideOf(tree, tree.parent[node]))
      BY <3>1, AroundIs DEF GParent
    <3>3. GParent \in S
      BY <3>2 DEF Around
    <3> QED
      BY <2>0, <3>3
  <2>2. ASSUME EraseLoops
        PROVE  parent # NULL /\ tree[Opp(EraseSide)][parent] # NULL
               /\ SiblingBlack[Opp(EraseSide)][parent] # NULL
    <3> DEFINE d == EraseSide
               u == SiblingBlack
    <3>1. /\ Lacks(tree, S, h, node, parent, d)
          /\ Other(tree, S, node, parent, d, tree[Opp(d)][parent])
          /\ Other(u, S, node, parent, d, u[Opp(d)][parent])
      BY <2>2, EraseRound
    <3> HIDE DEF d, u
    <3>2. parent \in S /\ tree[Opp(d)][parent] \in S /\ u[Opp(d)][parent] \in S
      BY <3>1 DEF Lacks, Other
    <3> QED
      BY <2>0, <3>2 DEF d, u
  <2> QED
    BY <2>1, <2>2 DEF NeverFollowsNull
<1> QED
  BY <1>1, Invariance, PTL

\* Pointers down and up agree at every step, and entries outside the tree are
\* empty nodes.
THEOREM LinksAgree == Spec => []LinksMatch
<1>1. IInv => LinksMatch
  <2> SUFFICES ASSUME NEW S, Holds(S)
               PROVE  LinksMatch
    BY DEF IInv
  <2>1. PICK sub, h : Inv(S, sub, h)
    BY DEF Holds
  <2>2. Shape(tree, S, sub) /\ Loose(tree, S, victim)
    BY <2>1 DEF Inv
  <2>3. Found = S
    BY FoundIs
  <2>4. tree.root # NULL => tree.parent[tree.root] = NULL
    BY <2>2 DEF Shape
  <2>5. \A n \in S : tree.parent[n] \in S \cup {NULL}
    BY <2>2, NodeFacts
  <2>6. \A n \in S, d \in Side : tree[d][n] # NULL => tree.parent[tree[d][n]] = n
    BY <2>2, KidFacts
  <2>7. \A n \in Key \ (S \cup {victim}) : tree.parent[n] = n
    BY <2>2 DEF Loose
  <2> QED
    BY <2>3, <2>4, <2>5, <2>6, <2>7 DEF LinksMatch
<1> QED
  BY <1>1, Invariance, PTL

\* The tree implements a set of addresses: what a search finds changes by the
\* address that is inserted or deleted, in one step, and by nothing else.
THEOREM ImplementsASet == Spec => ImplementsAddrSet
<1>1. \A S : Holds(S) => Found = S
  BY FoundIs
<1>2. (\A S : Holds(S) => Found = S)'
  BY <1>1, PTL
<1>3. Init => ImplementsSet!Init
  <2> SUFFICES ASSUME Init
               PROVE  Found = {}
    BY DEF ImplementsSet!Init
  <2> QED
    BY <1>1, InitHolds
<1>4. IInv /\ [Next]_vars => [ImplementsSet!Next]_Found
  <2> SUFFICES ASSUME NEW S, Holds(S), [Next]_vars
               PROVE  [ImplementsSet!Next]_Found
    BY DEF IInv
  <2>0. Found = S
    BY <1>1
  <2>1. CASE Holds(S)'
    <3>1. Found' = S
      BY <1>2, <2>1
    <3> QED
      BY <2>0, <3>1
  <2>2. CASE \E k \in Key \ S : Holds(S \cup {k})'
    <3>1. PICK k \in Key \ S : Holds(S \cup {k})'
      BY <2>2
    <3>2. Found' = S \cup {k}
      BY <1>2, <3>1
    <3>3. ImplementsSet!Insert
      BY <2>0, <3>2 DEF ImplementsSet!Insert
    <3> QED
      BY <3>3 DEF ImplementsSet!Next
  <2>3. CASE \E k \in S : Holds(S \ {k})'
    <3>1. PICK k \in S : Holds(S \ {k})'
      BY <2>3
    <3>2. Found' = S \ {k}
      BY <1>2, <3>1
    <3>3. ImplementsSet!Delete
      BY <2>0, <3>2 DEF ImplementsSet!Delete
    <3> QED
      BY <3>3 DEF ImplementsSet!Next
  <2> QED
    BY <2>1, <2>2, <2>3, NextHolds
<1> QED
  BY <1>3, <1>4, Invariance, PTL DEF Spec, ImplementsAddrSet, ImplementsSet!Spec

-----------------------------------------------------------------------------
(* Balance. *)

\* What the recursive function of Balanced satisfies: the numbers of black
\* entries on the ways down from an entry.
IsBlacks(t, b) ==
  b = [n \in Ptr |-> IF n = NULL THEN {0}
                     ELSE {x + t.color[n] : x \in b[t.left[n]] \cup b[t.right[n]]}]

\* There is such a function, ...
LEMMA BlacksExist ==
  ASSUME NEW t, NEW S, NEW sub, Shape(t, S, sub), NEW h, Good(t, S, h), Loose(t, S, NULL)
  PROVE  \E b : IsBlacks(t, b)
<1> DEFINE b == [n \in Ptr |-> IF n = NULL THEN {0} ELSE IF n \in S THEN {h[n]} ELSE {t.color[n]}]
<1>0. /\ S \subseteq Key /\ NULL \notin Key /\ Ptr = Key \cup {NULL} /\ t \in Tree
      /\ t.left = t["left"] /\ t.right = t["right"] /\ "left" \in Side /\ "right" \in Side
      /\ \A f \in Side, m \in Key : t[f][m] \in S \cup {NULL}
  BY Basics, TreeTypes DEF Side
<1>1. /\ b[NULL] = {0} /\ \A n \in S : b[n] = {h[n]}
      /\ \A n \in Key : n \notin S => b[n] = {t.color[n]}
      /\ b = [n \in Ptr |-> b[n]]
  BY <1>0
<1> HIDE DEF b
<1>2. \A n \in S \cup {NULL} : b[n] = {Ht(h, n)}
  BY <1>0, <1>1 DEF Ht
<1>3. ASSUME NEW n \in Key
      PROVE  b[n] = {x + t.color[n] : x \in b[t.left[n]] \cup b[t.right[n]]}
  <2>1. CASE n \in S
    <3>1. h[n] = Ht(h, t["left"][n]) + t.color[n] /\ h[n] = Ht(h, t["right"][n]) + t.color[n]
      <4>1. At(t, h, NULL, "left", n, "left") /\ At(t, h, NULL, "left", n, "right")
        BY <1>0, <2>1 DEF Good, Heights
      <4> QED
        BY <1>0, <4>1 DEF At
    <3>2. b[t.left[n]] = {Ht(h, t["left"][n])} /\ b[t.right[n]] = {Ht(h, t["right"][n])}
      BY <1>0, <1>2
    <3>3. b[n] = {h[n]}
      BY <1>1, <2>1
    <3> QED
      BY <3>1, <3>2, <3>3
  <2>2. CASE n \notin S
    <3>1. t["left"][n] = NULL /\ t["right"][n] = NULL
      BY <1>0, <2>2 DEF Loose
    <3>2. b[t.left[n]] = {0} /\ b[t.right[n]] = {0} /\ b[n] = {t.color[n]}
      BY <1>0, <1>1, <2>2, <3>1
    <3>3. t.color[n] \in {0, 1}
      BY <1>0 DEF Tree, RED, BLACK
    <3>4. 0 + t.color[n] = t.color[n]
      BY <3>3
    <3> QED
      BY <3>2, <3>4
  <2> QED
    BY <2>1, <2>2
<1>4. IsBlacks(t, b)
  <2>1. \A n \in Ptr : b[n] = IF n = NULL THEN {0}
                              ELSE {x + t.color[n] : x \in b[t.left[n]] \cup b[t.right[n]]}
    BY <1>0, <1>1, <1>3
  <2> QED
    BY <1>1, <2>1 DEF IsBlacks
<1> QED
  BY <1>4

\* ... and it gives each entry its one height.
LEMMA BlacksAre ==
  ASSUME NEW t, NEW S, NEW sub, Shape(t, S, sub), NEW h, Good(t, S, h), NEW b, IsBlacks(t, b)
  PROVE  \A n \in S \cup {NULL} : b[n] = {Ht(h, n)}
<1> DEFINE T == {n \in S : b[n] = {h[n]}}
<1>0. /\ S \subseteq Key /\ NULL \notin Key /\ Ptr = Key \cup {NULL} /\ t \in Tree
      /\ t.left = t["left"] /\ t.right = t["right"] /\ "left" \in Side /\ "right" \in Side
      /\ \A f \in Side, m \in Key : t[f][m] \in S \cup {NULL}
  BY Basics, TreeTypes DEF Side
<1>1. /\ b[NULL] = {0}
      /\ \A n \in Key : b[n] = {x + t.color[n] : x \in b[t.left[n]] \cup b[t.right[n]]}
  BY <1>0 DEF IsBlacks
<1>2. ASSUME NEW n \in S, \A d \in Side : t[d][n] # NULL => t[d][n] \in T
      PROVE  n \in T
  <2>1. h[n] = Ht(h, t["left"][n]) + t.color[n] /\ h[n] = Ht(h, t["right"][n]) + t.color[n]
    <3>1. At(t, h, NULL, "left", n, "left") /\ At(t, h, NULL, "left", n, "right")
      BY <1>0 DEF Good, Heights
    <3> QED
      BY <1>0, <3>1 DEF At
  <2>2. \A d \in Side : b[t[d][n]] = {Ht(h, t[d][n])}
    BY <1>0, <1>1, <1>2 DEF Ht
  <2>3. b[n] = {x + t.color[n] : x \in b[t["left"][n]] \cup b[t["right"][n]]}
    BY <1>0, <1>1
  <2>4. b[t["left"][n]] = {Ht(h, t["left"][n])} /\ b[t["right"][n]] = {Ht(h, t["right"][n])}
    BY <1>0, <2>2
  <2>5. b[n] = {h[n]}
    BY <2>1, <2>3, <2>4
  <2> QED
    BY <2>5
<1>3. T = S
  <2>1. T \in SUBSET S
    OBVIOUS
  <2> HIDE DEF T
  <2> QED
    BY <1>2, <2>1, UpwardInduction
<1> QED
  BY <1>0, <1>1, <1>3 DEF Ht

\* Between two operations the tree is a red-black tree, so a search takes a
\* number of steps that is logarithmic in the number of breakpoints.
THEOREM StaysBalanced == Spec => []Balanced
<1>1. IInv => Balanced
  <2> SUFFICES ASSUME NEW S, Holds(S), pc = "idle"
               PROVE  Balanced
    BY DEF IInv, Balanced
  <2> DEFINE blacks == CHOOSE b : b = [n \in Ptr |-> IF n = NULL THEN {0}
                         ELSE {x + tree.color[n] : x \in b[tree.left[n]] \cup b[tree.right[n]]}]
  <2>1. PICK sub, h : Inv(S, sub, h)
    BY DEF Holds
  <2>2. Shape(tree, S, sub) /\ Loose(tree, S, NULL) /\ Good(tree, S, h)
    BY <2>1 DEF Inv
  <2>3. Found = S
    BY FoundIs
  <2>4. \E b : IsBlacks(tree, b)
    BY <2>2, BlacksExist
  <2>5. IsBlacks(tree, blacks)
    BY <2>4 DEF IsBlacks
  <2>b. blacks = CHOOSE b : b = [n \in Ptr |-> IF n = NULL THEN {0}
                         ELSE {x + tree.color[n] : x \in b[tree.left[n]] \cup b[tree.right[n]]}]
    OBVIOUS
  <2> HIDE DEF blacks
  <2>6. \A n \in S \cup {NULL} : blacks[n] = {Ht(h, n)}
    BY <2>2, <2>5, BlacksAre
  <2>7. tree.root \in S \cup {NULL}
    BY <2>2, Basics
  <2>8. Cardinality(blacks[tree.root]) = 1
    <3>1. blacks[tree.root] = {Ht(h, tree.root)}
      BY <2>6, <2>7
    <3> QED
      BY <3>1, FS_Singleton
  <2>9. Black(tree, tree.root) /\ \A n \in S, d \in Side : ~Clash(tree, n, d)
    BY <2>2 DEF Good
  <2>10. \A n \in S : Red(tree, n) => \A d \in Side : Black(tree, tree[d][n])
    BY <2>9 DEF Clash, Black
  <2> QED
    BY <2>3, <2>8, <2>9, <2>10 DEF Balanced, blacks
<1> QED
  BY <1>1, Invariance, PTL

-----------------------------------------------------------------------------
(* Walking the tree in order. *)

\* o lies farther on side d than the rest of T.
Farthest(d, T, o) == o \in T /\ \A x \in T : x # o => Before(d, o, x)

\* Farthest to the left is least, farthest to the right greatest.
LEMMA FarthestIs ==
  ASSUME NEW T \in SUBSET Nat, NEW o
  PROVE  /\ Farthest("left", T, o) => T # {} /\ Min(T) = o
         /\ Farthest("right", T, o) => T # {} /\ Max(T) = o
<1>1. ASSUME Farthest("left", T, o)
      PROVE  T # {} /\ Min(T) = o
  <2>1. o \in T /\ o \in Nat /\ \A x \in T : x \in Nat /\ o =< x /\ (x =< o => x = o)
    BY <1>1 DEF Farthest, Before
  <2>2. \A z \in T : (\A y \in T : z =< y) => z = o
    BY <2>1
  <2>3. Min(T) \in T /\ \A y \in T : Min(T) =< y
    BY <2>1 DEF Min
  <2> QED
    BY <2>1, <2>2, <2>3
<1>2. ASSUME Farthest("right", T, o)
      PROVE  T # {} /\ Max(T) = o
  <2>1. o \in T /\ o \in Nat /\ \A x \in T : x \in Nat /\ o >= x /\ (x >= o => x = o)
    BY <1>2 DEF Farthest, Before
  <2>2. \A z \in T : (\A y \in T : z >= y) => z = o
    BY <2>1
  <2>3. Max(T) \in T /\ \A y \in T : Max(T) >= y
    BY <2>1 DEF Max
  <2> QED
    BY <2>1, <2>2, <2>3
<1> QED
  BY <1>1, <1>2

\* An entry outside the subtree at n lies on the same side of all its entries.
LEMMA Interval ==
  ASSUME NEW t, NEW S, NEW sub, Shape(t, S, sub), NEW n \in S, NEW x \in S, x \notin sub[n],
         NEW y \in sub[n], NEW d \in Side
  PROVE  Before(d, x, n) <=> Before(d, x, y)
<1> DEFINE Same(m) == \A a \in S, b \in sub[m], e \in Side :
                        a \notin sub[m] => (Before(e, a, m) <=> Before(e, a, b))
           T == {m \in S : Same(m)}
<1>0. \A m \in S : m \in Nat /\ m \in Key /\ m # NULL /\ sub[m] \subseteq S /\ m \in sub[m]
  BY NodeFacts
<1>1. t.root # NULL => t.root \in T
  <2> SUFFICES ASSUME t.root # NULL
               PROVE  t.root \in T
    OBVIOUS
  <2>1. t.root \in S /\ sub[t.root] = S
    BY DEF Shape, Of
  <2> QED
    BY <2>1
<1>2. ASSUME NEW m \in T, NEW f \in Side, t[f][m] # NULL
      PROVE  t[f][m] \in T
  <2> DEFINE c == t[f][m]
  <2>0. m \in S /\ Same(m)
    OBVIOUS
  <2> HIDE DEF T
  <2>1. /\ c \in S /\ sub[c] \subseteq sub[m] /\ \A z \in sub[c] : Before(f, z, m)
    BY <1>2, <2>0, KidFacts
  <2>2. sub[m] = {m} \cup Of(sub, c) \cup Of(sub, t[Opp(f)][m]) /\ Of(sub, c) = sub[c]
    BY <1>2, <2>0, NodeFacts DEF Of
  <2>s. Opp(f) \in Side /\ Opp(Opp(f)) = f /\ \A e \in Side : e = f \/ e = Opp(f)
    BY Sides
  <2>3. \A z \in Of(sub, t[Opp(f)][m]) : z \in S /\ Before(Opp(f), z, m)
    <3>1. CASE t[Opp(f)][m] = NULL
      BY <3>1 DEF Of
    <3>2. CASE t[Opp(f)][m] # NULL
      <4>1. t[Opp(f)][m] \in S /\ \A z \in sub[t[Opp(f)][m]] : Before(Opp(f), z, m)
        BY <2>0, <2>s, <3>2, KidFacts
      <4> QED
        BY <1>0, <3>2, <4>1 DEF Of
    <3> QED
      BY <3>1, <3>2
  <2>o. c = t[f][m]
    OBVIOUS
  <2> HIDE DEF c, Same
  <2>4. ASSUME NEW a \in S, NEW b \in sub[c], NEW e \in Side, a \notin sub[c]
        PROVE  Before(e, a, c) <=> Before(e, a, b)
    <3>0. a \in Nat /\ b \in S /\ b \in Nat /\ c \in Nat /\ c \in sub[c] /\ m \in Nat
      BY <1>0, <2>0, <2>1
    <3>1. CASE a \notin sub[m]
      <4>1. b \in sub[m] /\ c \in sub[m]
        BY <2>1, <3>0
      <4>2. (Before(e, a, m) <=> Before(e, a, b)) /\ (Before(e, a, m) <=> Before(e, a, c))
        BY <2>0, <3>1, <4>1 DEF Same
      <4> QED
        BY <4>2
    <3>2. CASE a \in sub[m]
      <4>1. a = m \/ Before(Opp(f), a, m)
        BY <2>2, <2>3, <2>4, <3>2
      <4>2. \A z \in sub[c] : z \in Nat => Before(Opp(f), a, z)
        <5> SUFFICES ASSUME NEW z \in sub[c], z \in Nat
                     PROVE  Before(Opp(f), a, z)
          OBVIOUS
        <5>1. Before(Opp(f), m, z)
          BY <2>1, <2>s, <3>0, Orders
        <5> QED
          BY <2>s, <3>0, <4>1, <5>1, Orders
      <4>3. Before(Opp(f), a, b) /\ Before(Opp(f), a, c)
        BY <3>0, <4>2
      <4>4. ~Before(f, a, b) /\ ~Before(f, a, c)
        BY <2>s, <3>0, <4>3, Orders
      <4> QED
        BY <2>s, <4>3, <4>4
    <3> QED
      BY <3>1, <3>2
  <2>5. Same(c)
    BY <2>4 DEF Same
  <2> QED
    BY <2>1, <2>5, <2>o DEF T
<1>3. T = S
  <2>1. T \in SUBSET S
    OBVIOUS
  <2> HIDE DEF T
  <2> QED
    BY <1>1, <1>2, <2>1, DownwardInduction
<1>4. Same(n)
  BY <1>3
<1> QED
  BY <1>4

\* rb_first and rb_last (rbtree.c:319-339): the entry farthest on that side.
LEMMA ExtremeIs ==
  ASSUME NEW t, NEW S, NEW sub, Shape(t, S, sub), NEW d \in Side
  PROVE  IF S = {} THEN Extreme(t, d) = NULL ELSE Farthest(d, S, Extreme(t, d))
<1>1. CASE S = {}
  BY <1>1, Basics DEF Extreme
<1>2. CASE S # {}
  <2>1. t.root \in S /\ t.root # NULL /\ sub[t.root] = S
    BY <1>2, Basics DEF Shape, Of
  <2>2. PICK o : o = Outermost(t, d, t.root)
    OBVIOUS
  <2>3. Extreme(t, d) = o
    BY <2>1, <2>2 DEF Extreme
  <2>4. o \in sub[t.root] /\ \A x \in sub[t.root] : x # o => Before(d, o, x)
    BY <2>1, <2>2, OutermostIs
  <2> QED
    BY <1>2, <2>1, <2>3, <2>4 DEF Farthest
<1> QED
  BY <1>1, <1>2

\* The entries on side d of n.
Beyond(S, d, n) == {m \in S : Before(d, m, n)}

\* Where rb_next and rb_prev stop climbing.
Turns(t, d) == {m \in Key : t.parent[m] = NULL \/ t[d][t.parent[m]] # m}

\* rb_next and rb_prev of an entry with a child on that side (rbtree.c:349-354,
\* 376-381).
LEMMA NeighbourBelow ==
  ASSUME NEW t, NEW S, NEW sub, Shape(t, S, sub), NEW n \in S, NEW d \in Side,
         NEW c, c = t[d][n], c # NULL, NEW o, o = Outermost(t, Opp(d), c)
  PROVE  Farthest(Opp(d), Beyond(S, d, n), o)
<1>0. \A m \in S : m \in Nat /\ m \in Key /\ m # NULL /\ sub[m] \subseteq S /\ m \in sub[m]
  BY NodeFacts
<1>1. c \in S /\ sub[c] \subseteq sub[n] /\ \A x \in sub[c] : Before(d, x, n)
  BY KidFacts
<1>2. Opp(d) \in Side /\ Opp(Opp(d)) = d
  BY Sides
<1>3. o \in sub[c] /\ \A x \in sub[c] : x # o => Before(Opp(d), o, x)
  BY <1>1, <1>2, OutermostIs
<1>4. o \in S /\ o \in Nat /\ n \in Nat /\ o \in sub[n] /\ Before(d, o, n)
  BY <1>0, <1>1, <1>3
<1>5. ASSUME NEW x \in S, Before(d, x, n), x # o
      PROVE  Before(Opp(d), o, x)
  <2>0. x \in Nat
    BY <1>0
  <2>1. CASE x \in sub[c]
    BY <1>3, <1>5, <2>1
  <2>2. CASE x \in sub[n] /\ x \notin sub[c]
    <3>1. sub[n] = {n} \cup Of(sub, c) \cup Of(sub, t[Opp(d)][n]) /\ Of(sub, c) = sub[c]
      BY NodeFacts DEF Of
    <3>2. x # n
      BY <1>4, <1>5, Orders
    <3>3. t[Opp(d)][n] # NULL /\ x \in sub[t[Opp(d)][n]]
      BY <2>2, <3>1, <3>2 DEF Of
    <3>4. Before(Opp(d), x, n)
      BY <1>2, <3>3, KidFacts
    <3> QED
      BY <1>4, <1>5, <2>0, <3>4, Orders
  <2>3. CASE x \notin sub[n]
    <3>1. Before(d, x, o)
      BY <1>4, <1>5, <2>3, Interval
    <3> QED
      BY <1>2, <1>4, <2>0, <3>1, Orders
  <2> QED
    BY <2>1, <2>2, <2>3
<1> QED
  BY <1>4, <1>5 DEF Farthest, Beyond

\* The climb of rb_next and rb_prev (rbtree.c:362-363, 385-386) ends: the
\* subtrees grow on the way up.
LEMMA ClimbFalls ==
  ASSUME NEW t, NEW S, NEW sub, Shape(t, S, sub), Loose(t, S, NULL), NEW d \in Side
  PROVE  \E rank, N : Falls(t.parent, Turns(t, d), rank, N)
<1> DEFINE N == Cardinality(Key)
           rank == [m \in Key |-> IF m \in S THEN N - Cardinality(sub[m]) ELSE 0]
<1>1. N \in Nat
  BY KeyAssumption, FS_CardinalityType
<1>2. \A m \in S : Cardinality(sub[m]) \in Nat /\ Cardinality(sub[m]) <= N
  BY SubtreeSize
<1>3. /\ S \subseteq Key /\ NULL \notin Key
      /\ \A f \in Side, m \in Key : t[f][m] \in S \cup {NULL}
  BY Basics
<1>n. N = Cardinality(Key)
  OBVIOUS
<1> HIDE DEF N
<1>4. rank \in [Key -> 0 .. N] /\ \A m \in S : rank[m] = N - Cardinality(sub[m])
  <2>1. \A m \in S : N - Cardinality(sub[m]) \in 0 .. N
    BY <1>1, <1>2
  <2>2. 0 \in 0 .. N
    BY <1>1
  <2> QED
    BY <1>3, <2>1, <2>2
<1> HIDE DEF rank
<1>5. ASSUME NEW m \in Key, m \notin Turns(t, d)
      PROVE  t.parent[m] \in Key /\ rank[t.parent[m]] < rank[m]
  <2>1. t.parent[m] # NULL /\ t[d][t.parent[m]] = m
    BY <1>5 DEF Turns
  <2>2. m \in S
    <3> SUFFICES ASSUME m \notin S
                 PROVE  FALSE
      OBVIOUS
    <3>1. t.parent[m] = m /\ t[d][m] = NULL
      BY <1>3 DEF Loose
    <3> QED
      BY <1>3, <2>1, <3>1
  <2>3. t.parent[m] \in S
    BY <2>1, <2>2, NodeFacts
  <2>4. Cardinality(sub[m]) < Cardinality(sub[t.parent[m]])
    BY <1>3, <2>1, <2>3, SubtreeSize
  <2>5. N - Cardinality(sub[t.parent[m]]) < N - Cardinality(sub[m])
    BY <1>1, <1>2, <2>2, <2>3, <2>4
  <2> QED
    BY <1>3, <1>4, <2>2, <2>3, <2>5
<1>6. Falls(t.parent, Turns(t, d), rank, N)
  BY <1>1, <1>4, <1>5 DEF Falls
<1> QED
  BY <1>6

\* rb_next and rb_prev of an entry without a child on that side.
LEMMA NeighbourAbove ==
  ASSUME NEW t, NEW S, NEW sub, Shape(t, S, sub), Loose(t, S, NULL), NEW n \in S, NEW d \in Side,
         t[d][n] = NULL, NEW e, e = WalkEnd(t.parent, Turns(t, d), n)
  PROVE  IF t.parent[e] = NULL THEN Beyond(S, d, n) = {}
         ELSE Farthest(Opp(d), Beyond(S, d, n), t.parent[e])
<1> DEFINE Q == {m \in S : n \in sub[m] /\ \A x \in sub[m] : x # n => Before(Opp(d), x, n)}
           p == t.parent[e]
<1>0. /\ \A m \in S : m \in Nat /\ m \in Key /\ m # NULL /\ sub[m] \subseteq S /\ m \in sub[m]
      /\ S \subseteq Key /\ NULL \notin Key
  BY NodeFacts, Basics
<1>2. Opp(d) \in Side /\ Opp(Opp(d)) = d /\ \A f \in Side : f = d \/ f = Opp(d)
  BY Sides
<1>3. n \in Q
  <2>1. sub[n] = {n} \cup Of(sub, t[d][n]) \cup Of(sub, t[Opp(d)][n]) /\ Of(sub, t[d][n]) = {}
    BY NodeFacts DEF Of
  <2>2. ASSUME NEW x \in sub[n], x # n
        PROVE  Before(Opp(d), x, n)
    <3>1. t[Opp(d)][n] # NULL /\ x \in sub[t[Opp(d)][n]]
      BY <2>1, <2>2 DEF Of
    <3> QED
      BY <1>2, <3>1, KidFacts
  <2> QED
    BY <1>0, <2>2
<1>4. ASSUME NEW m \in Q, m \notin Turns(t, d)
      PROVE  t.parent[m] \in Q
  <2> DEFINE q == t.parent[m]
  <2>0. m \in S /\ m \in Key /\ n \in sub[m] /\ \A x \in sub[m] : x # n => Before(Opp(d), x, n)
    BY <1>0
  <2>1. q # NULL /\ t[d][q] = m
    BY <1>4, <2>0 DEF Turns
  <2>2. q \in S /\ q \in Nat /\ n \in Nat
    BY <1>0, <2>0, <2>1, NodeFacts
  <2>3. \A x \in sub[m] : Before(d, x, q)
    BY <1>0, <2>0, <2>1, <2>2, KidFacts
  <2>4. sub[q] = {q} \cup sub[m] \cup Of(sub, t[Opp(d)][q])
    <3>1. sub[q] = {q} \cup Of(sub, t[d][q]) \cup Of(sub, t[Opp(d)][q])
      BY <2>2, NodeFacts
    <3> QED
      BY <1>0, <2>0, <2>1, <3>1 DEF Of
  <2> HIDE DEF q
  <2>5. Before(Opp(d), q, n)
    BY <1>2, <2>0, <2>2, <2>3, Orders
  <2>6. ASSUME NEW x \in sub[q], x # n
        PROVE  Before(Opp(d), x, n)
    <3>1. CASE x = q
      BY <2>5, <3>1
    <3>2. CASE x \in sub[m]
      BY <2>0, <2>6, <3>2
    <3>3. CASE x \in Of(sub, t[Opp(d)][q])
      <4>1. t[Opp(d)][q] # NULL /\ x \in sub[t[Opp(d)][q]]
        BY <3>3 DEF Of
      <4>2. Before(Opp(d), x, q)
        BY <1>2, <2>2, <4>1, KidFacts
      <4>3. x \in Nat
        BY <1>0, <2>2
      <4> QED
        BY <1>2, <2>2, <2>5, <4>2, <4>3, Orders
    <3> QED
      BY <2>4, <3>1, <3>2, <3>3
  <2>7. q \in Q
    BY <2>0, <2>2, <2>4, <2>6
  <2> QED
    BY <2>7 DEF q
<1>5. e \in Q /\ e \in Turns(t, d)
  <2>1. PICK rank, N : Falls(t.parent, Turns(t, d), rank, N)
    BY ClimbFalls
  <2>2. Q \in SUBSET Key
    BY <1>0
  <2> HIDE DEF Q
  <2> QED
    BY <1>3, <1>4, <2>1, <2>2, WalkStays
<1>6. e \in S /\ e \in Key /\ n \in sub[e] /\ n \in Nat /\ \A x \in sub[e] : x # n => Before(Opp(d), x, n)
  BY <1>0, <1>5
<1> HIDE DEF Q
<1>7. \A x \in S : Before(d, x, n) => x \notin sub[e]
  BY <1>0, <1>6, Orders
<1>8. CASE p = NULL
  <2>1. e = t.root /\ sub[e] = S
    <3>1. e = t.root
      BY <1>6, <1>8, NodeFacts
    <3>2. Of(sub, t.root) = S
      BY DEF Shape
    <3> QED
      BY <1>0, <1>6, <3>1, <3>2 DEF Of
  <2> QED
    BY <1>7, <1>8, <2>1 DEF Beyond
<1>9. CASE p # NULL
  <2>1. p \in S /\ p \in Nat /\ e # t.root
    BY <1>0, <1>6, <1>9, NodeFacts
  <2>2. t[Opp(d)][p] = e
    <3>1. t[d][p] # e
      BY <1>5, <1>9 DEF Turns
    <3>2. PICK f \in Side : t[f][p] = e
      BY <1>6, <2>1, ParentFacts
    <3> QED
      BY <1>2, <3>1, <3>2
  <2>p. p = t.parent[e]
    OBVIOUS
  <2> HIDE DEF p
  <2>3. sub[e] \subseteq sub[p] /\ \A x \in sub[e] : Before(Opp(d), x, p)
    BY <1>0, <1>2, <1>6, <2>1, <2>2, KidFacts
  <2>4. Before(d, p, n)
    <3>1. Before(Opp(d), n, p)
      BY <1>6, <2>3
    <3> QED
      BY <1>2, <1>6, <2>1, <3>1, Orders
  <2>5. ASSUME NEW x \in S, Before(d, x, n), x # p
        PROVE  Before(Opp(d), p, x)
    <3>0. x \in Nat /\ x \notin sub[e]
      BY <1>0, <1>7, <2>5
    <3>1. Before(d, x, p)
      <4>1. CASE x \in sub[p]
        <5>1. sub[p] = {p} \cup Of(sub, t[d][p]) \cup Of(sub, t[Opp(d)][p])
          BY <2>1, NodeFacts
        <5>2. Of(sub, t[Opp(d)][p]) = sub[e]
          BY <1>0, <1>6, <2>2 DEF Of
        <5>3. t[d][p] # NULL /\ x \in sub[t[d][p]]
          BY <2>5, <3>0, <4>1, <5>1, <5>2 DEF Of
        <5> QED
          BY <2>1, <5>3, KidFacts
      <4>2. CASE x \notin sub[p]
        <5>1. n \in sub[p]
          BY <1>6, <2>3
        <5> QED
          BY <2>1, <2>5, <4>2, <5>1, Interval
      <4> QED
        BY <4>1, <4>2
    <3> QED
      BY <1>2, <2>1, <3>0, <3>1, Orders
  <2>6. Farthest(Opp(d), Beyond(S, d, n), p)
    BY <2>1, <2>4, <2>5 DEF Farthest, Beyond
  <2> QED
    BY <1>9, <2>6, <2>p
<1> QED
  BY <1>8, <1>9

\* rb_next and rb_prev (rbtree.c:341-389): the nearest entry on that side, NULL
\* when there is none.
LEMMA NeighbourIs ==
  ASSUME NEW t, NEW S, NEW sub, Shape(t, S, sub), Loose(t, S, NULL), NEW n \in S, NEW d \in Side
  PROVE  IF Beyond(S, d, n) = {} THEN Neighbour(t, d, n) = NULL
         ELSE Farthest(Opp(d), Beyond(S, d, n), Neighbour(t, d, n))
<1>1. t.parent[n] # n
  BY NodeFacts
<1>2. CASE t[d][n] # NULL
  <2>1. Neighbour(t, d, n) = Outermost(t, Opp(d), t[d][n])
    BY <1>1, <1>2 DEF Neighbour
  <2>2. Farthest(Opp(d), Beyond(S, d, n), Neighbour(t, d, n))
    BY <1>2, <2>1, NeighbourBelow
  <2>3. Beyond(S, d, n) # {}
    BY <2>2 DEF Farthest
  <2> QED
    BY <2>2, <2>3
<1>3. CASE t[d][n] = NULL
  <2>1. Neighbour(t, d, n) = t.parent[WalkEnd(t.parent, Turns(t, d), n)]
    BY <1>1, <1>3 DEF Neighbour, Turns
  <2>2. PICK e : e = WalkEnd(t.parent, Turns(t, d), n)
    OBVIOUS
  <2>3. IF t.parent[e] = NULL THEN Beyond(S, d, n) = {}
        ELSE Farthest(Opp(d), Beyond(S, d, n), t.parent[e])
    BY <1>3, <2>2, NeighbourAbove
  <2>4. Farthest(Opp(d), Beyond(S, d, n), t.parent[e]) => Beyond(S, d, n) # {}
    BY DEF Farthest
  <2> QED
    BY <2>1, <2>2, <2>3, <2>4
<1> QED
  BY <1>2, <1>3

\* Between two operations rb_first, rb_last, rb_next and rb_prev go through the
\* addresses in order, in both directions.
THEOREM WalksInOrder == Spec => []WalkIsSorted
<1>1. IInv => WalkIsSorted
  <2> SUFFICES ASSUME NEW S, Holds(S), pc = "idle"
               PROVE  WalkIsSorted
    BY DEF IInv, WalkIsSorted
  <2> DEFINE least(T) == IF T = {} THEN NULL ELSE Min(T)
             greatest(T) == IF T = {} THEN NULL ELSE Max(T)
  <2>1. PICK sub, h : Inv(S, sub, h)
    BY DEF Holds
  <2>2. Shape(tree, S, sub) /\ Loose(tree, S, NULL)
    BY <2>1 DEF Inv
  <2>3. Found = S
    BY FoundIs
  <2>4. S \in SUBSET Nat /\ "left" \in Side /\ "right" \in Side
    BY <2>2, Basics DEF Side
  <2>o. Opp("left") = "right" /\ Opp("right") = "left"
    BY DEF Opp
  <2>5. Extreme(tree, "left") = least(S)
    BY <2>2, <2>4, ExtremeIs, FarthestIs
  <2>6. Extreme(tree, "right") = greatest(S)
    BY <2>2, <2>4, ExtremeIs, FarthestIs
  <2>7. ASSUME NEW n \in S
        PROVE  /\ Neighbour(tree, "right", n) = least({m \in S : m > n})
               /\ Neighbour(tree, "left", n) = greatest({m \in S : m < n})
    <3>1. Beyond(S, "right", n) = {m \in S : m > n} /\ Beyond(S, "left", n) = {m \in S : m < n}
      <4>1. n \in Nat /\ \A m \in S : m \in Nat
        BY <2>4
      <4>2. \A m \in S : (Before("right", m, n) <=> m > n) /\ (Before("left", m, n) <=> m < n)
        BY <4>1 DEF Before
      <4> QED
        BY <4>2 DEF Beyond
    <3>2. Beyond(S, "right", n) \in SUBSET Nat /\ Beyond(S, "left", n) \in SUBSET Nat
      BY <2>4 DEF Beyond
    <3>3. Neighbour(tree, "right", n) = least(Beyond(S, "right", n))
      BY <2>2, <2>4, <2>o, <3>2, NeighbourIs, FarthestIs
    <3>4. Neighbour(tree, "left", n) = greatest(Beyond(S, "left", n))
      BY <2>2, <2>4, <2>o, <3>2, NeighbourIs, FarthestIs
    <3> QED
      BY <3>1, <3>3, <3>4
  <2> QED
    BY <2>3, <2>5, <2>6, <2>7 DEF WalkIsSorted
<1> QED
  BY <1>1, Invariance, PTL
=============================================================================
