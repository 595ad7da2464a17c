------------------------------- MODULE RBTree -------------------------------
(***************************************************************************)
(* signal_test/rbtree.c and the functions of signal_test/breakpoint.c that *)
(* keep the breakpoint entries in it: the tree that the SIGTRAP handler    *)
(* searches for the address it trapped at.                                 *)
(*                                                                         *)
(* An entry is named by its address.  One round of a rebalancing loop is   *)
(* one action; breakpoint_lock is held from the call to the return, so one *)
(* operation is under way at a time.  The code writes every case of the    *)
(* loops twice, for the two sides; here the side is a parameter.           *)
(***************************************************************************)
EXTENDS Naturals, FiniteSets, FiniteSetsExt

CONSTANTS
  Key,    \* addresses of breakpoint entries
  NULL

ASSUME KeyAssumption == Key \subseteq Nat /\ IsFiniteSet(Key) /\ NULL \notin Key

RED == 0
BLACK == 1

Side == {"left", "right"}
Opp(d) == IF d = "left" THEN "right" ELSE "left"

VARIABLES
  tree,     \* the root and, per entry, rb_left, rb_right, rb_parent, rb_color
  pc,       \* "idle", or the loop that is running
  node,     \* the loop's node
  parent,   \* __rb_erase_color's parent
  victim    \* the entry that breakpoint_rb_delete is removing

vars == <<tree, pc, node, parent, victim>>

\* breakpoint_new: an entry outside the tree is its own parent (RB_EMPTY_NODE).
Init ==
  /\ tree = [root |-> NULL,
             left |-> [n \in Key |-> NULL],
             right |-> [n \in Key |-> NULL],
             parent |-> [n \in Key |-> n],
             color |-> [n \in Key |-> RED]]
  /\ pc = "idle" /\ node = NULL /\ parent = NULL /\ victim = NULL

-----------------------------------------------------------------------------
(* The macros of rbtree.h. *)

Red(t, n) == n # NULL /\ t.color[n] = RED
Black(t, n) == ~Red(t, n)
Paint(t, n, c) == [t EXCEPT !.color[n] = c]
SetParent(t, n, p) == IF n = NULL THEN t ELSE [t EXCEPT !.parent[n] = p]
SideOf(t, n) == IF t.left[t.parent[n]] = n THEN "left" ELSE "right"

\* Hang new where old hangs from p.
Hang(t, p, old, new) ==
  IF p = NULL THEN [t EXCEPT !.root = new]
  ELSE IF t.left[p] = old THEN [t EXCEPT !.left[p] = new]
  ELSE [t EXCEPT !.right[p] = new]

\* Mutant of Rotate: the inner subtree keeps its old parent.
Rotate_InnerOrphan(t, d, n) ==
  LET up == t[Opp(d)][n]
      t1 == [t EXCEPT ![Opp(d)][n] = t[d][up], ![d][up] = n]
  IN  SetParent(Hang(SetParent(t1, up, t.parent[n]), t.parent[n], n, up), n, up)

\* __rb_rotate_left and __rb_rotate_right: n goes down on side d, its other
\* child takes its place.
Rotate(t, d, n) ==
  LET up == t[Opp(d)][n]
      t1 == SetParent([t EXCEPT ![Opp(d)][n] = t[d][up]], t[d][up], n)
      t2 == SetParent([t1 EXCEPT ![d][up] = n], up, t.parent[n])
  IN  SetParent(Hang(t2, t.parent[n], n, up), n, up)

\* A loop that goes from n to step[n], from there on, and stops in stop.
WalkEnd(step, stop, n) ==
  LET end[m \in Key] == IF m \in stop THEN m ELSE end[step[m]] IN end[n]

\* The last node on the way from n to side d.
Outermost(t, d, n) == WalkEnd(t[d], {m \in Key : t[d][m] = NULL}, n)

\* The node at which the search for k ends: k itself or its parent to be.
Descend(t, k) ==
  LET next == [n \in Key |-> IF k < n THEN t.left[n] ELSE t.right[n]]
  IN  IF t.root = NULL THEN NULL
      ELSE WalkEnd(next, {n \in Key : n = k \/ next[n] = NULL}, t.root)

breakpoint_rb_find_internal(t, k) ==
  IF Descend(t, k) = k THEN k ELSE NULL

-----------------------------------------------------------------------------
(* Insertion. *)

\* rb_link_node: a red leaf.
rb_link_node(t, k, p) ==
  LET t1 == [t EXCEPT !.parent[k] = p, !.color[k] = RED,
                      !.left[k] = NULL, !.right[k] = NULL]
  IN  IF p = NULL THEN [t1 EXCEPT !.root = k]
      ELSE [t1 EXCEPT ![IF k < p THEN "left" ELSE "right"][p] = k]

\* breakpoint_rb_search_insert of an address that is in the tree returns -1
\* and leaves the tree alone.
Insert(k) ==
  /\ pc = "idle"
  /\ breakpoint_rb_find_internal(tree, k) = NULL
  /\ tree' = rb_link_node(tree, k, Descend(tree, k))
  /\ pc' = "insert" /\ node' = k
  /\ UNCHANGED <<parent, victim>>

InsertLoops == pc = "insert" /\ Red(tree, tree.parent[node])
GParent == tree.parent[tree.parent[node]]
Uncle == tree[Opp(SideOf(tree, tree.parent[node]))][GParent]

\* Mutant of InsertRecolour: climbs to the grandparent's parent.
InsertRecolour_TooFar ==
  /\ InsertLoops /\ Red(tree, Uncle)
  /\ tree' = Paint(Paint(Paint(tree, Uncle, BLACK), tree.parent[node], BLACK),
                   GParent, RED)
  /\ node' = tree.parent[GParent]
  /\ UNCHANGED <<pc, parent, victim>>

\* The uncle is red: push the red up by two levels.
InsertRecolour ==
  /\ InsertLoops /\ Red(tree, Uncle)
  /\ tree' = Paint(Paint(Paint(tree, Uncle, BLACK), tree.parent[node], BLACK),
                   GParent, RED)
  /\ node' = GParent
  /\ UNCHANGED <<pc, parent, victim>>

\* The uncle is black: an inner node is rotated outwards first, then the
\* grandparent goes down on the uncle's side.
InsertRotate ==
  /\ InsertLoops /\ Black(tree, Uncle)
  /\ LET p == tree.parent[node]
         g == GParent
         d == SideOf(tree, p)
         inner == tree[Opp(d)][p] = node
         t1 == IF inner THEN Rotate(tree, d, p) ELSE tree
         top == IF inner THEN node ELSE p
     IN  /\ tree' = Rotate(Paint(Paint(t1, top, BLACK), g, RED), Opp(d), g)
         /\ node' = IF inner THEN p ELSE node
  /\ UNCHANGED <<pc, parent, victim>>

\* Mutant of InsertReturns: breakpoint_lock is not released.
InsertReturns_KeepsLock ==
  /\ pc = "insert" /\ ~InsertLoops
  /\ tree' = Paint(tree, tree.root, BLACK)
  /\ UNCHANGED <<pc, node, parent, victim>>

\* The loop ends, the root is painted black and the lock is released.
InsertReturns ==
  /\ pc = "insert" /\ ~InsertLoops
  /\ tree' = Paint(tree, tree.root, BLACK)
  /\ pc' = "idle" /\ node' = NULL
  /\ UNCHANGED <<parent, victim>>

-----------------------------------------------------------------------------
(* Deletion. *)

\* rb_erase, at most one child: it takes the entry's place.
Unlink(t, k) ==
  LET child == IF t.left[k] = NULL THEN t.right[k] ELSE t.left[k]
      p == t.parent[k]
  IN  [tree |-> Hang(SetParent(t, child, p), p, k, child),
       child |-> child, parent |-> p, color |-> t.color[k]]

\* Mutant of Splice: the successor's own child is dropped.
Splice_DropsChild(t, k) ==
  LET s == Outermost(t, "left", t.right[k])
      child == t.right[s]
      direct == t.parent[s] = k
      t1 == Hang(t, t.parent[k], k, s)
      t2 == IF direct THEN t1
            ELSE SetParent([SetParent(t1, child, t.parent[s])
                              EXCEPT !.left[t.parent[s]] = NULL,
                                     !.right[s] = t.right[k]], t.right[k], s)
      t3 == [t2 EXCEPT !.parent[s] = t.parent[k], !.color[s] = t.color[k],
                       !.left[s] = t.left[k]]
  IN  [tree |-> SetParent(t3, t.left[k], s), child |-> child,
       parent |-> IF direct THEN s ELSE t.parent[s], color |-> t.color[s]]

\* rb_erase, two children: the successor is cut out and takes the entry's
\* place and colour.
Splice(t, k) ==
  LET s == Outermost(t, "left", t.right[k])
      child == t.right[s]
      direct == t.parent[s] = k
      t1 == Hang(t, t.parent[k], k, s)
      t2 == IF direct THEN t1
            ELSE SetParent([SetParent(t1, child, t.parent[s])
                              EXCEPT !.left[t.parent[s]] = child,
                                     !.right[s] = t.right[k]], t.right[k], s)
      t3 == [t2 EXCEPT !.parent[s] = t.parent[k], !.color[s] = t.color[k],
                       !.left[s] = t.left[k]]
  IN  [tree |-> SetParent(t3, t.left[k], s), child |-> child,
       parent |-> IF direct THEN s ELSE t.parent[s], color |-> t.color[s]]

\* Mutant of Delete: the fix-up runs for a red entry too.
Delete_FixAlways(k) ==
  /\ pc = "idle"
  /\ breakpoint_rb_find_internal(tree, k) = k
  /\ LET e == IF tree.left[k] = NULL \/ tree.right[k] = NULL
              THEN Unlink(tree, k) ELSE Splice(tree, k)
     IN  /\ tree' = e.tree /\ node' = e.child /\ parent' = e.parent
         /\ pc' = "erase"
  /\ victim' = k

\* breakpoint_rb_delete of an address that is in the tree; of another one it
\* returns NULL and leaves the tree alone.
Delete(k) ==
  /\ pc = "idle"
  /\ breakpoint_rb_find_internal(tree, k) = k
  /\ LET e == IF tree.left[k] = NULL \/ tree.right[k] = NULL
              THEN Unlink(tree, k) ELSE Splice(tree, k)
     IN  /\ tree' = e.tree /\ node' = e.child /\ parent' = e.parent
         /\ pc' = IF e.color = BLACK THEN "erase" ELSE "clear"
  /\ victim' = k

EraseLoops == pc = "erase" /\ Black(tree, node) /\ node # tree.root

EraseSide == IF tree.left[parent] = node THEN "left" ELSE "right"

\* A red sibling is rotated away first.
SiblingBlack ==
  LET d == EraseSide
      other == tree[Opp(d)][parent]
  IN  IF Red(tree, other)
      THEN Rotate(Paint(Paint(tree, other, BLACK), parent, RED), d, parent)
      ELSE tree

\* The sibling has no red child: it turns red and the loop climbs.
EraseClimb ==
  /\ EraseLoops
  /\ \E t \in {SiblingBlack} :
       LET other == t[Opp(EraseSide)][parent] IN
       /\ Black(t, t.left[other]) /\ Black(t, t.right[other])
       /\ tree' = Paint(t, other, RED)
       /\ node' = parent /\ parent' = t.parent[parent]
  /\ UNCHANGED <<pc, victim>>

\* A red child of the sibling on the near side only is rotated outwards.
NephewOutside(t) ==
  LET d == EraseSide
      other == t[Opp(d)][parent]
  IN  IF Red(t, t[Opp(d)][other]) THEN t
      ELSE Rotate(Paint(Paint(t, t[d][other], BLACK), other, RED), Opp(d), other)

\* It has one: it is moved to the far side, and the sibling takes the parent's
\* place and colour; the loop ends with the root as its node.
EraseRotate ==
  /\ EraseLoops
  /\ LET far == Opp(EraseSide) IN
     /\ \E t \in {SiblingBlack} :
          /\ \E d \in Side : Red(t, t[d][t[far][parent]])
          /\ \E t1 \in {NephewOutside(t)} :
               LET other == t1[far][parent]
                   t2 == Paint(t1, other, t1.color[parent])
                   t3 == Paint(Paint(t2, parent, BLACK), t1[far][other], BLACK)
               IN  tree' = Rotate(t3, EraseSide, parent)
     /\ node' = tree'.root
  /\ UNCHANGED <<pc, parent, victim>>

\* Mutant of EraseDone: a red child that took the place of a black entry stays red.
EraseDone_NoPaint ==
  /\ pc = "erase" /\ ~EraseLoops
  /\ pc' = "clear"
  /\ UNCHANGED <<tree, node, parent, victim>>

\* The end of __rb_erase_color: the node at which the loop ended turns black.
EraseDone ==
  /\ pc = "erase" /\ ~EraseLoops
  /\ tree' = IF node = NULL THEN tree ELSE Paint(tree, node, BLACK)
  /\ pc' = "clear"
  /\ UNCHANGED <<node, parent, victim>>

\* breakpoint_rb_delete_internal clears the entry (RB_CLEAR_NODE) and returns
\* it.  What else is left in the entry is overwritten by rb_link_node before
\* it is read; the model forgets it.
DeleteReturns ==
  /\ pc = "clear"
  /\ tree' = [tree EXCEPT !.parent[victim] = victim, !.color[victim] = RED,
                          !.left[victim] = NULL, !.right[victim] = NULL]
  /\ pc' = "idle" /\ node' = NULL /\ parent' = NULL /\ victim' = NULL

-----------------------------------------------------------------------------
Step == \/ InsertRecolour \/ InsertRotate \/ InsertReturns
        \/ EraseClimb \/ EraseRotate \/ EraseDone \/ DeleteReturns

Next == (\E k \in Key : Insert(k) \/ Delete(k)) \/ Step

\* The thread inside an operation holds breakpoint_lock and never waits.
Spec == Init /\ [][Next]_vars /\ WF_vars(Step)

-----------------------------------------------------------------------------
(* Walking the tree. *)

\* rb_first (d = "left") and rb_last (d = "right").
Extreme(t, d) == IF t.root = NULL THEN NULL ELSE Outermost(t, d, t.root)

\* Mutant of Neighbour: an entry without a child on side d has no neighbour
\* but its parent.
Neighbour_NoClimb(t, d, n) ==
  IF t[d][n] # NULL THEN Outermost(t, Opp(d), t[d][n])
  ELSE t.parent[n]

\* rb_next (d = "right") and rb_prev (d = "left").
Neighbour(t, d, n) ==
  IF t.parent[n] = n THEN NULL
  ELSE IF t[d][n] # NULL THEN Outermost(t, Opp(d), t[d][n])
  ELSE t.parent[WalkEnd(t.parent, {m \in Key : t.parent[m] = NULL \/ t[d][t.parent[m]] # m}, n)]

-----------------------------------------------------------------------------
(* Properties. *)

Ptr == Key \cup {NULL}

\* The entries that a search finds.
Found == {k \in Key : breakpoint_rb_find_internal(tree, k) = k}

\* The tree's fields are pointers to entries, and the insertion loop always has
\* a node to work on.
TypeOK ==
  /\ tree \in [root : Ptr, left : [Key -> Ptr], right : [Key -> Ptr],
               parent : [Key -> Ptr], color : [Key -> {RED, BLACK}]]
  /\ pc \in {"idle", "insert", "erase", "clear"}
  /\ node \in Ptr /\ parent \in Ptr /\ victim \in Ptr
  /\ pc = "insert" => node \in Key

\* A pointer down and the pointer back up agree at every step of every
\* rebalancing, and only entries that a search finds are linked: an entry
\* outside the tree passes the assertion RB_EMPTY_NODE of
\* breakpoint_rb_insert_internal.
LinksMatch ==
  LET found == Found IN
  /\ tree.root # NULL => tree.parent[tree.root] = NULL
  /\ \A n \in found :
       /\ \A d \in Side : tree[d][n] # NULL => tree.parent[tree[d][n]] = n
       /\ tree.parent[n] \in found \cup {NULL}
  /\ \A n \in Key \ (found \cup {victim}) : tree.parent[n] = n

\* Between two operations the tree is a red-black tree: the root is black, a
\* red entry has no red child, and every path down passes the same number of
\* black entries.
Balanced ==
  LET blacks[n \in Ptr] ==
        IF n = NULL THEN {0}
        ELSE {h + tree.color[n] : h \in blacks[tree.left[n]] \cup blacks[tree.right[n]]}
  IN  pc = "idle" =>
        /\ Black(tree, tree.root)
        /\ \A n \in Found : Red(tree, n) => \A d \in Side : Black(tree, tree[d][n])
        /\ Cardinality(blacks[tree.root]) = 1

\* The loops follow gparent, parent and other, before and after the red sibling
\* is rotated away, without a test for NULL (rbtree.c:71, 128, 130, 136): none
\* of them is ever NULL.
NeverFollowsNull ==
  /\ InsertLoops => GParent # NULL
  /\ EraseLoops => /\ parent # NULL
                   /\ tree[Opp(EraseSide)][parent] # NULL
                   /\ SiblingBlack[Opp(EraseSide)][parent] # NULL

\* Between two operations rb_first, rb_last, rb_next and rb_prev walk the
\* addresses in order, in both directions.
WalkIsSorted ==
  LET found == Found
      least(S) == IF S = {} THEN NULL ELSE Min(S)
      greatest(S) == IF S = {} THEN NULL ELSE Max(S)
  IN  pc = "idle" =>
        /\ Extreme(tree, "left") = least(found)
        /\ Extreme(tree, "right") = greatest(found)
        /\ \A n \in found :
             /\ Neighbour(tree, "right", n) = least({m \in found : m > n})
             /\ Neighbour(tree, "left", n) = greatest({m \in found : m < n})

\* What a search finds changes by exactly the address that is inserted or
\* deleted, in one step; no rotation loses or gains one.
ImplementsSet == INSTANCE AddrSet WITH addrs <- Found
ImplementsAddrSet == ImplementsSet!Spec

\* Every insertion and deletion returns: the rebalancing loops end.
OperationReturns == (pc # "idle") ~> (pc = "idle")
=============================================================================
