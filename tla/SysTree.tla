------------------------------ MODULE SysTree -------------------------------
(***************************************************************************)
(* The red-black and splay trees of netbsd_sys_tree.h. Memory is a record  *)
(* of the fields: the root of the one head, and for each element left,     *)
(* right, parent and color. What the code writes twice, for left and for   *)
(* right, is written here once, for a side. RB_AUGMENT is what it is when  *)
(* a program does not define it: nothing.                                  *)
(***************************************************************************)
EXTENDS Integers, Pointers

CONSTANTS
  Elms,         \* the elements
  Key,          \* the key of each; cmp compares the keys
  Node          \* __node, the local variable of SPLAY

ASSUME TreeAssumption ==
  /\ Key \in [Elms -> Int]
  /\ Node \notin Elms /\ NULL \notin Elms \cup {Node} /\ Junk \notin Elms \cup {Node}

KeyOf(e) == Key[e]
Other(side) == IF side = "left" THEN "right" ELSE "left"
Towards(e, x) == IF KeyOf(e) < KeyOf(x) THEN "left" ELSE "right"

(* What a call leaves in memory, and what it returns.                      *)
Returning(m, elm) == [mem |-> m, ret |-> elm]

RB_BLACK == 0
RB_RED == 1
RB_INIT(m) == [m EXCEPT !.root = NULL]

(* Mutant: a new element is black.                                         *)
RB_SET_BLACK(m, elm, parent) ==
  [m EXCEPT !.parent[elm] = parent, !.left[elm] = NULL, !.right[elm] = NULL, !.color[elm] = RB_BLACK]

RB_SET(m, elm, parent) ==
  [m EXCEPT !.parent[elm] = parent, !.left[elm] = NULL, !.right[elm] = NULL, !.color[elm] = RB_RED]

RB_SET_BLACKRED(m, black, red) == [m EXCEPT !.color[black] = RB_BLACK, !.color[red] = RB_RED]

(* new becomes the child of parent that old is, or the root.               *)
Replace(m, parent, old, new) ==
  IF parent = NULL THEN [m EXCEPT !.root = new]
  ELSE IF m.left[parent] = old THEN [m EXCEPT !.left[parent] = new]
  ELSE [m EXCEPT !.right[parent] = new]

SetParent(m, x, parent) == IF x = NULL THEN m ELSE [m EXCEPT !.parent[x] = parent]
IsBlack(m, x) == x = NULL \/ m.color[x] = RB_BLACK
Blacken(m, x) == IF x = NULL THEN m ELSE [m EXCEPT !.color[x] = RB_BLACK]

(* elm goes down to the side, and its other child comes up.                *)
RB_ROTATE(m, elm, side) ==
  LET tmp == m[Other(side)][elm]
      m1 == SetParent([m EXCEPT ![Other(side)][elm] = m[side][tmp]], m[side][tmp], elm)
      m2 == Replace([m1 EXCEPT !.parent[tmp] = m1.parent[elm]], m1.parent[elm], elm, tmp)
  IN [m2 EXCEPT ![side][tmp] = elm, !.parent[elm] = tmp]
RB_ROTATE_LEFT(m, elm) == RB_ROTATE(m, elm, "left")
RB_ROTATE_RIGHT(m, elm) == RB_ROTATE(m, elm, "right")
Rotate(m, elm, side) == IF side = "left" THEN RB_ROTATE_LEFT(m, elm) ELSE RB_ROTATE_RIGHT(m, elm)

RECURSIVE RB_INSERT_COLOR(_, _)
RB_INSERT_COLOR(m, elm) ==
  LET parent == m.parent[elm]
      gparent == m.parent[parent]
      side == IF parent = m.left[gparent] THEN "left" ELSE "right"
      uncle == m[Other(side)][gparent]
      turned == m[Other(side)][parent] = elm
      m1 == IF turned THEN Rotate(m, parent, side) ELSE m
      upper == IF turned THEN elm ELSE parent
  IN IF parent = NULL \/ IsBlack(m, parent) THEN Blacken(m, m.root)
     ELSE IF ~IsBlack(m, uncle)
       THEN RB_INSERT_COLOR(RB_SET_BLACKRED(Blacken(m, uncle), parent, gparent), gparent)
       ELSE RB_INSERT_COLOR(Rotate(RB_SET_BLACKRED(m1, upper, gparent), gparent, Other(side)),
                            IF turned THEN parent ELSE elm)

(* The sibling, black, has a red child: the last turn.                     *)
Borrow(m, parent, side) ==
  LET far == Other(side)
      tmp == m[far][parent]
      near == m[side][tmp]
      m1 == IF IsBlack(m, m[far][tmp])
            THEN Rotate([Blacken(m, near) EXCEPT !.color[tmp] = RB_RED], tmp, far) ELSE m
      sibling == m1[far][parent]
      m2 == [m1 EXCEPT !.color[sibling] = m1.color[parent], !.color[parent] = RB_BLACK]
  IN Rotate(Blacken(m2, m2[far][sibling]), parent, side)

RECURSIVE RB_REMOVE_COLOR(_, _, _)
RB_REMOVE_COLOR(m, parent, elm) ==
  LET side == IF m.left[parent] = elm THEN "left" ELSE "right"
      red == m[Other(side)][parent]
      m1 == IF IsBlack(m, red) THEN m ELSE Rotate(RB_SET_BLACKRED(m, red, parent), parent, side)
      tmp == m1[Other(side)][parent]
  IN IF ~IsBlack(m, elm) \/ elm = m.root THEN Blacken(m, elm)
     ELSE IF IsBlack(m1, m1.left[tmp]) /\ IsBlack(m1, m1.right[tmp])
       THEN RB_REMOVE_COLOR([m1 EXCEPT !.color[tmp] = RB_RED], m1.parent[parent], parent)
       ELSE LET m2 == Borrow(m1, parent, side) IN Blacken(m2, m2.root)

(* while ((left = RB_LEFT(elm)) != NULL) elm = left; and its mirror image. *)
RECURSIVE Furthest(_, _, _)
Furthest(m, elm, side) == IF m[side][elm] = NULL THEN elm ELSE Furthest(m, m[side][elm], side)

RB_REMOVE(m, old) ==
  LET two == m.left[old] # NULL /\ m.right[old] # NULL
      elm == IF two THEN Furthest(m, m.right[old], "left") ELSE old
      child == IF m.left[elm] = NULL THEN m.right[elm] ELSE m.left[elm]
      parent == m.parent[elm]
      m1 == Replace(SetParent(m, child, parent), parent, elm, child)
      m2 == [m1 EXCEPT !.left[elm] = m1.left[old], !.right[elm] = m1.right[old],
                       !.parent[elm] = m1.parent[old], !.color[elm] = m1.color[old]]
      m3 == Replace(m2, m2.parent[old], old, elm)
      m4 == IF two THEN SetParent(SetParent(m3, m3.left[old], elm), m3.right[old], elm) ELSE m1
      hole == IF two /\ parent = old THEN elm ELSE parent
  IN Returning(IF IsBlack(m, elm) THEN RB_REMOVE_COLOR(m4, hole, child) ELSE m4, old)
-----------------------------------------------------------------------------
(* Where the search for the key of elm ends: the element with that key, or *)
(* the one below which it would be.                                        *)
RECURSIVE Descend(_, _, _)
Descend(m, elm, tmp) ==
  LET next == m[Towards(elm, tmp)][tmp]
  IN IF KeyOf(elm) = KeyOf(tmp) \/ next = NULL THEN tmp ELSE Descend(m, elm, next)

RB_INSERT(m, elm) ==
  LET parent == IF m.root = NULL THEN NULL ELSE Descend(m, elm, m.root)
      m1 == RB_SET(m, elm, parent)
      m2 == IF parent = NULL THEN [m1 EXCEPT !.root = elm] ELSE [m1 EXCEPT ![Towards(elm, parent)][parent] = elm]
  IN IF parent # NULL /\ KeyOf(parent) = KeyOf(elm) THEN Returning(m, parent)
     ELSE Returning(RB_INSERT_COLOR(m2, elm), NULL)

RB_FIND(m, elm) ==
  IF m.root = NULL THEN NULL
  ELSE LET tmp == Descend(m, elm, m.root) IN IF KeyOf(tmp) = KeyOf(elm) THEN tmp ELSE NULL

RECURSIVE Bound(_, _, _, _)
Bound(m, elm, tmp, res) ==
  IF tmp = NULL THEN res
  ELSE IF KeyOf(elm) = KeyOf(tmp) THEN tmp
  ELSE IF KeyOf(elm) < KeyOf(tmp) THEN Bound(m, elm, m.left[tmp], tmp)
  ELSE Bound(m, elm, m.right[tmp], res)
RB_NFIND(m, elm) == Bound(m, elm, m.root, NULL)

(* Up, as long as elm is the child on that side.                           *)
RECURSIVE Climb(_, _, _)
Climb(m, elm, side) ==
  IF m.parent[elm] # NULL /\ elm = m[side][m.parent[elm]] THEN Climb(m, m.parent[elm], side)
  ELSE m.parent[elm]

(* Mutant: the climb stops one step early.                                 *)
RB_NEXT_ONCE(m, elm) ==
  IF m.right[elm] # NULL THEN Furthest(m, m.right[elm], "left") ELSE m.parent[elm]

RB_NEXT(m, elm) ==
  IF m.right[elm] # NULL THEN Furthest(m, m.right[elm], "left") ELSE Climb(m, elm, "right")

RB_PREV(m, elm) ==
  IF m.left[elm] # NULL THEN Furthest(m, m.left[elm], "right") ELSE Climb(m, elm, "left")
RB_MINMAX(m, side) == IF m.root = NULL THEN NULL ELSE Furthest(m, m.root, side)
-----------------------------------------------------------------------------
SPLAY_INIT(m) == [m EXCEPT !.root = NULL]

(* tmp, the child of the root on the side, becomes the root.               *)
SPLAY_ROTATE(m, tmp, side) ==
  [m EXCEPT ![side][m.root] = m[Other(side)][tmp], ![Other(side)][tmp] = m.root, !.root = tmp]
SPLAY_ROTATE_RIGHT(m, tmp) == SPLAY_ROTATE(m, tmp, "left")
SPLAY_ROTATE_LEFT(m, tmp) == SPLAY_ROTATE(m, tmp, "right")

(* The root is hung below tmp, the last of the tree on its other side.     *)
SPLAY_LINKLEFT(m, tmp) == [m EXCEPT !.left[tmp] = m.root, !.root = m.left[m.root]]
SPLAY_LINKRIGHT(m, tmp) == [m EXCEPT !.right[tmp] = m.root, !.root = m.right[m.root]]

(* Mutant: the left child of the new root is not hung below the left tree. *)
SPLAY_ASSEMBLE_LOSE(m, left, right) ==
  LET m2 == [m EXCEPT !.left[right] = m.right[m.root]]
  IN [m2 EXCEPT !.left[m.root] = m2.right[Node], !.right[m.root] = m2.left[Node]]

SPLAY_ASSEMBLE(m, left, right) ==
  LET m1 == [m EXCEPT !.right[left] = m.left[m.root]]
      m2 == [m1 EXCEPT !.left[right] = m1.right[m1.root]]
  IN [m2 EXCEPT !.left[m.root] = m2.right[Node], !.right[m.root] = m2.left[Node]]

(* The loop of SPLAY for a key, and of SPLAY_MINMAX for one beyond all;    *)
(* left and right are the last elements of the trees below __node.         *)
RECURSIVE SplayLoop(_, _, _, _)
SplayLoop(m, key, left, right) ==
  LET root == m.root
      side == IF key < KeyOf(root) THEN "left" ELSE "right"
      tmp == m[side][root]
      beyond == IF side = "left" THEN key < KeyOf(tmp) ELSE key > KeyOf(tmp)
      m1 == IF ~beyond THEN m
            ELSE IF side = "left" THEN SPLAY_ROTATE_RIGHT(m, tmp) ELSE SPLAY_ROTATE_LEFT(m, tmp)
  IN IF key = KeyOf(root) \/ tmp = NULL THEN SPLAY_ASSEMBLE(m, left, right)
     ELSE IF m1[side][m1.root] = NULL THEN SPLAY_ASSEMBLE(m1, left, right)
     ELSE IF side = "left" THEN SplayLoop(SPLAY_LINKLEFT(m1, right), key, left, m1.root)
     ELSE SplayLoop(SPLAY_LINKRIGHT(m1, left), key, m1.root, right)

(* __node is gone when the function returns.                               *)
SplayTo(m, key) ==
  LET m1 == SplayLoop([m EXCEPT !.left[Node] = NULL, !.right[Node] = NULL], key, Node, Node)
  IN [m1 EXCEPT !.left[Node] = Junk, !.right[Node] = Junk]
SPLAY(m, elm) == SplayTo(m, KeyOf(elm))
SPLAY_MINMAX(m, beyondAll) == SplayTo(m, beyondAll)

SPLAY_INSERT(m, elm) ==
  LET m1 == SPLAY(m, elm)
      side == Towards(elm, m1.root)
  IN IF m.root = NULL THEN Returning([m EXCEPT !.left[elm] = NULL, !.right[elm] = NULL, !.root = elm], NULL)
     ELSE IF KeyOf(elm) = KeyOf(m1.root) THEN Returning(m1, m1.root)
     ELSE Returning([m1 EXCEPT ![side][elm] = m1[side][m1.root], ![Other(side)][elm] = m1.root,
                               ![side][m1.root] = NULL, !.root = elm], NULL)

(* It returns elm, not the element of that key it has taken out.           *)
SPLAY_REMOVE(m, elm) ==
  LET m1 == SPLAY(m, elm)
      right == m1.right[m1.root]
      m2 == SPLAY([m1 EXCEPT !.root = m1.left[m1.root]], elm)
  IN IF m.root = NULL THEN Returning(m, NULL)
     ELSE IF KeyOf(elm) # KeyOf(m1.root) THEN Returning(m1, NULL)
     ELSE IF m1.left[m1.root] = NULL THEN Returning([m1 EXCEPT !.root = right], elm)
     ELSE Returning([m2 EXCEPT !.right[m2.root] = right], elm)

SPLAY_FIND(m, elm) ==
  IF m.root = NULL THEN Returning(m, NULL)
  ELSE LET m1 == SPLAY(m, elm) IN Returning(m1, IF KeyOf(elm) = KeyOf(m1.root) THEN m1.root ELSE NULL)

(* elm is in the tree.                                                     *)
SPLAY_NEXT(m, elm) ==
  LET m1 == SPLAY(m, elm)
  IN Returning(m1, IF m1.right[elm] = NULL THEN NULL ELSE Furthest(m1, m1.right[elm], "left"))

SPLAY_MIN_MAX(m, beyondAll) ==
  IF m.root = NULL THEN Returning(m, NULL)
  ELSE LET m1 == SPLAY_MINMAX(m, beyondAll) IN Returning(m1, m1.root)
=============================================================================
