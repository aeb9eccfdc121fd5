------------------------------- MODULE Trees --------------------------------
(***************************************************************************)
(* A program that keeps elements in a red-black or a splay tree. What it   *)
(* has removed it frees: others write over its fields.                     *)
(***************************************************************************)
EXTENDS Sequences, SysTree
LOCAL INSTANCE FiniteSetsExt

CONSTANT TreeKinds      \* "RB", "SPLAY"

VARIABLES
  tree,         \* which of the two the program uses
  fields,       \* memory
  stored        \* the elements the program has put into the tree

treeVars == <<tree, fields, stored>>

Places == Elms \cup {Node}
Uninitialised == [x \in Places |-> Junk]
BeyondAll == [min |-> Min({Key[e] : e \in Elms}) - 1, max |-> Max({Key[e] : e \in Elms}) + 1]

TreeInit ==
  /\ tree \in TreeKinds
  /\ LET m == [root |-> Junk, left |-> Uninitialised, right |-> Uninitialised,
               parent |-> Uninitialised, color |-> Uninitialised]
     IN fields = IF tree = "RB" THEN RB_INIT(m) ELSE SPLAY_INIT(m)
  /\ stored = {}

Same(e) == {x \in stored : Key[x] = Key[e]}
Freed(m, S) ==
  LET Over(f) == [x \in Places |-> IF x \in S THEN Junk ELSE f[x]] IN
  [m EXCEPT !.left = Over(@), !.right = Over(@), !.parent = Over(@), !.color = Over(@)]

(* The program keeps elm only if there was none of its key.                *)
TreeInsert(elm) ==
  /\ elm \notin stored
  /\ fields' = IF tree = "RB" THEN RB_INSERT(fields, elm).mem ELSE SPLAY_INSERT(fields, elm).mem
  /\ stored' = IF Same(elm) = {} THEN stored \cup {elm} ELSE stored
  /\ UNCHANGED tree

(* RB_REMOVE takes an element of the tree, SPLAY_REMOVE any of its key.    *)
TreeRemove(elm) ==
  /\ tree = "RB" => elm \in stored
  /\ fields' = Freed(IF tree = "RB" THEN RB_REMOVE(fields, elm).mem ELSE SPLAY_REMOVE(fields, elm).mem,
                     Same(elm))
  /\ stored' = stored \ Same(elm)
  /\ UNCHANGED tree

(* Questions to a splay tree change it; those to a red-black tree do not.  *)
Ask ==
  /\ tree = "SPLAY"
  /\ \/ \E elm \in Elms : fields' = SPLAY_FIND(fields, elm).mem
     \/ \E elm \in stored : fields' = SPLAY_NEXT(fields, elm).mem
     \/ \E end \in {"min", "max"} : fields' = SPLAY_MIN_MAX(fields, BeyondAll[end]).mem
  /\ UNCHANGED <<tree, stored>>

TreeNext == Ask \/ \E elm \in Elms : TreeInsert(elm) \/ TreeRemove(elm)

TreeSpec == TreeInit /\ [][TreeNext]_treeVars
-----------------------------------------------------------------------------
RECURSIVE InOrder(_, _)
InOrder(m, x) ==
  IF x = NULL THEN <<>> ELSE InOrder(m, m.left[x]) \o <<x>> \o InOrder(m, m.right[x])

(***************************************************************************)
(* After any insertions, removals and searches the tree holds what the     *)
(* program has put in and not taken out, once, in the order of the keys.   *)
(***************************************************************************)
Sorted ==
  LET s == InOrder(fields, fields.root) IN
  /\ {s[i] : i \in DOMAIN s} = stored
  /\ \A i \in 1..(Len(s) - 1) : Key[s[i]] < Key[s[i + 1]]

(* Black elements on the way from x down to a leaf, or -1 if ways differ.  *)
RECURSIVE BlackHeight(_, _)
BlackHeight(m, x) ==
  IF x = NULL THEN 0
  ELSE LET l == BlackHeight(m, m.left[x])  r == BlackHeight(m, m.right[x])
       IN IF l = -1 \/ l # r THEN -1 ELSE l + (IF m.color[x] = RB_BLACK THEN 1 ELSE 0)

(* The three conditions of the comment at netbsd_sys_tree.h:50-53, and the *)
(* parents: what makes the height of a red-black tree logarithmic.         *)
Balanced ==
  tree = "RB" =>
    /\ BlackHeight(fields, fields.root) # -1
    /\ IsBlack(fields, fields.root)
    /\ fields.root # NULL => fields.parent[fields.root] = NULL
    /\ \A x \in stored : \A side \in {"left", "right"} : LET child == fields[side][x] IN
         child # NULL => /\ fields.parent[child] = x
                         /\ IsBlack(fields, x) \/ IsBlack(fields, child)

OrNull(S, Best(_)) == IF S = {} THEN NULL ELSE CHOOSE x \in S : Key[x] = Best({Key[y] : y \in S})
Above(e) == OrNull({x \in stored : Key[x] > Key[e]}, Min)
Below(e) == OrNull({x \in stored : Key[x] < Key[e]}, Max)

(***************************************************************************)
(* Every question has the answer a sorted list would give, in any shape of *)
(* the tree: what has a key, what comes next, before, first or last; an    *)
(* insertion answers with the element that is in its way.                  *)
(***************************************************************************)
Answers ==
  \A e \in Elms :
    LET same == OrNull(Same(e), Min)
        first == OrNull(stored, Min)
        last == OrNull(stored, Max) IN
    IF tree = "RB"
    THEN /\ RB_FIND(fields, e) = same
         /\ RB_NFIND(fields, e) = IF same # NULL THEN same ELSE Above(e)
         /\ e \notin stored => RB_INSERT(fields, e).ret = same
         /\ e \in stored => RB_NEXT(fields, e) = Above(e) /\ RB_PREV(fields, e) = Below(e)
         /\ RB_MINMAX(fields, "left") = first /\ RB_MINMAX(fields, "right") = last
    ELSE /\ SPLAY_FIND(fields, e).ret = same
         /\ SPLAY_REMOVE(fields, e).ret = IF same = NULL THEN NULL ELSE e
         /\ e \notin stored => SPLAY_INSERT(fields, e).ret = same
         /\ e \in stored => SPLAY_NEXT(fields, e).ret = Above(e)
         /\ SPLAY_MIN_MAX(fields, BeyondAll.min).ret = first
         /\ SPLAY_MIN_MAX(fields, BeyondAll.max).ret = last
=============================================================================
