----------------------------- MODULE SysQueue -------------------------------
(***************************************************************************)
(* The queue macros of netbsd_sys_queue.h, one operator for each, as       *)
(* functions from memory to memory. An object of memory, a head or an      *)
(* element, has two fields: next (in a head: first) and prev (in a head:   *)
(* last). A pointer to a pointer field is written as the object that holds *)
(* the field, so *(elm)->le_prev is m.next[m.prev[elm]].                   *)
(***************************************************************************)
EXTENDS Integers, FiniteSets, Pointers

CONSTANTS Heads, Nodes

Objects == Heads \cup Nodes

ASSUME QueueAssumption ==
  /\ Heads \cap Nodes = {} /\ IsFiniteSet(Nodes)
  /\ NULL \notin Objects /\ Junk \notin Objects

Memory == [next : [Objects -> Objects \cup {NULL, Junk}], prev : [Objects -> Objects \cup {NULL, Junk}]]
Fresh == [next |-> [x \in Objects |-> Junk], prev |-> [x \in Objects |-> Junk]]

SetNext(m, x, v) == [m EXCEPT !.next[x] = v]
SetPrev(m, x, v) == [m EXCEPT !.prev[x] = v]

(* while (curelm->next != elm) curelm = curelm->next;                      *)
WalkTo(m, head, elm) ==
  LET walk[n \in 0..Cardinality(Nodes)] == IF n = 0 THEN m.next[head] ELSE m.next[walk[n - 1]]
  IN walk[CHOOSE n \in 0..Cardinality(Nodes) : /\ m.next[walk[n]] = elm
                                              /\ \A k \in 0..n - 1 : m.next[walk[k]] # elm]
-----------------------------------------------------------------------------
(* LIST                                                                    *)
LIST_INIT(m, head) == SetNext(m, head, NULL)

LIST_INSERT_AFTER(m, listelm, elm) ==
  LET m1 == SetNext(m, elm, m.next[listelm])
      m2 == IF m1.next[elm] # NULL THEN SetPrev(m1, m1.next[listelm], elm) ELSE m1
  IN SetPrev(SetNext(m2, listelm, elm), elm, listelm)

LIST_INSERT_BEFORE(m, listelm, elm) ==
  LET m1 == SetNext(SetPrev(m, elm, m.prev[listelm]), elm, listelm)
  IN SetPrev(SetNext(m1, m1.prev[listelm], elm), listelm, elm)

LIST_INSERT_HEAD(m, head, elm) ==
  LET m1 == SetNext(m, elm, m.next[head])
      m2 == IF m1.next[elm] # NULL THEN SetPrev(m1, m1.next[head], elm) ELSE m1
  IN SetPrev(SetNext(m2, head, elm), elm, head)

LIST_REMOVE(m, elm) ==
  LET m1 == IF m.next[elm] # NULL THEN SetPrev(m, m.next[elm], m.prev[elm]) ELSE m
  IN SetNext(m1, m1.prev[elm], m1.next[elm])

LIST_FIRST(m, head) == m.next[head]
LIST_NEXT(m, elm) == m.next[elm]

(* The checks of QUEUEDEBUG: TRUE where the macro does not panic.          *)
QUEUEDEBUG_LIST_INSERT_HEAD(m, head) == m.next[head] # NULL => m.prev[m.next[head]] = head
QUEUEDEBUG_LIST_OP(m, elm) ==
  /\ m.next[elm] # NULL => m.prev[m.next[elm]] = elm
  /\ m.next[m.prev[elm]] = elm
POSTREMOVE(m, elm) == SetPrev(SetNext(m, elm, Junk), elm, Junk)
-----------------------------------------------------------------------------
(* SLIST                                                                   *)
SLIST_INIT(m, head) == SetNext(m, head, NULL)
SLIST_INSERT_AFTER(m, slistelm, elm) == SetNext(SetNext(m, elm, m.next[slistelm]), slistelm, elm)
SLIST_INSERT_HEAD(m, head, elm) == SetNext(SetNext(m, elm, m.next[head]), head, elm)
SLIST_REMOVE_HEAD(m, head) == SetNext(m, head, m.next[m.next[head]])
SLIST_REMOVE(m, head, elm) ==
  IF m.next[head] = elm THEN SLIST_REMOVE_HEAD(m, head)
  ELSE LET curelm == WalkTo(m, head, elm) IN SetNext(m, curelm, m.next[m.next[curelm]])
SLIST_REMOVE_AFTER(m, slistelm) == SetNext(m, slistelm, m.next[m.next[slistelm]])
SLIST_FIRST(m, head) == m.next[head]
SLIST_NEXT(m, elm) == m.next[elm]
-----------------------------------------------------------------------------
(* STAILQ                                                                  *)
STAILQ_INIT(m, head) == SetPrev(SetNext(m, head, NULL), head, head)

STAILQ_INSERT_HEAD(m, head, elm) ==
  LET m1 == SetNext(m, elm, m.next[head])
      m2 == IF m1.next[elm] = NULL THEN SetPrev(m1, head, elm) ELSE m1
  IN SetNext(m2, head, elm)

STAILQ_INSERT_TAIL(m, head, elm) ==
  SetPrev(SetNext(SetNext(m, elm, NULL), m.prev[head], elm), head, elm)

STAILQ_INSERT_AFTER(m, head, listelm, elm) ==
  LET m1 == SetNext(m, elm, m.next[listelm])
      m2 == IF m1.next[elm] = NULL THEN SetPrev(m1, head, elm) ELSE m1
  IN SetNext(m2, listelm, elm)

STAILQ_REMOVE_HEAD(m, head) ==
  LET m1 == SetNext(m, head, m.next[m.next[head]])
  IN IF m1.next[head] = NULL THEN SetPrev(m1, head, head) ELSE m1

(* Mutant: stqh_last goes on pointing to the element removed.              *)
STAILQ_REMOVE_STALE(m, head, elm) ==
  IF m.next[head] = elm THEN STAILQ_REMOVE_HEAD(m, head)
  ELSE LET curelm == WalkTo(m, head, elm) IN SetNext(m, curelm, m.next[m.next[curelm]])

STAILQ_REMOVE(m, head, elm) ==
  IF m.next[head] = elm THEN STAILQ_REMOVE_HEAD(m, head)
  ELSE LET curelm == WalkTo(m, head, elm)
           m1 == SetNext(m, curelm, m.next[m.next[curelm]])
       IN IF m1.next[curelm] = NULL THEN SetPrev(m1, head, curelm) ELSE m1

STAILQ_EMPTY(m, head) == m.next[head] = NULL
STAILQ_CONCAT(m, head1, head2) ==
  IF STAILQ_EMPTY(m, head2) THEN m
  ELSE STAILQ_INIT(SetPrev(SetNext(m, m.prev[head1], m.next[head2]), head1, m.prev[head2]), head2)

STAILQ_FIRST(m, head) == m.next[head]
STAILQ_NEXT(m, elm) == m.next[elm]
STAILQ_LAST(m, head) == IF STAILQ_EMPTY(m, head) THEN NULL ELSE m.prev[head]
-----------------------------------------------------------------------------
(* SIMPLEQ is STAILQ under another name, macro by macro.                   *)
SIMPLEQ_INIT(m, head) == STAILQ_INIT(m, head)
SIMPLEQ_INSERT_HEAD(m, head, elm) == STAILQ_INSERT_HEAD(m, head, elm)
SIMPLEQ_INSERT_TAIL(m, head, elm) == STAILQ_INSERT_TAIL(m, head, elm)
SIMPLEQ_INSERT_AFTER(m, head, listelm, elm) == STAILQ_INSERT_AFTER(m, head, listelm, elm)
SIMPLEQ_REMOVE_HEAD(m, head) == STAILQ_REMOVE_HEAD(m, head)
SIMPLEQ_REMOVE(m, head, elm) == STAILQ_REMOVE(m, head, elm)
SIMPLEQ_CONCAT(m, head1, head2) == STAILQ_CONCAT(m, head1, head2)
SIMPLEQ_FIRST(m, head) == STAILQ_FIRST(m, head)
SIMPLEQ_NEXT(m, elm) == STAILQ_NEXT(m, elm)
SIMPLEQ_LAST(m, head) == STAILQ_LAST(m, head)
-----------------------------------------------------------------------------
(* TAILQ                                                                   *)
TAILQ_INIT(m, head) == SetPrev(SetNext(m, head, NULL), head, head)

TAILQ_INSERT_HEAD(m, head, elm) ==
  LET m1 == SetNext(m, elm, m.next[head])
      m2 == IF m1.next[elm] # NULL THEN SetPrev(m1, m1.next[head], elm) ELSE SetPrev(m1, head, elm)
  IN SetPrev(SetNext(m2, head, elm), elm, head)

TAILQ_INSERT_TAIL(m, head, elm) ==
  LET m1 == SetPrev(SetNext(m, elm, NULL), elm, m.prev[head])
  IN SetPrev(SetNext(m1, m1.prev[head], elm), head, elm)

TAILQ_INSERT_AFTER(m, head, listelm, elm) ==
  LET m1 == SetNext(m, elm, m.next[listelm])
      m2 == IF m1.next[elm] # NULL THEN SetPrev(m1, m1.next[elm], elm) ELSE SetPrev(m1, head, elm)
  IN SetPrev(SetNext(m2, listelm, elm), elm, listelm)

TAILQ_INSERT_BEFORE(m, listelm, elm) ==
  LET m1 == SetNext(SetPrev(m, elm, m.prev[listelm]), elm, listelm)
  IN SetPrev(SetNext(m1, m1.prev[listelm], elm), listelm, elm)

(* Mutant: the last element is removed and the head is not told.           *)
TAILQ_REMOVE_STALE(m, head, elm) ==
  LET m1 == IF m.next[elm] # NULL THEN SetPrev(m, m.next[elm], m.prev[elm]) ELSE m
  IN SetNext(m1, m1.prev[elm], m1.next[elm])

TAILQ_REMOVE(m, head, elm) ==
  LET m1 == IF m.next[elm] # NULL THEN SetPrev(m, m.next[elm], m.prev[elm])
            ELSE SetPrev(m, head, m.prev[elm])
  IN SetNext(m1, m1.prev[elm], m1.next[elm])

TAILQ_EMPTY(m, head) == m.next[head] = NULL

TAILQ_CONCAT(m, head1, head2) ==
  IF TAILQ_EMPTY(m, head2) THEN m
  ELSE LET m1 == SetNext(m, m.prev[head1], m.next[head2])
           m2 == SetPrev(m1, m1.next[head2], m1.prev[head1])
       IN TAILQ_INIT(SetPrev(m2, head1, m2.prev[head2]), head2)

TAILQ_FIRST(m, head) == m.next[head]
TAILQ_NEXT(m, elm) == m.next[elm]
(* A head and an entry are laid out alike, so that tqh_last or tqe_prev of *)
(* either can be read through the other's type.                            *)
TAILQ_LAST(m, head) == m.next[m.prev[m.prev[head]]]
(* Mutant: the element before is what tqe_prev points to.                  *)
TAILQ_PREV_DIRECT(m, elm) == m.prev[elm]

TAILQ_PREV(m, elm) == m.next[m.prev[m.prev[elm]]]

QUEUEDEBUG_TAILQ_INSERT_HEAD(m, head) == m.next[head] # NULL => m.prev[m.next[head]] = head
QUEUEDEBUG_TAILQ_INSERT_TAIL(m, head) == m.next[m.prev[head]] = NULL
QUEUEDEBUG_TAILQ_OP(m, elm) ==
  /\ m.next[elm] # NULL => m.prev[m.next[elm]] = elm
  /\ m.next[m.prev[elm]] = elm
QUEUEDEBUG_TAILQ_PREREMOVE(m, head, elm) == m.next[elm] = NULL => m.prev[head] = elm
-----------------------------------------------------------------------------
(* CIRCLEQ: its pointers are to objects, the head among them. Where the    *)
(* code asks whether a neighbour is the head, it is to name the field of   *)
(* it: cqh_first for cqe_next, cqh_last for cqe_prev.                      *)
CIRCLEQ_INIT(m, head) == SetPrev(SetNext(m, head, head), head, head)

CIRCLEQ_INSERT_AFTER(m, head, listelm, elm) ==
  LET m1 == SetPrev(SetNext(m, elm, m.next[listelm]), elm, listelm)
  IN SetNext(SetPrev(m1, m1.next[listelm], elm), listelm, elm)

CIRCLEQ_INSERT_BEFORE(m, head, listelm, elm) ==
  LET m1 == SetPrev(SetNext(m, elm, listelm), elm, m.prev[listelm])
  IN SetPrev(SetNext(m1, m1.prev[listelm], elm), listelm, elm)

CIRCLEQ_INSERT_HEAD(m, head, elm) ==
  LET m1 == SetPrev(SetNext(m, elm, m.next[head]), elm, head)
      m2 == IF m1.prev[head] = head THEN SetPrev(m1, head, elm) ELSE SetPrev(m1, m1.next[head], elm)
  IN SetNext(m2, head, elm)

CIRCLEQ_INSERT_TAIL(m, head, elm) ==
  LET m1 == SetPrev(SetNext(m, elm, head), elm, m.prev[head])
      m2 == IF m1.next[head] = head THEN SetNext(m1, head, elm) ELSE SetNext(m1, m1.prev[head], elm)
  IN SetPrev(m2, head, elm)

CIRCLEQ_REMOVE(m, head, elm) ==
  LET m1 == SetPrev(m, m.next[elm], m.prev[elm]) IN SetNext(m1, m1.prev[elm], m1.next[elm])

CIRCLEQ_FIRST(m, head) == m.next[head]
CIRCLEQ_LAST(m, head) == m.prev[head]
CIRCLEQ_NEXT(m, elm) == m.next[elm]
CIRCLEQ_PREV(m, elm) == m.prev[elm]
CIRCLEQ_LOOP_NEXT(m, head, elm) == IF m.next[elm] = head THEN m.next[head] ELSE m.next[elm]
CIRCLEQ_LOOP_PREV(m, head, elm) == IF m.prev[elm] = head THEN m.prev[head] ELSE m.prev[elm]

QUEUEDEBUG_CIRCLEQ_HEAD(m, head) ==
  /\ m.next[head] # head => m.prev[m.next[head]] = head
  /\ m.prev[head] # head => m.next[m.prev[head]] = head
QUEUEDEBUG_CIRCLEQ_ELM(m, head, elm) ==
  /\ IF m.next[elm] = head THEN m.prev[head] = elm ELSE m.prev[m.next[elm]] = elm
  /\ IF m.prev[elm] = head THEN m.next[head] = elm ELSE m.next[m.prev[elm]] = elm
=============================================================================
