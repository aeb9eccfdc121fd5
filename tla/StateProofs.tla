---------------------------- MODULE StateProofs -----------------------------
(***************************************************************************)
(* What the library keeps between calls: queues, the buffers of getline,   *)
(* getdelim and fgetln, and signals with their handlers.                   *)
(***************************************************************************)
EXTENDS Queues, LineBuffers, Signals, FiniteSetTheorems, SequenceTheorems, NaturalsLemmas

(***************************************************************************)
(* The queues, whatever the program does with however many lists and       *)
(* elements.                                                               *)
(*                                                                         *)
(* First the links of LIST, TAILQ and CIRCLEQ: none of the checks of       *)
(* QUEUEDEBUG fails. The argument is local: that the predecessor of the    *)
(* successor of an object is the object is kept without anything said      *)
(* about what can be reached from a head. A TAILQ is a ring once the NULL  *)
(* behind its last element is read as its head.                            *)
(*                                                                         *)
(* Then the order, for all six kinds: the cells that are reached from a    *)
(* head are the elements the program has put there, in its order. The      *)
(* links give the predecessors that the macros of the doubly linked kinds  *)
(* use; those of the singly linked kinds walk, and the walk stops at the   *)
(* cell before because no element is twice in a list.                      *)
(*                                                                         *)
(* Then the loops: the element a loop stands at divides its list into what *)
(* the loop has come to and what it has still to come to, and no call in   *)
(* its body changes the order of the elements that stay.                   *)
(***************************************************************************)

(* Rings of the objects that are in a list, whose says in which.          *)
Ring(sx, pv, whose) ==
  \A x \in Objects : whose[x] # NULL =>
    /\ sx[x] \in Objects /\ whose[sx[x]] = whose[x] /\ pv[sx[x]] = x
    /\ pv[x] \in Objects /\ whose[pv[x]] = whose[x] /\ sx[pv[x]] = x

Spots == Objects \cup {NULL, Junk}
Owners == [Objects -> Heads \cup {NULL}]

(* An object is put between p and its successor.                           *)
LEMMA RingInsert ==
  ASSUME NEW sx, NEW pv, NEW whose \in Owners,
         Ring(sx, pv, whose),
         NEW p \in Objects, whose[p] # NULL, NEW e \in Objects, whose[e] = NULL,
         NEW sx2, NEW pv2, NEW whose2 \in Owners,
         \A x \in Objects : sx2[x] = IF x = p THEN e ELSE IF x = e THEN sx[p] ELSE sx[x],
         \A x \in Objects : pv2[x] = IF x = e THEN p ELSE IF x = sx[p] THEN e ELSE pv[x],
         \A x \in Objects : whose2[x] = IF x = e THEN whose[p] ELSE whose[x]
  PROVE  Ring(sx2, pv2, whose2)
BY SMT DEF Ring, Owners

(* An object is taken out.                                                 *)
LEMMA RingRemove ==
  ASSUME NEW sx, NEW pv, NEW whose \in Owners,
         Ring(sx, pv, whose),
         NEW e \in Objects, whose[e] # NULL,
         NEW sx2, NEW pv2, NEW whose2 \in Owners,
         \A x \in Objects : x # e => sx2[x] = IF x = pv[e] THEN sx[e] ELSE sx[x],
         \A x \in Objects : x # e => pv2[x] = IF x = sx[e] THEN pv[e] ELSE pv[x],
         \A x \in Objects : whose2[x] = IF x = e THEN NULL ELSE whose[x]
  PROVE  Ring(sx2, pv2, whose2)
BY SMT DEF Ring, Owners

(* One ring is opened before its head and put behind the last of another.  *)
LEMMA RingConcat ==
  ASSUME NEW sx, NEW pv, NEW whose \in Owners,
         Ring(sx, pv, whose),
         NEW h1 \in Objects, NEW h2 \in Objects, h1 # h2, h1 # NULL, h2 # NULL,
         whose[h1] = h1, whose[h2] = h2, sx[h2] # h2,
         NEW sx2, NEW pv2, NEW whose2 \in Owners,
         \A x \in Objects : sx2[x] = IF x = h2 THEN h2 ELSE IF x = pv[h1] THEN sx[h2] ELSE IF x = pv[h2] THEN h1 ELSE sx[x],
         \A x \in Objects : pv2[x] = IF x = h2 THEN h2 ELSE IF x = h1 THEN pv[h2] ELSE IF x = sx[h2] THEN pv[h1] ELSE pv[x],
         \A x \in Objects : whose2[x] = IF whose[x] = h2 /\ x # h2 THEN h1 ELSE whose[x]
  PROVE  Ring(sx2, pv2, whose2)
BY SMT DEF Ring, Owners
-----------------------------------------------------------------------------
(* The list an object is in: a head is in its own.                        *)
Own == [x \in Objects |-> IF x \in Heads THEN x ELSE owner[x]]

(* The successor in a TAILQ, its head behind its last element.             *)
Around(nx, whose) == [x \in Objects |-> IF nx[x] = NULL THEN whose[x] ELSE nx[x]]

(* Chains that end with NULL, as those of LIST.                            *)
Chain(nx, pv, whose) ==
  /\ \A x \in Objects : whose[x] # NULL =>
       \/ nx[x] = NULL
       \/ nx[x] \in Nodes /\ whose[nx[x]] = whose[x] /\ pv[nx[x]] = x
  /\ \A x \in Nodes : whose[x] # NULL => pv[x] \in Objects /\ whose[pv[x]] = whose[x] /\ nx[pv[x]] = x

TailRing(m, whose) ==
  /\ Ring(Around(m.next, whose), m.prev, whose)
  /\ \A x \in Objects : whose[x] # NULL => m.next[x] \in Nodes \cup {NULL}

(* What is kept: the links of the kind the program uses.                   *)
Linked ==
  /\ kind = "LIST" => mem \in Memory /\ Chain(mem.next, mem.prev, Own)
  /\ kind = "TAILQ" => mem \in Memory /\ TailRing(mem, Own)
  /\ kind = "CIRCLEQ" => mem \in Memory /\ Ring(mem.next, mem.prev, Own)

QueueInv == owner \in [Nodes -> Heads \cup {NULL}] /\ Linked

(* m2 is m with e put between p and s, or with e taken out before s.       *)
Inserted(m, m2, s, p, e) ==
  /\ m2 \in Memory
  /\ \A x \in Objects : m2.next[x] = IF x = p THEN e ELSE IF x = e THEN m.next[p] ELSE m.next[x]
  /\ \A x \in Objects : m2.prev[x] = IF x = e THEN p ELSE IF x = s THEN e ELSE m.prev[x]

Removed(m, m2, s, e) ==
  /\ m2 \in Memory
  /\ \A x \in Objects \ {e} : m2.next[x] = IF x = m.prev[e] THEN m.next[e] ELSE m.next[x]
  /\ \A x \in Objects \ {e} : m2.prev[x] = IF x = s THEN m.prev[e] ELSE m.prev[x]

(* Neither NULL nor Junk is an object, no head is an element.              *)
LEMMA Apart ==
  /\ \A x \in Objects : x # NULL /\ x # Junk /\ x \in Spots
  /\ \A h \in Heads : h \in Objects /\ h \notin Nodes
  /\ \A e \in Nodes : e \in Objects
  /\ NULL \in Spots /\ Junk \in Spots /\ NULL # Junk
BY PointersAssumption, QueueAssumption, SMT DEF Objects, Spots

(* An assignment to a field leaves a memory.                               *)
LEMMA Assigned ==
  ASSUME NEW m \in Memory, NEW y \in Objects, NEW v \in Spots
  PROVE  SetNext(m, y, v) \in Memory /\ SetPrev(m, y, v) \in Memory
BY SMT DEF Memory, Spots, SetNext, SetPrev

(* A field of an object holds an object, NULL or Junk.                     *)
LEMMA InSpots ==
  ASSUME NEW m \in Memory, NEW x \in Objects
  PROVE  m.next[x] \in Spots /\ m.prev[x] \in Spots
BY SMT DEF Memory, Spots
-----------------------------------------------------------------------------
(* The assignments of each macro, put together: TAILQ.                     *)
LEMMA TailInsertHead ==
  ASSUME NEW m \in Memory, NEW h \in Objects, NEW e \in Objects, e # h,
         NEW s \in Objects, s = IF m.next[h] # NULL THEN m.next[h] ELSE h
  PROVE  Inserted(m, TAILQ_INSERT_HEAD(m, h, e), s, h, e)
<1>1. TAILQ_INSERT_HEAD(m, h, e) \in Memory
  <2>1. SetNext(m, e, m.next[h]) \in Memory
    BY InSpots, Assigned
  <2>2. SetNext(m, e, m.next[h]).next[h] = m.next[h] /\ SetNext(m, e, m.next[h]).next[e] = m.next[h]
    BY SMT DEF Memory, SetNext
  <2> QED
    BY <2>1, <2>2, Apart, Assigned DEF TAILQ_INSERT_HEAD
<1> QED
  BY <1>1, SMT DEF TAILQ_INSERT_HEAD, SetNext, SetPrev, Memory, Inserted

LEMMA TailInsertTail ==
  ASSUME NEW m \in Memory, NEW h \in Objects, NEW e \in Objects, e # h,
         NEW p \in Objects, p = m.prev[h], e # p, m.next[p] = NULL
  PROVE  Inserted(m, TAILQ_INSERT_TAIL(m, h, e), h, p, e)
<1>1. TAILQ_INSERT_TAIL(m, h, e) \in Memory
  <2>1. SetPrev(SetNext(m, e, NULL), e, p) \in Memory
    BY Apart, Assigned
  <2>2. SetPrev(SetNext(m, e, NULL), e, p).prev[h] = p
    BY SMT DEF Memory, SetNext, SetPrev
  <2> QED
    BY <2>1, <2>2, Apart, Assigned DEF TAILQ_INSERT_TAIL
<1> QED
  BY <1>1, SMT DEF TAILQ_INSERT_TAIL, SetNext, SetPrev, Memory, Inserted

LEMMA TailInsertAfter ==
  ASSUME NEW m \in Memory, NEW h \in Objects, NEW e \in Objects, NEW l \in Objects, e # l, e # h,
         NEW s \in Objects, s = IF m.next[l] # NULL THEN m.next[l] ELSE h
  PROVE  Inserted(m, TAILQ_INSERT_AFTER(m, h, l, e), s, l, e)
<1>1. TAILQ_INSERT_AFTER(m, h, l, e) \in Memory
  <2>1. SetNext(m, e, m.next[l]) \in Memory
    BY InSpots, Assigned
  <2>2. SetNext(m, e, m.next[l]).next[e] = m.next[l]
    BY SMT DEF Memory, SetNext
  <2> QED
    BY <2>1, <2>2, Apart, Assigned DEF TAILQ_INSERT_AFTER
<1> QED
  BY <1>1, SMT DEF TAILQ_INSERT_AFTER, SetNext, SetPrev, Memory, Inserted

LEMMA TailInsertBefore ==
  ASSUME NEW m \in Memory, NEW e \in Objects, NEW l \in Objects, e # l,
         NEW p \in Objects, p = m.prev[l], e # p, m.next[p] = l
  PROVE  Inserted(m, TAILQ_INSERT_BEFORE(m, l, e), l, p, e)
<1>1. TAILQ_INSERT_BEFORE(m, l, e) \in Memory
  <2>1. SetNext(SetPrev(m, e, p), e, l) \in Memory
    BY Apart, Assigned
  <2>2. SetNext(SetPrev(m, e, p), e, l).prev[l] = p
    BY SMT DEF Memory, SetNext, SetPrev
  <2> QED
    BY <2>1, <2>2, Apart, Assigned DEF TAILQ_INSERT_BEFORE
<1> QED
  BY <1>1, SMT DEF TAILQ_INSERT_BEFORE, SetNext, SetPrev, Memory, Inserted

(* What is written over is still memory.                                   *)
LEMMA Freed ==
  ASSUME NEW m \in Memory, NEW e \in Objects
  PROVE  POSTREMOVE(m, e) \in Memory
BY Apart, Assigned DEF POSTREMOVE

LEMMA TailRemove ==
  ASSUME NEW m \in Memory, NEW h \in Objects, NEW e \in Objects, m.prev[e] \in Objects,
         NEW s \in Objects, s = IF m.next[e] # NULL THEN m.next[e] ELSE h
  PROVE  Removed(m, POSTREMOVE(TAILQ_REMOVE(m, h, e), e), s, e)
<1>1. POSTREMOVE(TAILQ_REMOVE(m, h, e), e) \in Memory
  <2>1. SetPrev(m, s, m.prev[e]) \in Memory
    BY InSpots, Assigned
  <2>2. /\ SetPrev(m, s, m.prev[e]).next[e] \in Spots
        /\ SetPrev(m, s, m.prev[e]).prev[e] = m.prev[e]
    BY <2>1, InSpots, SMT DEF Memory, SetPrev
  <2>3. TAILQ_REMOVE(m, h, e) \in Memory
    BY <2>1, <2>2, Assigned DEF TAILQ_REMOVE
  <2> QED
    BY <2>3, Freed
<1> QED
  BY <1>1, SMT DEF POSTREMOVE, TAILQ_REMOVE, SetNext, SetPrev, Memory, Removed

(* Whatever is in head2 goes behind the last of head1.                     *)
LEMMA TailConcat ==
  ASSUME NEW m \in Memory, NEW h1 \in Objects, NEW h2 \in Objects, h1 # h2,
         NEW p \in Objects, p = m.prev[h1], NEW s \in Objects, s = m.next[h2],
         NEW q \in Objects, q = m.prev[h2], p # h2, q # h2, s # h1, s # h2, m.next[p] = NULL
  PROVE  LET m2 == TAILQ_CONCAT(m, h1, h2) IN
         /\ m2 \in Memory
         /\ \A x \in Objects : m2.next[x] = IF x = h2 THEN NULL ELSE IF x = p THEN s ELSE m.next[x]
         /\ \A x \in Objects : m2.prev[x] = IF x = h2 THEN h2 ELSE IF x = h1 THEN q
                                            ELSE IF x = s THEN p ELSE m.prev[x]
<1>1. ~TAILQ_EMPTY(m, h2)
  BY Apart DEF TAILQ_EMPTY
<1>2. TAILQ_CONCAT(m, h1, h2) \in Memory
  <2>1. SetPrev(SetNext(m, p, s), s, p) \in Memory
    BY Apart, Assigned
  <2>2. SetNext(m, p, s).next[h2] = s /\ SetNext(m, p, s).prev[h1] = p
    BY SMT DEF Memory, SetNext
  <2>3. SetPrev(SetNext(m, p, s), s, p).prev[h2] = q
    BY SMT DEF Memory, SetNext, SetPrev
  <2> QED
    BY <1>1, <2>1, <2>2, <2>3, Apart, Assigned DEF TAILQ_CONCAT, TAILQ_INIT
<1> QED
  BY <1>1, <1>2, SMT DEF TAILQ_CONCAT, TAILQ_INIT, SetNext, SetPrev, Memory

(* CIRCLEQ.                                                                *)
LEMMA CircleInsertAfter ==
  ASSUME NEW m \in Memory, NEW h, NEW l \in Objects, NEW e \in Objects, e # l,
         NEW s \in Objects, s = m.next[l], s # e
  PROVE  Inserted(m, CIRCLEQ_INSERT_AFTER(m, h, l, e), s, l, e)
<1>1. CIRCLEQ_INSERT_AFTER(m, h, l, e) \in Memory
  <2>1. SetPrev(SetNext(m, e, s), e, l) \in Memory
    BY Apart, Assigned
  <2>2. SetPrev(SetNext(m, e, s), e, l).next[l] = s
    BY SMT DEF Memory, SetNext, SetPrev
  <2> QED
    BY <2>1, <2>2, Apart, Assigned DEF CIRCLEQ_INSERT_AFTER
<1> QED
  BY <1>1, SMT DEF CIRCLEQ_INSERT_AFTER, SetNext, SetPrev, Memory, Inserted

LEMMA CircleInsertBefore ==
  ASSUME NEW m \in Memory, NEW h, NEW l \in Objects, NEW e \in Objects, e # l,
         NEW p \in Objects, p = m.prev[l], e # p, m.next[p] = l
  PROVE  Inserted(m, CIRCLEQ_INSERT_BEFORE(m, h, l, e), l, p, e)
<1>1. CIRCLEQ_INSERT_BEFORE(m, h, l, e) \in Memory
  <2>1. SetPrev(SetNext(m, e, l), e, p) \in Memory
    BY Apart, Assigned
  <2>2. SetPrev(SetNext(m, e, l), e, p).prev[l] = p
    BY SMT DEF Memory, SetNext, SetPrev
  <2> QED
    BY <2>1, <2>2, Apart, Assigned DEF CIRCLEQ_INSERT_BEFORE
<1> QED
  BY <1>1, SMT DEF CIRCLEQ_INSERT_BEFORE, SetNext, SetPrev, Memory, Inserted

LEMMA CircleInsertHead ==
  ASSUME NEW m \in Memory, NEW h \in Objects, NEW e \in Objects, e # h,
         NEW s \in Objects, s = m.next[h], s # e, m.prev[h] = h => s = h
  PROVE  Inserted(m, CIRCLEQ_INSERT_HEAD(m, h, e), s, h, e)
<1>1. CIRCLEQ_INSERT_HEAD(m, h, e) \in Memory
  <2>1. SetPrev(SetNext(m, e, s), e, h) \in Memory
    BY Apart, Assigned
  <2>2. SetPrev(SetNext(m, e, s), e, h).next[h] = s
    BY SMT DEF Memory, SetNext, SetPrev
  <2> QED
    BY <2>1, <2>2, Apart, Assigned DEF CIRCLEQ_INSERT_HEAD
<1> QED
  BY <1>1, SMT DEF CIRCLEQ_INSERT_HEAD, SetNext, SetPrev, Memory, Inserted

LEMMA CircleInsertTail ==
  ASSUME NEW m \in Memory, NEW h \in Objects, NEW e \in Objects, e # h,
         NEW p \in Objects, p = m.prev[h], e # p, m.next[h] = h => p = h, m.next[p] = h
  PROVE  Inserted(m, CIRCLEQ_INSERT_TAIL(m, h, e), h, p, e)
<1>1. CIRCLEQ_INSERT_TAIL(m, h, e) \in Memory
  <2>1. SetPrev(SetNext(m, e, h), e, p) \in Memory
    BY Apart, Assigned
  <2>2. SetPrev(SetNext(m, e, h), e, p).prev[h] = p
    BY SMT DEF Memory, SetNext, SetPrev
  <2> QED
    BY <2>1, <2>2, Apart, Assigned DEF CIRCLEQ_INSERT_TAIL
<1> QED
  BY <1>1, SMT DEF CIRCLEQ_INSERT_TAIL, SetNext, SetPrev, Memory, Inserted

LEMMA CircleRemove ==
  ASSUME NEW m \in Memory, NEW h, NEW e \in Objects, m.prev[e] \in Objects,
         NEW s \in Objects, s = m.next[e]
  PROVE  Removed(m, POSTREMOVE(CIRCLEQ_REMOVE(m, h, e), e), s, e)
<1>1. POSTREMOVE(CIRCLEQ_REMOVE(m, h, e), e) \in Memory
  <2>1. SetPrev(m, s, m.prev[e]) \in Memory
    BY InSpots, Assigned
  <2>2. /\ SetPrev(m, s, m.prev[e]).next[e] \in Spots
        /\ SetPrev(m, s, m.prev[e]).prev[e] = m.prev[e]
    BY <2>1, InSpots, SMT DEF Memory, SetPrev
  <2>3. CIRCLEQ_REMOVE(m, h, e) \in Memory
    BY <2>1, <2>2, Assigned DEF CIRCLEQ_REMOVE
  <2> QED
    BY <2>3, Freed
<1> QED
  BY <1>1, SMT DEF POSTREMOVE, CIRCLEQ_REMOVE, SetNext, SetPrev, Memory, Removed

(* LIST.                                                                   *)
LEMMA ListInsertHead ==
  ASSUME NEW m \in Memory, NEW h \in Objects, NEW e \in Objects, e # h,
         m.next[h] \in Objects \cup {NULL}
  PROVE  Inserted(m, LIST_INSERT_HEAD(m, h, e), m.next[h], h, e)
<1>1. LIST_INSERT_HEAD(m, h, e) \in Memory
  <2>1. SetNext(m, e, m.next[h]) \in Memory
    BY InSpots, Assigned
  <2>2. SetNext(m, e, m.next[h]).next[h] = m.next[h] /\ SetNext(m, e, m.next[h]).next[e] = m.next[h]
    BY SMT DEF Memory, SetNext
  <2> QED
    BY <2>1, <2>2, Apart, Assigned DEF LIST_INSERT_HEAD
<1> QED
  BY <1>1, Apart, SMT DEF LIST_INSERT_HEAD, SetNext, SetPrev, Memory, Inserted

LEMMA ListInsertAfter ==
  ASSUME NEW m \in Memory, NEW l \in Objects, NEW e \in Objects, e # l,
         m.next[l] \in Objects \cup {NULL}
  PROVE  Inserted(m, LIST_INSERT_AFTER(m, l, e), m.next[l], l, e)
<1>1. LIST_INSERT_AFTER(m, l, e) \in Memory
  <2>1. SetNext(m, e, m.next[l]) \in Memory
    BY InSpots, Assigned
  <2>2. SetNext(m, e, m.next[l]).next[l] = m.next[l] /\ SetNext(m, e, m.next[l]).next[e] = m.next[l]
    BY SMT DEF Memory, SetNext
  <2> QED
    BY <2>1, <2>2, Apart, Assigned DEF LIST_INSERT_AFTER
<1> QED
  BY <1>1, Apart, SMT DEF LIST_INSERT_AFTER, SetNext, SetPrev, Memory, Inserted

LEMMA ListInsertBefore ==
  ASSUME NEW m \in Memory, NEW l \in Objects, NEW e \in Objects, e # l,
         NEW p \in Objects, p = m.prev[l], e # p, m.next[p] = l
  PROVE  Inserted(m, LIST_INSERT_BEFORE(m, l, e), l, p, e)
<1>1. LIST_INSERT_BEFORE(m, l, e) \in Memory
  <2>1. SetNext(SetPrev(m, e, p), e, l) \in Memory
    BY Apart, Assigned
  <2>2. SetNext(SetPrev(m, e, p), e, l).prev[l] = p
    BY SMT DEF Memory, SetNext, SetPrev
  <2> QED
    BY <2>1, <2>2, Apart, Assigned DEF LIST_INSERT_BEFORE
<1> QED
  BY <1>1, SMT DEF LIST_INSERT_BEFORE, SetNext, SetPrev, Memory, Inserted

LEMMA ListRemove ==
  ASSUME NEW m \in Memory, NEW e \in Objects, m.prev[e] \in Objects,
         m.next[e] \in Objects \cup {NULL}
  PROVE  Removed(m, POSTREMOVE(LIST_REMOVE(m, e), e), m.next[e], e)
<1>1. POSTREMOVE(LIST_REMOVE(m, e), e) \in Memory
  <2>1. m.next[e] # NULL => SetPrev(m, m.next[e], m.prev[e]) \in Memory
    BY InSpots, Assigned
  <2>2. m.next[e] # NULL => /\ SetPrev(m, m.next[e], m.prev[e]).next[e] \in Spots
                            /\ SetPrev(m, m.next[e], m.prev[e]).prev[e] = m.prev[e]
    BY <2>1, InSpots, SMT DEF Memory, SetPrev
  <2>3. LIST_REMOVE(m, e) \in Memory
    BY <2>1, <2>2, InSpots, Assigned DEF LIST_REMOVE
  <2> QED
    BY <2>3, Freed
<1> QED
  BY <1>1, Apart, SMT DEF POSTREMOVE, LIST_REMOVE, SetNext, SetPrev, Memory, Removed
-----------------------------------------------------------------------------
(* What the links of a TAILQ being right gives about one object.           *)
LEMMA TailFacts ==
  ASSUME NEW m \in Memory, NEW whose \in Owners, TailRing(m, whose), NEW x \in Objects, whose[x] # NULL
  PROVE  LET s == Around(m.next, whose)[x] IN
         /\ m.next[x] \in Nodes \cup {NULL}
         /\ s = IF m.next[x] # NULL THEN m.next[x] ELSE whose[x]
         /\ s \in Objects /\ whose[s] = whose[x] /\ m.prev[s] = x
         /\ m.prev[x] \in Objects /\ whose[m.prev[x]] = whose[x] /\ Around(m.next, whose)[m.prev[x]] = x
         /\ x \in Nodes => m.next[m.prev[x]] = x
         /\ x \in Heads => m.next[m.prev[x]] = NULL
<1>1. /\ m.next[x] \in Nodes \cup {NULL}
      /\ Around(m.next, whose)[x] = IF m.next[x] # NULL THEN m.next[x] ELSE whose[x]
  BY SMT DEF TailRing, Around
<1>2. /\ Around(m.next, whose)[x] \in Objects /\ whose[Around(m.next, whose)[x]] = whose[x]
      /\ m.prev[Around(m.next, whose)[x]] = x
      /\ m.prev[x] \in Objects /\ whose[m.prev[x]] = whose[x] /\ Around(m.next, whose)[m.prev[x]] = x
  BY SMT DEF TailRing, Ring
<1>3. /\ m.next[m.prev[x]] \in Nodes \cup {NULL}
      /\ x = IF m.next[m.prev[x]] # NULL THEN m.next[m.prev[x]] ELSE whose[x]
  BY <1>2, SMT DEF TailRing, Around
<1>4. whose[x] \in Heads
  BY SMT DEF Owners
<1>5. x \in Nodes => m.next[m.prev[x]] = x
  BY <1>3, <1>4, Apart, SMT
<1>6. x \in Heads => m.next[m.prev[x]] = NULL
  BY <1>3, Apart, SMT
<1> QED
  BY <1>1, <1>2, <1>5, <1>6

LEMMA TailInserted ==
  ASSUME NEW m \in Memory, NEW whose \in Owners, TailRing(m, whose),
         NEW p \in Objects, whose[p] # NULL, NEW e \in Nodes, whose[e] = NULL,
         NEW m2, Inserted(m, m2, Around(m.next, whose)[p], p, e),
         NEW whose2 \in Owners, \A x \in Objects : whose2[x] = IF x = e THEN whose[p] ELSE whose[x]
  PROVE  TailRing(m2, whose2)
<1>1. e \in Objects /\ e # NULL /\ p # e /\ m.next[p] \in Nodes \cup {NULL}
  BY Apart, SMT DEF TailRing
<1>2. /\ \A x \in Objects : m2.next[x] = IF x = p THEN e ELSE IF x = e THEN m.next[p] ELSE m.next[x]
      /\ \A x \in Objects : m2.prev[x]
           = IF x = e THEN p ELSE IF x = Around(m.next, whose)[p] THEN e ELSE m.prev[x]
  BY DEF Inserted
<1>3. \A x \in Objects : Around(m2.next, whose2)[x]
        = IF x = p THEN e ELSE IF x = e THEN Around(m.next, whose)[p] ELSE Around(m.next, whose)[x]
  BY <1>1, <1>2, SMT DEF Around
<1>4. Ring(Around(m.next, whose), m.prev, whose)
  BY DEF TailRing
<1>5. Ring(Around(m2.next, whose2), m2.prev, whose2)
  BY <1>1, <1>2, <1>3, <1>4, RingInsert
<1>6. \A x \in Objects : whose2[x] # NULL => m2.next[x] \in Nodes \cup {NULL}
  BY <1>1, <1>2, SMT DEF TailRing
<1> QED
  BY <1>5, <1>6 DEF TailRing

LEMMA TailRemoved ==
  ASSUME NEW m \in Memory, NEW whose \in Owners, TailRing(m, whose),
         NEW e \in Nodes, whose[e] # NULL,
         NEW m2, Removed(m, m2, Around(m.next, whose)[e], e),
         NEW whose2 \in Owners, \A x \in Objects : whose2[x] = IF x = e THEN NULL ELSE whose[x]
  PROVE  TailRing(m2, whose2)
<1>1. /\ e \in Objects /\ m.next[e] \in Nodes \cup {NULL}
      /\ m.prev[e] \in Objects /\ whose[m.prev[e]] = whose[e]
      /\ Around(m.next, whose)[e] = IF m.next[e] # NULL THEN m.next[e] ELSE whose[e]
  BY Apart, TailFacts
<1>2. /\ \A x \in Objects : x # e => m2.next[x] = IF x = m.prev[e] THEN m.next[e] ELSE m.next[x]
      /\ \A x \in Objects : x # e => m2.prev[x]
           = IF x = Around(m.next, whose)[e] THEN m.prev[e] ELSE m.prev[x]
  BY DEF Removed
<1>3. \A x \in Objects : x # e => Around(m2.next, whose2)[x]
        = IF x = m.prev[e] THEN Around(m.next, whose)[e] ELSE Around(m.next, whose)[x]
  BY <1>1, <1>2, SMT DEF Around
<1>4. Ring(Around(m.next, whose), m.prev, whose)
  BY DEF TailRing
<1>5. Ring(Around(m2.next, whose2), m2.prev, whose2)
  BY <1>1, <1>2, <1>3, <1>4, RingRemove
<1>6. \A x \in Objects : whose2[x] # NULL => m2.next[x] \in Nodes \cup {NULL}
  BY <1>1, <1>2, SMT DEF TailRing
<1> QED
  BY <1>5, <1>6 DEF TailRing

LEMMA TailMoved ==
  ASSUME NEW m \in Memory, NEW whose \in Owners, TailRing(m, whose),
         NEW h1 \in Heads, NEW h2 \in Heads, h1 # h2, whose[h1] = h1, whose[h2] = h2,
         NEW whose2 \in Owners,
         \A x \in Objects : whose2[x] = IF whose[x] = h2 /\ x # h2 THEN h1 ELSE whose[x]
  PROVE  TAILQ_CONCAT(m, h1, h2) \in Memory /\ TailRing(TAILQ_CONCAT(m, h1, h2), whose2)
<1> DEFINE p == m.prev[h1]
           q == m.prev[h2]
           s == m.next[h2]
           m2 == TAILQ_CONCAT(m, h1, h2)
<1>1. /\ h1 \in Objects /\ h1 # NULL /\ h2 \in Objects /\ h2 # NULL
      /\ h1 \notin Nodes /\ h2 \notin Nodes
  BY Apart
<1>2. /\ p \in Objects /\ whose[p] = h1 /\ m.next[p] = NULL
      /\ q \in Objects /\ whose[q] = h2 /\ m.next[q] = NULL
      /\ s \in Nodes \cup {NULL}
      /\ Around(m.next, whose)[h2] = IF s # NULL THEN s ELSE h2
      /\ m.prev[Around(m.next, whose)[h2]] = h2
  BY <1>1, TailFacts
<1>3. \A x \in Objects : whose[x] # NULL =>
        /\ m.next[x] \in Nodes \cup {NULL}
        /\ Around(m.next, whose)[x] = IF m.next[x] # NULL THEN m.next[x] ELSE whose[x]
        /\ m.prev[Around(m.next, whose)[x]] = x
  BY TailFacts
<1>4. Ring(Around(m.next, whose), m.prev, whose)
  BY DEF TailRing
<1>5. CASE s = NULL
  <2>1. m2 = m
    BY <1>5 DEF TAILQ_CONCAT, TAILQ_EMPTY
  <2>2. \A x \in Objects : whose2[x] # NULL => Around(m.next, whose2)[x] = Around(m.next, whose)[x]
    BY <1>1, <1>2, <1>3, <1>5, SMT DEF Around
  <2>3. Ring(Around(m.next, whose2), m.prev, whose2)
    BY <1>1, <1>2, <1>3, <1>4, <1>5, <2>2, SMT DEF Ring
  <2> QED
    BY <1>1, <1>3, <2>1, <2>3, SMT DEF TailRing
<1>6. CASE s # NULL
  <2>1. s \in Objects /\ s \in Nodes /\ p # h2 /\ q # h2 /\ s # h1 /\ s # h2
    BY <1>1, <1>2, <1>6, Apart, SMT
  <2>2. /\ m2 \in Memory
        /\ \A x \in Objects : m2.next[x] = IF x = h2 THEN NULL ELSE IF x = p THEN s ELSE m.next[x]
        /\ \A x \in Objects : m2.prev[x] = IF x = h2 THEN h2 ELSE IF x = h1 THEN q
                                           ELSE IF x = s THEN p ELSE m.prev[x]
    BY <1>1, <1>2, <2>1, TailConcat
  <2>3. Around(m.next, whose)[h2] = s
    BY <1>2, <1>6
  <2> HIDE DEF m2, s
  <2>4. \A x \in Objects : whose[x] = h2 /\ m.next[x] = NULL => x = q
    BY <1>1, <1>3
  <2>5. \A x \in Objects : Around(m2.next, whose2)[x]
          = IF x = h2 THEN h2 ELSE IF x = p THEN Around(m.next, whose)[h2]
            ELSE IF x = q THEN h1 ELSE Around(m.next, whose)[x]
    BY <1>1, <1>2, <2>1, <2>2, <2>3, <2>4, SMT DEF Around
  <2>6. Ring(Around(m2.next, whose2), m2.prev, whose2)
    BY <1>1, <1>4, <2>1, <2>2, <2>3, <2>5, RingConcat
  <2>7. \A x \in Objects : whose2[x] # NULL => m2.next[x] \in Nodes \cup {NULL}
    BY <1>1, <1>3, <2>1, <2>2, SMT
  <2> QED
    BY <2>2, <2>6, <2>7 DEF TailRing, m2
<1> QED
  BY <1>5, <1>6
-----------------------------------------------------------------------------
(* The same for a LIST.                                                    *)
LEMMA ChainInserted ==
  ASSUME NEW m \in Memory, NEW whose \in Owners, Chain(m.next, m.prev, whose),
         NEW p \in Objects, whose[p] # NULL, NEW e \in Nodes, whose[e] = NULL,
         NEW m2, Inserted(m, m2, m.next[p], p, e),
         NEW whose2 \in Owners, \A x \in Objects : whose2[x] = IF x = e THEN whose[p] ELSE whose[x]
  PROVE  Chain(m2.next, m2.prev, whose2)
BY Apart, SMT DEF Chain, Inserted

LEMMA ChainRemoved ==
  ASSUME NEW m \in Memory, NEW whose \in Owners, Chain(m.next, m.prev, whose),
         NEW e \in Nodes, whose[e] # NULL,
         NEW m2, Removed(m, m2, m.next[e], e),
         NEW whose2 \in Owners, \A x \in Objects : whose2[x] = IF x = e THEN NULL ELSE whose[x]
  PROVE  Chain(m2.next, m2.prev, whose2)
BY Apart, SMT DEF Chain, Removed
-----------------------------------------------------------------------------
(* Where the objects are, before and after an element is put in, taken out,*)
(* or a list is emptied into another.                                      *)
LEMMA OwnRight ==
  ASSUME owner \in [Nodes -> Heads \cup {NULL}]
  PROVE  /\ Own \in Owners
         /\ \A h \in Heads : Own[h] = h
         /\ \A e \in Nodes : Own[e] = owner[e]
BY Apart, SMT DEF Own, Owners, Objects

LEMMA OwnPut ==
  ASSUME owner \in [Nodes -> Heads \cup {NULL}], NEW e \in Nodes, NEW h \in Heads \cup {NULL},
         owner' = [owner EXCEPT ![e] = h]
  PROVE  /\ owner' \in [Nodes -> Heads \cup {NULL}] /\ Own' \in Owners
         /\ \A x \in Objects : Own'[x] = IF x = e THEN h ELSE Own[x]
BY Apart, SMT DEF Own, Owners, Objects

LEMMA OwnMoved ==
  ASSUME owner \in [Nodes -> Heads \cup {NULL}], NEW h1 \in Heads, NEW h2 \in Heads, h1 # h2,
         owner' = [e \in Nodes |-> IF owner[e] = h2 THEN h1 ELSE owner[e]]
  PROVE  /\ owner' \in [Nodes -> Heads \cup {NULL}] /\ Own' \in Owners
         /\ \A x \in Objects : Own'[x] = IF Own[x] = h2 /\ x # h2 THEN h1 ELSE Own[x]
BY Apart, SMT DEF Own, Owners, Objects

DoublyLinked == {"LIST", "TAILQ", "CIRCLEQ"}

(* An element put behind p, by whichever macro, leaves the links right.    *)
LEMMA PutKeeps ==
  ASSUME QueueInv, kind' = kind, NEW e \in Nodes, NEW h \in Heads, NEW p, owner[e] = NULL,
         owner' = [owner EXCEPT ![e] = h],
         kind \in DoublyLinked => p \in Objects /\ Own[p] = h,
         kind \in {"LIST", "CIRCLEQ"} => Inserted(mem, mem', mem.next[p], p, e),
         kind = "TAILQ" => Inserted(mem, mem', Around(mem.next, Own)[p], p, e)
  PROVE  QueueInv'
<1>1. /\ Own \in Owners /\ Own[e] = NULL /\ e \in Objects /\ h # NULL
      /\ owner' \in [Nodes -> Heads \cup {NULL}] /\ Own' \in Owners
      /\ \A x \in Objects : Own'[x] = IF x = e THEN h ELSE Own[x]
  BY OwnRight, OwnPut, Apart DEF QueueInv
<1>2. kind = "LIST" => mem' \in Memory /\ Chain(mem'.next, mem'.prev, Own')
  BY <1>1, ChainInserted DEF QueueInv, Linked, DoublyLinked, Inserted
<1>3. kind = "TAILQ" => mem' \in Memory /\ TailRing(mem', Own')
  BY <1>1, TailInserted DEF QueueInv, Linked, DoublyLinked, Inserted
<1>4. kind = "CIRCLEQ" => mem' \in Memory /\ Ring(mem'.next, mem'.prev, Own')
  BY <1>1, RingInsert DEF QueueInv, Linked, DoublyLinked, Inserted
<1> QED
  BY <1>1, <1>2, <1>3, <1>4 DEF QueueInv, Linked

(* So does an element taken out.                                           *)
LEMMA TakeKeeps ==
  ASSUME QueueInv, kind' = kind, NEW e \in Nodes, owner[e] # NULL, owner' = [owner EXCEPT ![e] = NULL],
         kind \in {"LIST", "CIRCLEQ"} => Removed(mem, mem', mem.next[e], e),
         kind = "TAILQ" => Removed(mem, mem', Around(mem.next, Own)[e], e)
  PROVE  QueueInv'
<1>1. /\ Own \in Owners /\ Own[e] # NULL /\ e \in Objects
      /\ owner' \in [Nodes -> Heads \cup {NULL}] /\ Own' \in Owners
      /\ \A x \in Objects : Own'[x] = IF x = e THEN NULL ELSE Own[x]
  BY OwnRight, OwnPut, Apart DEF QueueInv
<1>2. kind = "LIST" => mem' \in Memory /\ Chain(mem'.next, mem'.prev, Own')
  BY <1>1, ChainRemoved DEF QueueInv, Linked, Removed
<1>3. kind = "TAILQ" => mem' \in Memory /\ TailRing(mem', Own')
  BY <1>1, TailRemoved DEF QueueInv, Linked, Removed
<1>4. kind = "CIRCLEQ" => mem' \in Memory /\ Ring(mem'.next, mem'.prev, Own')
  BY <1>1, RingRemove DEF QueueInv, Linked, Removed
<1> QED
  BY <1>1, <1>2, <1>3, <1>4 DEF QueueInv, Linked
-----------------------------------------------------------------------------
(* What the invariant gives about an object in a list.                     *)
LEMMA LinkedFacts ==
  ASSUME QueueInv, NEW x \in Objects, Own[x] # NULL
  PROVE  /\ kind = "LIST" =>
              /\ mem \in Memory
              /\ mem.next[x] \in Nodes \cup {NULL}
              /\ mem.next[x] # NULL => Own[mem.next[x]] = Own[x] /\ mem.prev[mem.next[x]] = x
              /\ x \in Nodes => /\ mem.prev[x] \in Objects /\ Own[mem.prev[x]] = Own[x]
                                /\ mem.next[mem.prev[x]] = x
         /\ kind = "TAILQ" => mem \in Memory /\ TailRing(mem, Own)
         /\ kind = "CIRCLEQ" =>
              /\ mem \in Memory
              /\ mem.next[x] \in Objects /\ Own[mem.next[x]] = Own[x] /\ mem.prev[mem.next[x]] = x
              /\ mem.prev[x] \in Objects /\ Own[mem.prev[x]] = Own[x] /\ mem.next[mem.prev[x]] = x
BY SMT DEF QueueInv, Linked, Chain, Ring

LEMMA InsertHeadPuts ==
  ASSUME QueueInv, NEW h \in Heads, NEW e \in Nodes, InsertHead(h, e)
  PROVE  /\ kind = "LIST" => Inserted(mem, mem', mem.next[h], h, e)
         /\ kind = "TAILQ" => Inserted(mem, mem', Around(mem.next, Own)[h], h, e)
         /\ kind = "CIRCLEQ" => Inserted(mem, mem', mem.next[h], h, e)
<1>1. /\ kind' = kind /\ owner[e] = NULL /\ owner' = [owner EXCEPT ![e] = h]
      /\ Own \in Owners /\ Own[h] = h /\ Own[e] = NULL
      /\ h \in Objects /\ e \in Objects /\ e # h /\ h # NULL
  BY OwnRight, Apart DEF InsertHead, Put, QueueInv
<1>2. kind = "LIST" => Inserted(mem, mem', mem.next[h], h, e)
  <2>1. kind = "LIST" => mem \in Memory /\ mem.next[h] \in Objects \cup {NULL}
    BY <1>1, LinkedFacts, Apart
  <2> QED
    BY <1>1, <2>1, ListInsertHead DEF InsertHead
<1>3. kind = "TAILQ" => Inserted(mem, mem', Around(mem.next, Own)[h], h, e)
  BY <1>1, LinkedFacts, TailFacts, TailInsertHead DEF InsertHead
<1>4. kind = "CIRCLEQ" => Inserted(mem, mem', mem.next[h], h, e)
  <2>1. kind = "CIRCLEQ" => /\ mem \in Memory /\ mem.next[h] \in Objects /\ mem.next[h] # e
                            /\ mem.prev[h] = h => mem.next[h] = h
    BY <1>1, LinkedFacts
  <2> QED
    BY <1>1, <2>1, CircleInsertHead DEF InsertHead
<1> QED
  BY <1>1, <1>2, <1>3, <1>4

LEMMA InsertHeadKeeps ==
  ASSUME QueueInv, NEW h \in Heads, NEW e \in Nodes, InsertHead(h, e)
  PROVE  QueueInv'
<1>1. kind' = kind /\ owner[e] = NULL /\ owner' = [owner EXCEPT ![e] = h] /\ h \in Objects /\ Own[h] = h
  BY OwnRight, Apart DEF InsertHead, Put, QueueInv
<1> QED
  BY <1>1, InsertHeadPuts, PutKeeps

LEMMA InsertTailPuts ==
  ASSUME QueueInv, NEW h \in Heads, NEW e \in Nodes, InsertTail(h, e)
  PROVE  LET p == mem.prev[h] IN
         /\ kind = "TAILQ" => p \in Objects /\ Own[p] = h /\ Inserted(mem, mem', Around(mem.next, Own)[p], p, e)
         /\ kind = "CIRCLEQ" => p \in Objects /\ Own[p] = h /\ Inserted(mem, mem', mem.next[p], p, e)
<1>1. /\ kind' = kind /\ owner[e] = NULL /\ owner' = [owner EXCEPT ![e] = h] /\ kind # "LIST"
      /\ Own \in Owners /\ Own[h] = h /\ Own[e] = NULL
      /\ h \in Objects /\ e \in Objects /\ e # h /\ h # NULL
  BY OwnRight, Apart, SMT DEF InsertTail, Put, QueueInv
<1> DEFINE p == mem.prev[h]
<1>2. kind = "TAILQ" => p \in Objects /\ Own[p] = h /\ Inserted(mem, mem', Around(mem.next, Own)[p], p, e)
  <2>1. kind = "TAILQ" => /\ mem \in Memory /\ p \in Objects /\ Own[p] = h /\ e # p
                          /\ mem.next[p] = NULL /\ Around(mem.next, Own)[p] = h
    BY <1>1, LinkedFacts, TailFacts
  <2> QED
    BY <1>1, <2>1, TailInsertTail DEF InsertTail
<1>3. kind = "CIRCLEQ" => p \in Objects /\ Own[p] = h /\ Inserted(mem, mem', mem.next[p], p, e)
  <2>1. kind = "CIRCLEQ" => /\ mem \in Memory /\ p \in Objects /\ Own[p] = h /\ e # p
                            /\ mem.next[p] = h /\ (mem.next[h] = h => p = h)
    BY <1>1, LinkedFacts
  <2> QED
    BY <1>1, <2>1, CircleInsertTail DEF InsertTail
<1> QED
  BY <1>1, <1>2, <1>3

LEMMA InsertTailKeeps ==
  ASSUME QueueInv, NEW h \in Heads, NEW e \in Nodes, InsertTail(h, e)
  PROVE  QueueInv'
<1>1. kind' = kind /\ owner[e] = NULL /\ owner' = [owner EXCEPT ![e] = h] /\ kind # "LIST"
  BY SMT DEF InsertTail, Put
<1> QED
  BY <1>1, InsertTailPuts, PutKeeps DEF DoublyLinked

LEMMA InsertAfterPuts ==
  ASSUME QueueInv, NEW l \in Nodes, NEW e \in Nodes, InsertAfter(l, e)
  PROVE  /\ kind = "LIST" => Inserted(mem, mem', mem.next[l], l, e)
         /\ kind = "TAILQ" => Inserted(mem, mem', Around(mem.next, Own)[l], l, e)
         /\ kind = "CIRCLEQ" => Inserted(mem, mem', mem.next[l], l, e)
<1> DEFINE h == owner[l]
<1>1. /\ kind' = kind /\ owner[e] = NULL /\ owner' = [owner EXCEPT ![e] = h]
      /\ h \in Heads /\ Own \in Owners /\ Own[l] = h /\ Own[e] = NULL
      /\ h \in Objects /\ l \in Objects /\ e \in Objects /\ e # l /\ e # h /\ h # NULL
  <2>1. /\ kind' = kind /\ owner[e] = NULL /\ owner' = [owner EXCEPT ![e] = h] /\ h # NULL
        /\ owner[l] \in Heads \cup {NULL}
    BY DEF InsertAfter, Put, QueueInv
  <2> QED
    BY <2>1, OwnRight, Apart DEF QueueInv
<1>2. kind = "LIST" => Inserted(mem, mem', mem.next[l], l, e)
  <2>1. kind = "LIST" => mem \in Memory /\ mem.next[l] \in Objects \cup {NULL}
    BY <1>1, LinkedFacts, Apart
  <2> QED
    BY <1>1, <2>1, ListInsertAfter DEF InsertAfter
<1>3. kind = "TAILQ" => Inserted(mem, mem', Around(mem.next, Own)[l], l, e)
  BY <1>1, LinkedFacts, TailFacts, TailInsertAfter DEF InsertAfter
<1>4. kind = "CIRCLEQ" => Inserted(mem, mem', mem.next[l], l, e)
  <2>1. kind = "CIRCLEQ" => mem \in Memory /\ mem.next[l] \in Objects /\ mem.next[l] # e
    BY <1>1, LinkedFacts
  <2> QED
    BY <1>1, <2>1, CircleInsertAfter DEF InsertAfter
<1> QED
  BY <1>1, <1>2, <1>3, <1>4

LEMMA InsertAfterKeeps ==
  ASSUME QueueInv, NEW l \in Nodes, NEW e \in Nodes, InsertAfter(l, e)
  PROVE  QueueInv'
<1>1. /\ kind' = kind /\ owner[e] = NULL /\ owner' = [owner EXCEPT ![e] = owner[l]]
      /\ owner[l] \in Heads /\ l \in Objects /\ Own[l] = owner[l]
  <2>1. /\ kind' = kind /\ owner[e] = NULL /\ owner' = [owner EXCEPT ![e] = owner[l]]
        /\ owner[l] # NULL /\ owner[l] \in Heads \cup {NULL}
    BY DEF InsertAfter, Put, QueueInv
  <2> QED
    BY <2>1, OwnRight, Apart DEF QueueInv
<1> QED
  BY <1>1, InsertAfterPuts, PutKeeps

LEMMA InsertBeforePuts ==
  ASSUME QueueInv, NEW l \in Nodes, NEW e \in Nodes, InsertBefore(l, e)
  PROVE  LET h == owner[l]
             p == mem.prev[l] IN
         /\ kind = "LIST" => p \in Objects /\ Own[p] = h /\ Inserted(mem, mem', mem.next[p], p, e)
         /\ kind = "TAILQ" => p \in Objects /\ Own[p] = h /\ Inserted(mem, mem', Around(mem.next, Own)[p], p, e)
         /\ kind = "CIRCLEQ" => p \in Objects /\ Own[p] = h /\ Inserted(mem, mem', mem.next[p], p, e)
<1> DEFINE h == owner[l]
           p == mem.prev[l]
<1>1. /\ kind' = kind /\ owner[e] = NULL /\ owner' = [owner EXCEPT ![e] = h]
      /\ h \in Heads /\ Own \in Owners /\ Own[l] = h /\ Own[e] = NULL
      /\ h \in Objects /\ l \in Objects /\ e \in Objects /\ e # l /\ e # h /\ h # NULL
  <2>1. /\ kind' = kind /\ owner[e] = NULL /\ owner' = [owner EXCEPT ![e] = h] /\ h # NULL
        /\ owner[l] \in Heads \cup {NULL}
    BY DEF InsertBefore, Put, QueueInv
  <2> QED
    BY <2>1, OwnRight, Apart DEF QueueInv
<1>2. kind = "LIST" => p \in Objects /\ Own[p] = h /\ Inserted(mem, mem', mem.next[p], p, e)
  <2>1. kind = "LIST" => mem \in Memory /\ p \in Objects /\ Own[p] = h /\ mem.next[p] = l /\ e # p
    BY <1>1, LinkedFacts
  <2> QED
    BY <1>1, <2>1, ListInsertBefore DEF InsertBefore
<1>3. kind = "TAILQ" => p \in Objects /\ Own[p] = h /\ Inserted(mem, mem', Around(mem.next, Own)[p], p, e)
  <2>1. kind = "TAILQ" => /\ mem \in Memory /\ p \in Objects /\ Own[p] = h /\ e # p
                          /\ mem.next[p] = l /\ Around(mem.next, Own)[p] = l
    BY <1>1, LinkedFacts, TailFacts
  <2> QED
    BY <1>1, <2>1, TailInsertBefore DEF InsertBefore
<1>4. kind = "CIRCLEQ" => p \in Objects /\ Own[p] = h /\ Inserted(mem, mem', mem.next[p], p, e)
  <2>1. kind = "CIRCLEQ" => mem \in Memory /\ p \in Objects /\ Own[p] = h /\ mem.next[p] = l /\ e # p
    BY <1>1, LinkedFacts
  <2> QED
    BY <1>1, <2>1, CircleInsertBefore DEF InsertBefore
<1> QED
  BY <1>1, <1>2, <1>3, <1>4

LEMMA InsertBeforeKeeps ==
  ASSUME QueueInv, NEW l \in Nodes, NEW e \in Nodes, InsertBefore(l, e)
  PROVE  QueueInv'
<1>1. /\ kind' = kind /\ owner[e] = NULL /\ owner' = [owner EXCEPT ![e] = owner[l]]
      /\ owner[l] \in Heads
  BY SMT DEF InsertBefore, Put, QueueInv
<1> QED
  BY <1>1, InsertBeforePuts, PutKeeps DEF DoublyLinked

LEMMA RemoveElmTakes ==
  ASSUME QueueInv, NEW e \in Nodes, RemoveElm(e)
  PROVE  /\ kind = "LIST" => Removed(mem, mem', mem.next[e], e)
         /\ kind = "TAILQ" => Removed(mem, mem', Around(mem.next, Own)[e], e)
         /\ kind = "CIRCLEQ" => Removed(mem, mem', mem.next[e], e)
<1> DEFINE h == owner[e]
<1>1. /\ kind' = kind /\ owner[e] # NULL /\ owner' = [owner EXCEPT ![e] = NULL]
      /\ h \in Heads /\ Own \in Owners /\ Own[e] = h
      /\ h \in Objects /\ e \in Objects /\ e # h
  <2>1. /\ kind' = kind /\ owner[e] # NULL /\ owner' = [owner EXCEPT ![e] = NULL]
        /\ owner[e] \in Heads \cup {NULL}
    BY DEF RemoveElm, Take, QueueInv
  <2> QED
    BY <2>1, OwnRight, Apart DEF QueueInv
<1>2. kind = "LIST" => Removed(mem, mem', mem.next[e], e)
  <2>1. kind = "LIST" => /\ mem \in Memory /\ mem.prev[e] \in Objects
                         /\ mem.next[e] \in Objects \cup {NULL}
    BY <1>1, LinkedFacts, Apart
  <2> QED
    BY <1>1, <2>1, ListRemove DEF RemoveElm, Take
<1>3. kind = "TAILQ" => Removed(mem, mem', Around(mem.next, Own)[e], e)
  BY <1>1, LinkedFacts, TailFacts, TailRemove DEF RemoveElm, Take
<1>4. kind = "CIRCLEQ" => Removed(mem, mem', mem.next[e], e)
  <2>1. kind = "CIRCLEQ" => mem \in Memory /\ mem.prev[e] \in Objects /\ mem.next[e] \in Objects
    BY <1>1, LinkedFacts
  <2> QED
    BY <1>1, <2>1, CircleRemove DEF RemoveElm, Take
<1> QED
  BY <1>1, <1>2, <1>3, <1>4

LEMMA RemoveElmKeeps ==
  ASSUME QueueInv, NEW e \in Nodes, RemoveElm(e)
  PROVE  QueueInv'
<1>1. kind' = kind /\ owner[e] # NULL /\ owner' = [owner EXCEPT ![e] = NULL]
  BY DEF RemoveElm, Take
<1> QED
  BY <1>1, RemoveElmTakes, TakeKeeps

(* RemoveHead and RemoveAfter are of the singly linked kinds.              *)
LEMMA OtherTakesKeep ==
  ASSUME QueueInv, NEW e, NEW memory, Take(e, memory), kind \notin DoublyLinked
  PROVE  QueueInv'
<1>1. kind' = kind /\ owner' = [owner EXCEPT ![e] = NULL]
  BY DEF Take
<1>2. owner \in [Nodes -> Heads \cup {NULL}]
  BY DEF QueueInv
<1>3. \A x \in Nodes : owner'[x] \in Heads \cup {NULL}
  BY <1>1, <1>2, SMT
<1>4. owner' = [x \in Nodes |-> owner'[x]]
  BY <1>1, <1>2, Zenon
<1>5. owner' \in [Nodes -> Heads \cup {NULL}]
  BY <1>3, <1>4, Zenon
<1> QED
  BY <1>1, <1>5 DEF QueueInv, Linked, DoublyLinked

LEMMA ConcatKeeps ==
  ASSUME QueueInv, NEW h1 \in Heads, NEW h2 \in Heads, Concat(h1, h2)
  PROVE  QueueInv'
<1>1. /\ kind' = kind /\ kind \in {"STAILQ", "SIMPLEQ", "TAILQ"} /\ h1 # h2
      /\ kind = "TAILQ" => mem' = TAILQ_CONCAT(mem, h1, h2)
      /\ owner' = [e \in Nodes |-> IF owner[e] = h2 THEN h1 ELSE owner[e]]
  BY SMT DEF Concat
<1>2. /\ Own \in Owners /\ Own[h1] = h1 /\ Own[h2] = h2
      /\ owner' \in [Nodes -> Heads \cup {NULL}] /\ Own' \in Owners
      /\ \A x \in Objects : Own'[x] = IF Own[x] = h2 /\ x # h2 THEN h1 ELSE Own[x]
  BY <1>1, OwnRight, OwnMoved DEF QueueInv
<1>3. kind = "TAILQ" => mem' \in Memory /\ TailRing(mem', Own')
  BY <1>1, <1>2, TailMoved DEF QueueInv, Linked
<1> QED
  BY <1>1, <1>2, <1>3, SMT DEF QueueInv, Linked

(* At the start every head is alone: its list is empty.                    *)
LEMMA InitRight == QueueInit => QueueInv
<1> SUFFICES ASSUME QueueInit PROVE QueueInv
  OBVIOUS
<1>1. /\ owner \in [Nodes -> Heads \cup {NULL}]
      /\ \A h \in Heads : Own[h] = h
      /\ \A x \in Objects : Own[x] # NULL => x \in Heads
  BY OwnRight, SMT DEF QueueInit, Objects
<1>2. mem = [next |-> [x \in Objects |-> IF x \in Heads THEN Initialised(Fresh, x).next[x] ELSE Junk],
             prev |-> [x \in Objects |-> IF x \in Heads THEN Initialised(Fresh, x).prev[x] ELSE Junk]]
  BY DEF QueueInit
<1>3. ASSUME kind = "LIST" PROVE mem \in Memory /\ Chain(mem.next, mem.prev, Own)
  <2>1. \A h \in Heads : Initialised(Fresh, h) = LIST_INIT(Fresh, h)
    BY <1>3 DEF Initialised
  <2>2. \A h \in Heads : LIST_INIT(Fresh, h).next[h] = NULL /\ LIST_INIT(Fresh, h).prev[h] = Junk
    BY Apart, SMT DEF LIST_INIT, SetNext, Fresh
  <2>3. mem.next = [x \in Objects |-> IF x \in Heads THEN NULL ELSE Junk] /\ mem.prev = [x \in Objects |-> Junk]
    BY <1>2, <2>1, <2>2
  <2>4. mem = [next |-> mem.next, prev |-> mem.prev]
    BY <1>2
  <2>5. mem \in Memory
    BY <2>3, <2>4, SMT DEF Memory
  <2>6. \A h \in Heads : mem.next[h] = NULL
    BY <2>3, Apart
  <2> QED
    BY <1>1, <2>5, <2>6, Apart DEF Chain
<1>4. ASSUME kind = "TAILQ" PROVE mem \in Memory /\ TailRing(mem, Own)
  <2>1. \A h \in Heads : Initialised(Fresh, h) = TAILQ_INIT(Fresh, h)
    BY <1>4 DEF Initialised
  <2>2. \A h \in Heads : TAILQ_INIT(Fresh, h).next[h] = NULL /\ TAILQ_INIT(Fresh, h).prev[h] = h
    BY Apart, SMT DEF TAILQ_INIT, SetNext, SetPrev, Fresh
  <2>3. /\ mem.next = [x \in Objects |-> IF x \in Heads THEN NULL ELSE Junk]
        /\ mem.prev = [x \in Objects |-> IF x \in Heads THEN x ELSE Junk]
    BY <1>2, <2>1, <2>2
  <2>4. mem = [next |-> mem.next, prev |-> mem.prev]
    BY <1>2
  <2>5. mem \in Memory
    BY <2>3, <2>4, SMT DEF Memory
  <2>6. \A h \in Heads : mem.next[h] = NULL /\ mem.prev[h] = h /\ Around(mem.next, Own)[h] = h
    BY <1>1, <2>3, Apart, SMT DEF Around
  <2> QED
    BY <1>1, <2>5, <2>6, Apart DEF TailRing, Ring
<1>5. ASSUME kind = "CIRCLEQ" PROVE mem \in Memory /\ Ring(mem.next, mem.prev, Own)
  <2>1. \A h \in Heads : Initialised(Fresh, h) = CIRCLEQ_INIT(Fresh, h)
    BY <1>5 DEF Initialised
  <2>2. \A h \in Heads : CIRCLEQ_INIT(Fresh, h).next[h] = h /\ CIRCLEQ_INIT(Fresh, h).prev[h] = h
    BY Apart, SMT DEF CIRCLEQ_INIT, SetNext, SetPrev, Fresh
  <2>3. /\ mem.next = [x \in Objects |-> IF x \in Heads THEN x ELSE Junk]
        /\ mem.prev = [x \in Objects |-> IF x \in Heads THEN x ELSE Junk]
    BY <1>2, <2>1, <2>2
  <2>4. mem = [next |-> mem.next, prev |-> mem.prev]
    BY <1>2
  <2>5. mem \in Memory
    BY <2>3, <2>4, SMT DEF Memory
  <2> QED
    BY <1>1, <2>3, <2>5, Apart, SMT DEF Ring
<1> QED
  BY <1>1, <1>3, <1>4, <1>5 DEF QueueInv, Linked

LEMMA NextKeeps == QueueInv /\ [QueueNext]_queueVars => QueueInv'
<1> SUFFICES ASSUME QueueInv, [QueueNext]_queueVars PROVE QueueInv'
  OBVIOUS
<1>1. ASSUME NEW h \in Heads, NEW e \in Nodes, InsertHead(h, e) \/ InsertTail(h, e) PROVE QueueInv'
  BY <1>1, InsertHeadKeeps, InsertTailKeeps
<1>2. ASSUME NEW l \in Nodes, NEW e \in Nodes, InsertAfter(l, e) \/ InsertBefore(l, e) PROVE QueueInv'
  BY <1>2, InsertAfterKeeps, InsertBeforeKeeps
<1>3. ASSUME NEW e \in Nodes, RemoveElm(e) PROVE QueueInv'
  BY <1>3, RemoveElmKeeps
<1>4. ASSUME NEW e \in Nodes, RemoveAfter(e) PROVE QueueInv'
  <2>1. kind \notin DoublyLinked
    BY <1>4, SMT DEF RemoveAfter, DoublyLinked
  <2> QED
    BY <1>4, <2>1, OtherTakesKeep DEF RemoveAfter
<1>5. ASSUME NEW h \in Heads, RemoveHead(h) PROVE QueueInv'
  <2>1. kind \notin DoublyLinked
    BY <1>5, SMT DEF RemoveHead, DoublyLinked
  <2> QED
    BY <1>5, <2>1, OtherTakesKeep DEF RemoveHead
<1>6. ASSUME NEW h1 \in Heads, NEW h2 \in Heads, Concat(h1, h2) PROVE QueueInv'
  BY <1>6, ConcatKeeps
<1>7. ASSUME UNCHANGED <<kind, mem, owner>> PROVE QueueInv'
  BY <1>7 DEF QueueInv, Linked, Own
<1>8. ASSUME NEW h \in Heads, NEW reverse \in BOOLEAN, NEW safe \in BOOLEAN, LoopStart(h, reverse, safe)
      PROVE QueueInv'
  BY <1>7, <1>8 DEF LoopStart
<1>9. ASSUME LoopNext \/ LoopEnd \/ UNCHANGED queueVars PROVE QueueInv'
  BY <1>7, <1>9 DEF LoopNext, LoopEnd, queueVars
<1> QED
  BY <1>1, <1>2, <1>3, <1>4, <1>5, <1>6, <1>8, <1>9 DEF QueueNext
-----------------------------------------------------------------------------
(* Links that are right pass the checks of QUEUEDEBUG.                     *)
LEMMA InvChecked == QueueInv => Checked
<1> SUFFICES ASSUME QueueInv PROVE Checked
  OBVIOUS
<1>1. /\ Own \in Owners
      /\ \A h \in Heads : h \in Objects /\ Own[h] = h /\ Own[h] # NULL
      /\ \A e \in Nodes : owner[e] # NULL => /\ e \in Objects /\ owner[e] \in Objects
                                             /\ Own[e] = owner[e] /\ Own[e] # NULL
  <2>1. \A e \in Nodes : owner[e] \in Heads \cup {NULL}
    BY DEF QueueInv
  <2> QED
    BY <2>1, OwnRight, Apart DEF QueueInv
<1>2. ASSUME kind = "LIST"
      PROVE  /\ \A h \in Heads : QUEUEDEBUG_LIST_INSERT_HEAD(mem, h)
             /\ \A e \in Nodes : owner[e] # NULL => QUEUEDEBUG_LIST_OP(mem, e)
  BY <1>1, <1>2, LinkedFacts DEF QUEUEDEBUG_LIST_INSERT_HEAD, QUEUEDEBUG_LIST_OP
<1>3. ASSUME kind = "TAILQ"
      PROVE  /\ \A h \in Heads : /\ QUEUEDEBUG_TAILQ_INSERT_HEAD(mem, h)
                                 /\ QUEUEDEBUG_TAILQ_INSERT_TAIL(mem, h)
             /\ \A e \in Nodes : owner[e] # NULL =>
                  QUEUEDEBUG_TAILQ_OP(mem, e) /\ QUEUEDEBUG_TAILQ_PREREMOVE(mem, owner[e], e)
  <2>1. mem \in Memory /\ TailRing(mem, Own)
    BY <1>3 DEF QueueInv, Linked
  <2> QED
    BY <1>1, <2>1, TailFacts DEF QUEUEDEBUG_TAILQ_INSERT_HEAD, QUEUEDEBUG_TAILQ_INSERT_TAIL,
      QUEUEDEBUG_TAILQ_OP, QUEUEDEBUG_TAILQ_PREREMOVE
<1>4. ASSUME kind = "CIRCLEQ"
      PROVE  /\ \A h \in Heads : QUEUEDEBUG_CIRCLEQ_HEAD(mem, h)
             /\ \A e \in Nodes : owner[e] # NULL => QUEUEDEBUG_CIRCLEQ_ELM(mem, owner[e], e)
  BY <1>1, <1>4, LinkedFacts DEF QUEUEDEBUG_CIRCLEQ_HEAD, QUEUEDEBUG_CIRCLEQ_ELM
<1> QED
  BY <1>2, <1>3, <1>4 DEF Checked

(***************************************************************************)
(* However many lists and elements there are, and in whatever order they   *)
(* are put, taken and moved, the pointers of LIST, TAILQ and CIRCLEQ pass  *)
(* every check of QUEUEDEBUG in netbsd_sys_queue.h.                        *)
(***************************************************************************)
THEOREM QueuesChecked == QueueSpec => []Checked
<1> QED
  BY InitRight, NextKeeps, InvChecked, PTL DEF QueueSpec
-----------------------------------------------------------------------------
(* The sequences that stand for the lists: what is put in at a place, what *)
(* is taken out at a place, and the list backwards.                        *)
LEMMA SubSeqRight ==
  ASSUME NEW S, NEW s \in Seq(S), NEW i \in 1..Len(s) + 1, NEW j \in 0..Len(s)
  PROVE  /\ SubSeq(s, i, j) \in Seq(S)
         /\ Len(SubSeq(s, i, j)) = IF i <= j THEN j - i + 1 ELSE 0
         /\ \A k \in 1..j - i + 1 : SubSeq(s, i, j)[k] = s[i + k - 1]
OBVIOUS

LEMMA ConcatRight ==
  ASSUME NEW S, NEW s \in Seq(S), NEW t \in Seq(S)
  PROVE  /\ s \o t \in Seq(S) /\ Len(s \o t) = Len(s) + Len(t)
         /\ \A k \in 1..Len(s) : (s \o t)[k] = s[k]
         /\ \A k \in Len(s) + 1..Len(s) + Len(t) : (s \o t)[k] = t[k - Len(s)]
OBVIOUS

LEMMA InsertAtRight ==
  ASSUME NEW s \in Seq(Nodes), NEW e \in Nodes, NEW i \in 1..Len(s) + 1
  PROVE  /\ Seqs!InsertAt(s, i, e) \in Seq(Nodes)
         /\ Len(Seqs!InsertAt(s, i, e)) = Len(s) + 1
         /\ \A j \in 1..Len(s) + 1 :
              Seqs!InsertAt(s, i, e)[j] = IF j < i THEN s[j] ELSE IF j = i THEN e ELSE s[j - 1]
<1> DEFINE a == SubSeq(s, 1, i - 1)
           b == SubSeq(s, i, Len(s))
           t == a \o <<e>>
<1>1. a \in Seq(Nodes) /\ Len(a) = i - 1 /\ \A k \in 1..i-1 : a[k] = s[k]
  <2>1. 1 \in 1..Len(s)+1 /\ i - 1 \in 0..Len(s) OBVIOUS
  <2> QED BY <2>1, SubSeqRight
<1>2. b \in Seq(Nodes) /\ Len(b) = Len(s) - i + 1 /\ \A k \in 1..Len(s)-i+1 : b[k] = s[i+k-1]
  <2>1. Len(s) \in 0..Len(s) OBVIOUS
  <2> QED BY <2>1, SubSeqRight
<1> HIDE DEF a, b
<1>3. t \in Seq(Nodes) /\ Len(t) = i /\ (\A k \in 1..i-1 : t[k] = s[k]) /\ t[i] = e
  BY <1>1
<1> HIDE DEF t
<1>4. t \o b \in Seq(Nodes) /\ Len(t \o b) = Len(s) + 1
      /\ (\A k \in 1..i : (t \o b)[k] = t[k])
      /\ \A k \in i + 1..Len(s)+1 : (t \o b)[k] = b[k - i]
  BY <1>2, <1>3, ConcatRight
<1>5. \A k \in i + 1..Len(s)+1 : b[k - i] = s[k-1]
  <2> TAKE k \in i + 1..Len(s)+1
  <2>1. k - i \in 1..Len(s)-i+1 /\ i + (k-i) - 1 = k-1 OBVIOUS
  <2> QED BY <2>1, <1>2
<1>6. Seqs!InsertAt(s,i,e) = t \o b
  BY DEF Seqs!InsertAt, t, a, b
<1> DEFINE u == t \o b
<1>7. u \in Seq(Nodes) /\ Len(u) = Len(s) + 1
      /\ \A j \in 1..Len(s) + 1 : u[j] = IF j < i THEN s[j] ELSE IF j = i THEN e ELSE s[j - 1]
  <2>1. \A j \in 1..Len(s) + 1 : j < i => u[j] = s[j]
    BY <1>3, <1>4
  <2>2. u[i] = e
    BY <1>3, <1>4
  <2>3. \A j \in 1..Len(s) + 1 : i < j => u[j] = s[j - 1]
    BY <1>4, <1>5
  <2>4. u \in Seq(Nodes) /\ Len(u) = Len(s) + 1
    BY <1>4
  <2> HIDE DEF u
  <2> QED BY <2>1, <2>2, <2>3, <2>4
<1> HIDE DEF u
<1> QED BY <1>6, <1>7 DEF u

LEMMA RemoveAtRight ==
  ASSUME NEW s \in Seq(Nodes), NEW i \in 1..Len(s)
  PROVE  /\ Seqs!RemoveAt(s, i) \in Seq(Nodes)
         /\ Len(Seqs!RemoveAt(s, i)) = Len(s) - 1
         /\ \A j \in 1..Len(s) - 1 :
              Seqs!RemoveAt(s, i)[j] = IF j < i THEN s[j] ELSE s[j + 1]
<1> DEFINE a == SubSeq(s, 1, i - 1)
           b == SubSeq(s, i + 1, Len(s))
<1>1. a \in Seq(Nodes) /\ Len(a) = i - 1 /\ \A k \in 1..i-1 : a[k] = s[k]
  <2>1. 1 \in 1..Len(s)+1 /\ i - 1 \in 0..Len(s) OBVIOUS
  <2> QED BY <2>1, SubSeqRight
<1>2. b \in Seq(Nodes) /\ Len(b) = Len(s) - i /\ \A k \in 1..Len(s)-i : b[k] = s[i+k]
  <2>1. Len(s) \in 0..Len(s) /\ i + 1 \in 1..Len(s) + 1 OBVIOUS
  <2> QED BY <2>1, SubSeqRight
<1> HIDE DEF a, b
<1>4. a \o b \in Seq(Nodes) /\ Len(a \o b) = Len(s) - 1
      /\ (\A k \in 1..i-1 : (a \o b)[k] = a[k])
      /\ \A k \in i..Len(s)-1 : (a \o b)[k] = b[k - (i-1)]
  <2>1. Len(a) + 1 = i /\ Len(a) + Len(b) = Len(s) - 1
    BY <1>1, <1>2
  <2>2. /\ a \o b \in Seq(Nodes) /\ Len(a \o b) = Len(a) + Len(b)
        /\ \A k \in 1..Len(a) : (a \o b)[k] = a[k]
        /\ \A k \in Len(a) + 1..Len(a) + Len(b) : (a \o b)[k] = b[k - Len(a)]
    BY ONLY <1>1, <1>2, ConcatRight
  <2> QED BY <1>1, <2>1, <2>2
<1>5. \A k \in i..Len(s)-1 : b[k - (i-1)] = s[k+1]
  <2> TAKE k \in i..Len(s)-1
  <2>1. k - (i-1) \in 1..Len(s)-i /\ i + (k-(i-1)) = k+1 OBVIOUS
  <2> QED BY <2>1, <1>2
<1>6. Seqs!RemoveAt(s,i) = a \o b
  BY DEF Seqs!RemoveAt, a, b
<1>7. \A j \in 1..Len(s)-1 : (a \o b)[j] = IF j < i THEN s[j] ELSE s[j+1]
  BY <1>1, <1>4, <1>5
<1> QED BY <1>4, <1>6, <1>7

LEMMA ReverseRight ==
  ASSUME NEW s \in Seq(Nodes)
  PROVE  /\ Len(Seqs!Reverse(s)) = Len(s) /\ Seqs!Reverse(s) \in Seq(Nodes)
         /\ \A j \in 1..Len(s) : Seqs!Reverse(s)[j] = s[Len(s) - j + 1]
BY DEF Seqs!Reverse

(* A list: the cells of row, from the head h, whose says they are in it and*)
(* nothing else is, and the pointers nx go through them as far as end.     *)
Cell(row, h, i) == IF i = 0 THEN h ELSE row[i]
Row(nx, whose, h, row, end) ==
  /\ row \in Seq(Nodes)
  /\ \A i \in 1..Len(row) : whose[row[i]] = h
  /\ \A e \in Nodes : whose[e] = h => \E i \in 1..Len(row) : row[i] = e
  /\ \A i, j \in 1..Len(row) : row[i] = row[j] => i = j
  /\ \A i \in 0..Len(row) : nx[Cell(row, h, i)] = IF i = Len(row) THEN end ELSE row[i + 1]

LEMMA CellFacts ==
  ASSUME NEW nx, NEW whose, NEW h \in Heads, NEW row, NEW end, Row(nx, whose, h, row, end)
  PROVE  /\ Len(row) \in Nat
         /\ \A i \in 1..Len(row) : Cell(row, h, i) = row[i] /\ row[i] \in Nodes /\ row[i] # h
         /\ \A i \in 0..Len(row) : Cell(row, h, i) \in Objects
         /\ \A i, j \in 0..Len(row) : Cell(row, h, i) = Cell(row, h, j) => i = j
<1>1. row \in Seq(Nodes) /\ Len(row) \in Nat
  BY DEF Row
<1>2. \A i \in 1..Len(row) : row[i] \in Nodes
  BY <1>1
<1>3. \A i \in 1..Len(row) : Cell(row, h, i) = row[i] /\ row[i] \in Nodes /\ row[i] # h
  BY <1>1, <1>2, Apart, SMT DEF Cell
<1>4. \A i \in 0..Len(row) : i # 0 => i \in 1..Len(row)
  BY <1>1
<1>5. \A i \in 0..Len(row) : Cell(row, h, i) \in Objects
  BY <1>3, <1>4, Apart DEF Cell
<1>6. \A i, j \in 0..Len(row) : Cell(row, h, i) = Cell(row, h, j) => i = j
  BY <1>3, <1>4, Apart DEF Cell, Row
<1> QED BY <1>1, <1>3, <1>5, <1>6

(* An element is put behind a cell of a list.                              *)
LEMMA RowPut ==
  ASSUME NEW nx, NEW whose, NEW h \in Heads, NEW row, NEW end, Row(nx, whose, h, row, end),
         NEW e \in Nodes, whose[e] # h, NEW k \in 0..Len(row),
         NEW nx2, NEW whose2,
         \A x \in Objects : nx2[x] = IF x = Cell(row, h, k) THEN e
                                     ELSE IF x = e THEN nx[Cell(row, h, k)] ELSE nx[x],
         \A x \in Nodes : whose2[x] = IF x = e THEN h ELSE whose[x]
  PROVE  Row(nx2, whose2, h, Seqs!InsertAt(row, k + 1, e), end)
<1> DEFINE row2 == Seqs!InsertAt(row, k + 1, e)
<1>1. row \in Seq(Nodes) /\ Len(row) \in Nat /\ k + 1 \in 1..Len(row) + 1
  BY DEF Row
<1>2. /\ row2 \in Seq(Nodes) /\ Len(row2) = Len(row) + 1
      /\ \A j \in 1..Len(row) + 1 : row2[j] = IF j < k + 1 THEN row[j] ELSE IF j = k + 1 THEN e ELSE row[j - 1]
  BY <1>1, InsertAtRight
<1> HIDE DEF row2
<1>3. /\ \A j \in 1..k : row2[j] = row[j] /\ j \in 1..Len(row)
      /\ row2[k + 1] = e
      /\ \A j \in k + 2..Len(row) + 1 : row2[j] = row[j - 1] /\ j - 1 \in 1..Len(row)
  BY <1>1, <1>2
<1>4. \A j \in 1..Len(row) : row[j] \in Nodes /\ row[j] # e /\ whose[row[j]] = h
  BY <1>1 DEF Row
<1>5. \A i \in 1..Len(row2) : whose2[row2[i]] = h
  <2>1. \A j \in 1..Len(row) : whose2[row[j]] = h
    BY <1>4
  <2>2. whose2[e] = h
    OBVIOUS
  <2> TAKE i \in 1..Len(row2)
  <2>3. CASE i <= k
    BY <1>3, <2>1, <2>3
  <2>4. CASE i = k + 1
    BY <1>3, <2>2, <2>4
  <2>5. CASE i > k + 1
    BY <1>1, <1>2, <1>3, <2>1, <2>5
  <2> QED BY <1>1, <1>2, <2>3, <2>4, <2>5
<1>6. ASSUME NEW x \in Nodes, whose2[x] = h PROVE \E i \in 1..Len(row2) : row2[i] = x
  <2>1. CASE x = e
    BY <1>1, <1>2, <1>3, <2>1
  <2>2. CASE x # e
    <3>1. PICK i \in 1..Len(row) : row[i] = x
      BY <1>6, <2>2 DEF Row
    <3>2. CASE i <= k
      BY <1>1, <1>2, <1>3, <3>1, <3>2
    <3>3. CASE i > k
      <4>1. i + 1 \in k + 2..Len(row) + 1 /\ i + 1 - 1 = i /\ i + 1 \in 1..Len(row2)
        BY <1>1, <1>2, <3>3
      <4> QED BY <1>3, <3>1, <4>1
    <3> QED BY <3>2, <3>3
  <2> QED BY <2>1, <2>2
<1>7. \A i, j \in 1..Len(row2) : row2[i] = row2[j] => i = j
  <2>1. \A i, j \in 1..Len(row) : row[i] = row[j] => i = j
    BY DEF Row
  <2> TAKE i, j \in 1..Len(row2)
  <2> DEFINE Left(n) == IF n < k + 1 THEN n ELSE n - 1
  <2>2. \A n \in 1..Len(row2) : n # k + 1 => row2[n] = row[Left(n)] /\ Left(n) \in 1..Len(row)
    BY <1>1, <1>2
  <2>3. i # k + 1 /\ j # k + 1 /\ row2[i] = row2[j] => Left(i) = Left(j)
    BY <2>1, <2>2
  <2>4. i # k + 1 /\ j # k + 1 /\ row2[i] = row2[j] => i = j
    BY <1>1, <1>2, <2>3
  <2>5. \A n \in 1..Len(row2) : row2[n] = e => n = k + 1
    BY <1>4, <2>2
  <2> QED BY <1>3, <2>4, <2>5
<1>8. \A i \in 0..Len(row2) : nx2[Cell(row2, h, i)] = IF i = Len(row2) THEN end ELSE row2[i + 1]
  <2> TAKE i \in 0..Len(row2)
  <2>0. /\ \A j \in 1..Len(row) : Cell(row, h, j) = row[j] /\ row[j] \in Nodes /\ row[j] # h
        /\ \A j \in 0..Len(row) : Cell(row, h, j) \in Objects
        /\ \A j, l \in 0..Len(row) : Cell(row, h, j) = Cell(row, h, l) => j = l
        /\ \A j \in 0..Len(row) : nx[Cell(row, h, j)] = IF j = Len(row) THEN end ELSE row[j + 1]
        /\ e \in Objects /\ e # h
    <3>1. \A j \in 0..Len(row) : nx[Cell(row, h, j)] = IF j = Len(row) THEN end ELSE row[j + 1]
      BY DEF Row
    <3> QED BY <3>1, CellFacts, Apart
  <2>1. CASE i < k
    <3>1. Cell(row2, h, i) = Cell(row, h, i) /\ i \in 0..Len(row)
      BY <1>1, <1>2, <1>3, <2>1 DEF Cell
    <3>2. Cell(row, h, i) # Cell(row, h, k) /\ Cell(row, h, i) # e
      BY <1>4, <2>0, <2>1, <3>1 DEF Cell
    <3>3. nx2[Cell(row, h, i)] = row[i + 1] /\ row2[i + 1] = row[i + 1] /\ i # Len(row2)
      BY <1>1, <1>2, <1>3, <2>0, <2>1, <3>1, <3>2
    <3> QED BY <3>1, <3>3
  <2>2. CASE i = k
    <3>1. Cell(row2, h, i) = Cell(row, h, k) /\ i # Len(row2)
      BY <1>1, <1>2, <1>3, <2>2 DEF Cell
    <3> QED BY <1>3, <2>0, <2>2, <3>1
  <2>3. CASE i = k + 1
    <3>1. Cell(row2, h, i) = e /\ e # Cell(row, h, k)
      BY <1>1, <1>3, <1>4, <2>0, <2>3 DEF Cell
    <3>2. nx2[e] = IF k = Len(row) THEN end ELSE row[k + 1]
      BY <2>0, <3>1
    <3>3. k # Len(row) => row2[k + 1 + 1] = row[k + 1]
      BY <1>1, <1>2
    <3> QED BY <1>1, <1>2, <2>3, <3>1, <3>2, <3>3
  <2>4. CASE i > k + 1
    <3> DEFINE j == i - 1
    <3>1. j \in 1..Len(row) /\ j > k /\ i = j + 1
      BY <1>1, <1>2, <2>4
    <3> HIDE DEF j
    <3>2. Cell(row2, h, i) = row[j] /\ Cell(row, h, j) = row[j]
      BY <1>1, <1>2, <1>3, <2>4, <3>1 DEF Cell, j
    <3>3. row[j] # Cell(row, h, k) /\ row[j] # e /\ row[j] \in Objects
      BY <1>4, <2>0, <3>1, <3>2
    <3>4. nx2[row[j]] = IF j = Len(row) THEN end ELSE row[j + 1]
      BY <2>0, <3>1, <3>2, <3>3
    <3>5. j # Len(row) => row2[i + 1] = row[j + 1]
      BY <1>1, <1>2, <2>4, <3>1
    <3> QED BY <1>2, <3>1, <3>2, <3>4, <3>5
  <2> QED BY <1>1, <1>2, <2>1, <2>2, <2>3, <2>4
<1> QED BY <1>2, <1>5, <1>6, <1>7, <1>8 DEF Row, row2

(* An element is taken out of a list.                                      *)
LEMMA RowTake ==
  ASSUME NEW nx, NEW whose, NEW h \in Heads, NEW row, NEW end, Row(nx, whose, h, row, end),
         NEW k \in 1..Len(row), NEW nx2, NEW whose2, NULL # h,
         \A x \in Objects \ {row[k]} : nx2[x] = IF x = Cell(row, h, k - 1) THEN nx[row[k]] ELSE nx[x],
         \A x \in Nodes : whose2[x] = IF x = row[k] THEN NULL ELSE whose[x]
  PROVE  Row(nx2, whose2, h, Seqs!RemoveAt(row, k), end)
<1> DEFINE row2 == Seqs!RemoveAt(row, k)
           e == row[k]
<1>1. row \in Seq(Nodes) /\ Len(row) \in Nat
  BY DEF Row
<1>2. /\ row2 \in Seq(Nodes) /\ Len(row2) = Len(row) - 1
      /\ \A j \in 1..Len(row) - 1 : row2[j] = IF j < k THEN row[j] ELSE row[j + 1]
  BY <1>1, RemoveAtRight
<1> HIDE DEF row2
<1>3. \A i, j \in 1..Len(row) : row[i] = row[j] => i = j
  BY DEF Row
<1>4. \A j \in 1..Len(row) : row[j] \in Nodes /\ whose[row[j]] = h
  BY <1>1 DEF Row
<1>5. \A i \in 1..Len(row2) : whose2[row2[i]] = h
  BY <1>1, <1>2, <1>3, <1>4
<1>6. ASSUME NEW x \in Nodes, whose2[x] = h PROVE \E i \in 1..Len(row2) : row2[i] = x
  <2>1. PICK i \in 1..Len(row) : row[i] = x /\ i # k
    BY <1>6 DEF Row
  <2>2. CASE i < k
    BY <1>1, <1>2, <2>1, <2>2
  <2>3. CASE i > k
    <3>1. i - 1 \in 1..Len(row2) /\ i - 1 + 1 = i /\ ~(i - 1 < k)
      BY <1>1, <1>2, <2>1, <2>3
    <3> QED BY <1>2, <2>1, <3>1
  <2> QED BY <1>1, <2>1, <2>2, <2>3
<1>7. \A i, j \in 1..Len(row2) : row2[i] = row2[j] => i = j
  BY <1>1, <1>2, <1>3
<1>8. \A i \in 0..Len(row2) : nx2[Cell(row2, h, i)] = IF i = Len(row2) THEN end ELSE row2[i + 1]
  <2> TAKE i \in 0..Len(row2)
  <2>0. /\ \A j \in 1..Len(row) : Cell(row, h, j) = row[j] /\ row[j] \in Nodes /\ row[j] # h
        /\ \A j \in 0..Len(row) : Cell(row, h, j) \in Objects
        /\ \A j, l \in 0..Len(row) : Cell(row, h, j) = Cell(row, h, l) => j = l
        /\ \A j \in 0..Len(row) : nx[Cell(row, h, j)] = IF j = Len(row) THEN end ELSE row[j + 1]
    <3>1. \A j \in 0..Len(row) : nx[Cell(row, h, j)] = IF j = Len(row) THEN end ELSE row[j + 1]
      BY DEF Row
    <3> QED BY <3>1, CellFacts
  <2>1. CASE i < k - 1
    <3>1. Cell(row2, h, i) = Cell(row, h, i) /\ i \in 0..Len(row)
      BY <1>1, <1>2, <2>1 DEF Cell
    <3>2. Cell(row, h, i) # Cell(row, h, k - 1) /\ Cell(row, h, i) # Cell(row, h, k)
      BY <1>1, <2>0, <2>1, <3>1
    <3>3. nx2[Cell(row, h, i)] = row[i + 1] /\ row2[i + 1] = row[i + 1] /\ i # Len(row2)
      BY <1>1, <1>2, <2>0, <2>1, <3>1, <3>2
    <3> QED BY <3>1, <3>3
  <2>2. CASE i = k - 1
    <3>1. Cell(row2, h, i) = Cell(row, h, k - 1) /\ k - 1 \in 0..Len(row)
      BY <1>1, <1>2, <2>2 DEF Cell
    <3>2. Cell(row, h, k - 1) # Cell(row, h, k)
      BY <1>1, <2>0, <3>1
    <3>3. nx2[Cell(row, h, k - 1)] = IF k = Len(row) THEN end ELSE row[k + 1]
      BY <1>1, <2>0, <3>1, <3>2
    <3>4. k # Len(row) => row2[i + 1] = row[k + 1]
      BY <1>1, <1>2, <2>2
    <3> QED BY <1>1, <1>2, <2>2, <3>1, <3>3, <3>4
  <2>3. CASE i > k - 1
    <3> DEFINE j == i + 1
    <3>1. j \in 1..Len(row) /\ j > k /\ i = j - 1
      BY <1>1, <1>2, <2>3
    <3>2. Cell(row2, h, i) = row[j]
      BY <1>1, <1>2, <2>3 DEF Cell
    <3> HIDE DEF j
    <3>3. row[j] # Cell(row, h, k - 1) /\ row[j] # e /\ row[j] \in Objects /\ Cell(row, h, j) = row[j]
      BY <1>1, <2>0, <3>1
    <3>4. nx2[row[j]] = IF j = Len(row) THEN end ELSE row[j + 1]
      BY <1>1, <2>0, <3>1, <3>3
    <3>5. j # Len(row) => row2[i + 1] = row[j + 1]
      BY <1>1, <1>2, <2>3, <3>1
    <3> QED BY <1>1, <1>2, <3>1, <3>2, <3>4, <3>5
  <2> QED BY <1>1, <1>2, <2>1, <2>2, <2>3
<1> QED BY <1>2, <1>5, <1>6, <1>7, <1>8 DEF Row, row2

(* The pointers of a list's own cells are all that matters to it.         *)
LEMMA RowKept ==
  ASSUME NEW nx, NEW whose, NEW h, NEW row, NEW end, Row(nx, whose, h, row, end),
         NEW nx2, NEW whose2,
         \A i \in 0..Len(row) : nx2[Cell(row, h, i)] = nx[Cell(row, h, i)],
         \A x \in Nodes : whose2[x] = h <=> whose[x] = h
  PROVE  Row(nx2, whose2, h, row, end)
<1>1. \A i \in 1..Len(row) : row[i] \in Nodes
  BY DEF Row
<1> QED BY <1>1 DEF Row

(* One list is put behind another, which leaves it empty.                  *)
LEMMA RowJoin ==
  ASSUME NEW nx, NEW whose, NEW end, NEW h1 \in Heads, NEW h2 \in Heads, h1 # h2, NEW row1, NEW row2,
         Row(nx, whose, h1, row1, end), Row(nx, whose, h2, row2, end), Len(row2) # 0,
         NEW nx2, NEW whose2,
         \A x \in Objects : nx2[x] = IF x = h2 THEN end
                                     ELSE IF x = Cell(row1, h1, Len(row1)) THEN nx[h2] ELSE nx[x],
         \A x \in Nodes : whose2[x] = IF whose[x] = h2 THEN h1 ELSE whose[x]
  PROVE  Row(nx2, whose2, h1, row1 \o row2, end) /\ Row(nx2, whose2, h2, <<>>, end)
<1> DEFINE row == row1 \o row2
           a == Len(row1)
           b == Len(row2)
<1>1. row1 \in Seq(Nodes) /\ row2 \in Seq(Nodes) /\ a \in Nat /\ b \in Nat
  BY DEF Row
<1>2. /\ row \in Seq(Nodes) /\ Len(row) = a + b
      /\ \A k \in 1..a : row[k] = row1[k]
      /\ \A k \in a + 1..a + b : row[k] = row2[k - a]
  BY ONLY <1>1, ConcatRight
<1>3. /\ \A i, j \in 1..a : row1[i] = row1[j] => i = j
      /\ \A i, j \in 1..b : row2[i] = row2[j] => i = j
      /\ \A i \in 1..a : row1[i] \in Nodes /\ whose[row1[i]] = h1
      /\ \A i \in 1..b : row2[i] \in Nodes /\ whose[row2[i]] = h2
      /\ \A e \in Nodes : whose[e] = h1 => \E i \in 1..a : row1[i] = e
      /\ \A e \in Nodes : whose[e] = h2 => \E i \in 1..b : row2[i] = e
  BY <1>1 DEF Row
<1>4. /\ \A i \in 0..a : nx[Cell(row1, h1, i)] = IF i = a THEN end ELSE row1[i + 1]
      /\ \A i \in 0..b : nx[Cell(row2, h2, i)] = IF i = b THEN end ELSE row2[i + 1]
  BY DEF Row
<1>5. /\ \A i \in 1..a : Cell(row1, h1, i) = row1[i] /\ row1[i] # h1
      /\ \A i \in 0..a : Cell(row1, h1, i) \in Objects
      /\ \A i, j \in 0..a : Cell(row1, h1, i) = Cell(row1, h1, j) => i = j
  BY CellFacts
<1>6. /\ \A i \in 1..b : Cell(row2, h2, i) = row2[i] /\ row2[i] # h2
      /\ \A i \in 0..b : Cell(row2, h2, i) \in Objects
      /\ \A i, j \in 0..b : Cell(row2, h2, i) = Cell(row2, h2, j) => i = j
  BY CellFacts
<1>7. h1 \notin Nodes /\ h2 \notin Nodes /\ Nodes \subseteq Objects /\ h1 \in Objects /\ h2 \in Objects
  BY Apart
<1> HIDE DEF a, b, row
<1>8. \A i \in 1..Len(row) : whose2[row[i]] = h1
  <2>1. /\ \A i \in 1..a : whose2[row1[i]] = h1
        /\ \A i \in 1..b : whose2[row2[i]] = h1
    BY <1>3
  <2> TAKE i \in 1..Len(row)
  <2>2. CASE i <= a
    BY <1>1, <1>2, <2>1, <2>2
  <2>3. CASE i > a
    <3>1. i \in a + 1..a + b /\ i - a \in 1..b
      BY <1>1, <1>2, <2>3
    <3> QED BY <1>2, <2>1, <3>1
  <2> QED BY <1>1, <2>2, <2>3
<1>9. ASSUME NEW e \in Nodes, whose2[e] = h1 PROVE \E i \in 1..Len(row) : row[i] = e
  <2>1. CASE whose[e] = h2
    <3>1. PICK i \in 1..b : row2[i] = e
      BY <1>3, <2>1
    <3> DEFINE n == a + i
    <3>2. n \in a + 1..a + b /\ n - a = i /\ n \in 1..Len(row)
      BY <1>1, <1>2
    <3> HIDE DEF n
    <3> QED BY <1>2, <3>1, <3>2
  <2>2. CASE whose[e] # h2
    <3>1. PICK i \in 1..a : row1[i] = e
      BY <1>3, <1>9, <2>2
    <3>2. i \in 1..Len(row)
      BY <1>1, <1>2
    <3> QED BY <1>2, <3>1, <3>2
  <2> QED BY <2>1, <2>2
<1>10. ASSUME NEW i \in 1..Len(row), NEW j \in 1..Len(row), row[i] = row[j] PROVE i = j
  <2>1. \A k \in 1..a + b : k > a => k \in a + 1..a + b /\ k - a \in 1..b
    BY <1>1
  <2>2. \A k \in 1..a + b : IF k <= a THEN row[k] = row1[k] /\ k \in 1..a ELSE row[k] = row2[k - a] /\ k - a \in 1..b
    BY <1>1, <1>2, <2>1
  <2>3. CASE i <= a /\ j <= a
    BY <1>2, <1>3, <1>10, <2>2, <2>3
  <2>4. CASE i > a /\ j > a
    <3>1. i - a = j - a
      BY <1>1, <1>2, <1>3, <1>10, <2>2, <2>4
    <3> QED BY <1>1, <3>1
  <2>7. \A k \in 1..a, l \in 1..b : row1[k] # row2[l]
    BY <1>3
  <2>5. CASE i <= a /\ j > a
    <3>1. i \in 1..a /\ row[i] = row1[i] /\ j - a \in 1..b /\ row[j] = row2[j - a]
      BY <1>1, <1>2, <2>2, <2>5
    <3>2. row1[i] # row2[j - a]
      BY <2>7, <3>1, Zenon
    <3> QED BY <1>10, <3>1, <3>2
  <2>6. CASE i > a /\ j <= a
    <3>1. j \in 1..a /\ row[j] = row1[j] /\ i - a \in 1..b /\ row[i] = row2[i - a]
      BY <1>1, <1>2, <2>2, <2>6
    <3>2. row1[j] # row2[i - a]
      BY <2>7, <3>1, Zenon
    <3> QED BY <1>10, <3>1, <3>2
  <2> QED BY <1>1, <2>3, <2>4, <2>5, <2>6
<1>11. ASSUME NEW i \in 0..Len(row) PROVE nx2[Cell(row, h1, i)] = IF i = Len(row) THEN end ELSE row[i + 1]
  <2>1. CASE i < a
    <3>1. Cell(row, h1, i) = Cell(row1, h1, i) /\ i \in 0..a /\ i + 1 \in 1..a
      BY <1>1, <1>2, <2>1 DEF Cell
    <3>2. Cell(row1, h1, i) # Cell(row1, h1, a) /\ Cell(row1, h1, i) # h2 /\ Cell(row1, h1, i) \in Objects
      BY <1>1, <1>3, <1>5, <1>7, <2>1, <3>1 DEF Cell
    <3>3. nx2[Cell(row1, h1, i)] = nx[Cell(row1, h1, i)]
      BY <3>2 DEF a
    <3> QED BY <1>1, <1>2, <1>4, <2>1, <3>1, <3>3 DEF b
  <2>2. CASE i = a
    <3>1. Cell(row, h1, a) = Cell(row1, h1, a) /\ a \in 0..a
      BY <1>1, <1>2, <2>2 DEF Cell
    <3>2. Cell(row1, h1, a) # h2 /\ Cell(row1, h1, a) \in Objects
      BY <1>1, <1>3, <1>5, <1>7, <3>1 DEF Cell
    <3>3. nx2[Cell(row1, h1, a)] = nx[h2] /\ nx[h2] = row2[1]
      <4>1. 0 \in 0..b /\ b # 0 /\ Cell(row2, h2, 0) = h2
        BY <1>1 DEF Cell, b
      <4> QED BY <1>4, <3>2, <4>1 DEF a
    <3>4. row[a + 1] = row2[1] /\ a # Len(row)
      <4>1. a + 1 \in a + 1..a + b /\ a + 1 - a = 1 /\ b # 0
        BY <1>1 DEF b
      <4> QED BY <1>1, <1>2, <4>1
    <3> QED BY <2>2, <3>1, <3>3, <3>4
  <2>3. CASE i > a
    <3> DEFINE j == i - a
    <3>1. j \in 1..b /\ i = a + j /\ i \in a + 1..a + b /\ j \in 0..b
      BY <1>1, <1>2, <2>3
    <3>2. Cell(row, h1, i) = row2[j] /\ Cell(row2, h2, j) = row2[j] /\ row2[j] # h2 /\ row2[j] \in Objects
      BY <1>1, <1>2, <1>6, <2>3, <3>1 DEF Cell
    <3> HIDE DEF j
    <3>3. row2[j] # Cell(row1, h1, a)
      <4>1. whose[row2[j]] = h2 /\ row2[j] \in Nodes
        BY <1>3, <3>1
      <4>2. a # 0 => whose[row1[a]] = h1
        BY <1>1, <1>3
      <4> QED BY <1>7, <4>1, <4>2 DEF Cell
    <3>4. nx2[row2[j]] = IF j = b THEN end ELSE row2[j + 1]
      BY <1>4, <3>1, <3>2, <3>3 DEF a
    <3>5. j # b => row[i + 1] = row2[j + 1]
      <4> DEFINE n == i + 1
      <4>1. j # b => n \in a + 1..a + b /\ n - a = j + 1
        BY <1>1, <3>1
      <4> HIDE DEF n
      <4>2. j # b => row[n] = row2[j + 1]
        BY <1>2, <4>1
      <4> QED BY <4>2 DEF n
    <3> QED BY <1>1, <1>2, <3>1, <3>2, <3>4, <3>5
  <2> QED BY <1>1, <1>2, <2>1, <2>2, <2>3
<1>12. Row(nx2, whose2, h1, row, end)
  BY <1>2, <1>8, <1>9, <1>10, <1>11 DEF Row
<1>13. Row(nx2, whose2, h2, <<>>, end)
  <2>1. \A e \in Nodes : whose2[e] # h2
    OBVIOUS
  <2>2. \A i \in 0..Len(<<>>) : i = 0 /\ nx2[Cell(<<>>, h2, i)] = end
    BY <1>7 DEF Cell
  <2> QED BY <2>1, <2>2 DEF Row
<1> QED BY <1>12, <1>13 DEF row
-----------------------------------------------------------------------------
Singly == {"SLIST", "STAILQ", "SIMPLEQ"}
Tailed == {"STAILQ", "SIMPLEQ"}

(* What the macros do to the pointers forwards: e is put behind p, or e,   *)
(* which is behind p, is taken out (what e itself holds then is no matter).*)
NextPut(m, m2, p, e) ==
  /\ m2 \in Memory
  /\ \A x \in Objects : m2.next[x] = IF x = p THEN e ELSE IF x = e THEN m.next[p] ELSE m.next[x]
NextTaken(m, m2, p, e) ==
  /\ m2 \in Memory
  /\ \A x \in Objects \ {e} : m2.next[x] = IF x = p THEN m.next[e] ELSE m.next[x]

(* The lists in memory are those the program has made, in its order; the   *)
(* heads of STAILQ and SIMPLEQ point to the last of theirs.                *)
Ordered ==
  /\ kind \in AllKinds
  /\ mem \in Memory
  /\ owner \in [Nodes -> Heads \cup {NULL}]
  /\ content \in [Heads -> Seq(Nodes)]
  /\ \A h \in Heads : Row(mem.next, owner, h, content[h], End(h))
  /\ kind \in Tailed => \A h \in Heads : mem.prev[h] = Cell(content[h], h, Len(content[h]))

(* A cell of a list is its head or one of its elements.                    *)
InOneList(row, h, whose) ==
  \A k \in 0..Len(row) : Cell(row, h, k) = h \/ (Cell(row, h, k) \in Nodes /\ whose[Cell(row, h, k)] = h)

LEMMA CellWithin ==
  ASSUME NEW nx, NEW whose, NEW h \in Heads, NEW row, NEW end, Row(nx, whose, h, row, end)
  PROVE  InOneList(row, h, whose)
<1>1. row \in Seq(Nodes) /\ \A k \in 0..Len(row) : k # 0 => k \in 1..Len(row)
  BY DEF Row
<1> QED BY <1>1 DEF Row, Cell, InOneList

(* Nothing changes in a list when the elements that change are not in it.  *)
LEMMA OtherRow ==
  ASSUME NEW nx, NEW whose, NEW g \in Heads, NEW row, NEW end, Row(nx, whose, g, row, end),
         NEW p, p # g, p \in Nodes => whose[p] # g, NEW e \in Nodes, whose[e] # g,
         NEW nx2, NEW whose2, whose2[e] # g,
         \A x \in Objects : x # p /\ x # e => nx2[x] = nx[x],
         \A x \in Nodes : x # e => whose2[x] = whose[x]
  PROVE  Row(nx2, whose2, g, row, end)
<1>1. InOneList(row, g, whose) /\ \A i \in 0..Len(row) : Cell(row, g, i) \in Objects
  BY CellFacts, CellWithin
<1>2. \A i \in 0..Len(row) : Cell(row, g, i) # p /\ Cell(row, g, i) # e
  BY <1>1, Apart DEF InOneList
<1>3. \A i \in 0..Len(row) : nx2[Cell(row, g, i)] = nx[Cell(row, g, i)]
  BY <1>1, <1>2
<1>4. \A x \in Nodes : whose2[x] = g <=> whose[x] = g
  OBVIOUS
<1> QED BY <1>3, <1>4, RowKept

(* Whatever the macro, an element put behind a cell leaves the lists right.*)
LEMMA PutOrdered ==
  ASSUME Ordered, kind' = kind, NEW h \in Heads, NEW e \in Nodes, owner[e] = NULL,
         NEW k \in 0..Len(content[h]),
         owner' = [owner EXCEPT ![e] = h],
         content' = [content EXCEPT ![h] = Seqs!InsertAt(@, k + 1, e)],
         NextPut(mem, mem', Cell(content[h], h, k), e),
         kind \in Tailed => \A g \in Heads : mem'.prev[g] = IF g = h /\ k = Len(content[h]) THEN e ELSE mem.prev[g]
  PROVE  Ordered'
<1> DEFINE p == Cell(content[h], h, k)
           row == content[h]
           row2 == Seqs!InsertAt(row, k + 1, e)
<1>1. /\ row \in Seq(Nodes) /\ k + 1 \in 1..Len(row) + 1 /\ Len(row) \in Nat
      /\ content'[h] = row2 /\ \A g \in Heads \ {h} : content'[g] = content[g]
  BY DEF Ordered
<1>2. /\ row2 \in Seq(Nodes) /\ Len(row2) = Len(row) + 1
      /\ \A j \in 1..Len(row) + 1 : row2[j] = IF j < k + 1 THEN row[j] ELSE IF j = k + 1 THEN e ELSE row[j - 1]
  BY <1>1, InsertAtRight
<1>3. \A g \in Heads : Row(mem.next, owner, g, content[g], End(g))
  BY DEF Ordered
<1>4. \A x \in Objects : mem'.next[x] = IF x = p THEN e ELSE IF x = e THEN mem.next[p] ELSE mem.next[x]
  BY DEF NextPut
<1>5. /\ \A x \in Nodes : owner'[x] = IF x = e THEN h ELSE owner[x]
      /\ owner' \in [Nodes -> Heads \cup {NULL}]
      /\ h # NULL /\ e \in Objects /\ e # h
  BY Apart DEF Ordered
<1>6. Row(mem'.next, owner', h, row2, End(h))
  <2>1. Row(mem.next, owner, h, row, End(h)) /\ owner[e] # h
    BY <1>3, <1>5
  <2> QED BY ONLY <1>4, <1>5, <2>1, h \in Heads, e \in Nodes, k \in 0..Len(row), RowPut
<1>7. ASSUME NEW g \in Heads, g # h PROVE Row(mem'.next, owner', g, content[g], End(g))
  <2>1. Row(mem.next, owner, g, content[g], End(g)) /\ Row(mem.next, owner, h, row, End(h))
    BY <1>3
  <2>2. \A x \in Objects : x # p /\ x # e => mem'.next[x] = mem.next[x]
    BY <1>4
  <2>3. /\ \A x \in Nodes : x # e => owner'[x] = owner[x]
        /\ owner[e] # g /\ owner'[e] # g /\ e \in Nodes
    BY <1>5, <1>7, Apart
  <2>4. p = h \/ (p \in Nodes /\ owner[p] = h)
    <3>1. k \in 0..Len(row)
      BY <1>1
    <3>2. InOneList(row, h, owner)
      BY <2>1, CellWithin
    <3> QED BY <3>1, <3>2 DEF InOneList
  <2>5. p # g /\ (p \in Nodes => owner[p] # g)
    BY <1>7, <2>4, Apart
  <2>6. p # g /\ (p \in Nodes => owner[p] # g) /\ e \in Nodes /\ owner[e] # g /\ owner'[e] # g
    BY <2>3, <2>5
  <2>7. Row(mem.next, owner, g, content[g], End(g))
    BY <2>1
  <2> QED BY ONLY g \in Heads, <2>2, <2>3, <2>6, <2>7, OtherRow
<1>8. \A g \in Heads : End(g)' = End(g)
  BY DEF End
<1>9. \A g \in Heads : Row(mem'.next, owner', g, content'[g], End(g)')
  <2> TAKE g \in Heads
  <2>1. CASE g = h
    BY <1>1, <1>6, <1>8, <2>1
  <2>2. CASE g # h
    BY <1>1, <1>7, <1>8, <2>2
  <2> QED BY <2>1, <2>2
<1>10. content' \in [Heads -> Seq(Nodes)]
  BY <1>1, <1>2 DEF Ordered
<1>11. ASSUME kind \in Tailed, NEW g \in Heads
       PROVE  mem'.prev[g] = Cell(content'[g], g, Len(content'[g]))
  <2>1. mem.prev[g] = Cell(content[g], g, Len(content[g]))
    BY <1>11 DEF Ordered
  <2>2. CASE g # h
    BY <1>1, <1>11, <2>1, <2>2
  <2>3. CASE g = h /\ k = Len(row)
    BY <1>1, <1>2, <1>11, <2>3 DEF Cell
  <2>4. CASE g = h /\ k # Len(row)
    <3>1. Len(row) # 0 /\ ~(Len(row) + 1 < k + 1) /\ Len(row) + 1 # k + 1 /\ Len(row) + 1 - 1 = Len(row)
      BY <1>1, <2>4
    <3>2. row2[Len(row) + 1] = row[Len(row)]
      BY <1>1, <1>2, <3>1
    <3>3. Cell(row2, h, Len(row2)) = row[Len(row)]
      BY <1>1, <1>2, <3>2 DEF Cell
    <3> QED BY <1>1, <1>11, <2>1, <2>4, <3>1, <3>3 DEF Cell
  <2> QED BY <2>2, <2>3, <2>4
<1> QED BY <1>5, <1>9, <1>10, <1>11 DEF Ordered, NextPut

LEMMA TakeOrdered ==
  ASSUME Ordered, kind' = kind, NEW h \in Heads, NEW k \in 1..Len(content[h]), NEW e, e = content[h][k],
         owner' = [owner EXCEPT ![e] = NULL],
         content' = [content EXCEPT ![h] = Seqs!RemoveAt(@, k)],
         NextTaken(mem, mem', Cell(content[h], h, k - 1), e),
         kind \in Tailed => \A g \in Heads :
           mem'.prev[g] = IF g = h /\ k = Len(content[h]) THEN Cell(content[h], h, k - 1) ELSE mem.prev[g]
  PROVE  Ordered'
<1> DEFINE p == Cell(content[h], h, k - 1)
           row == content[h]
           row2 == Seqs!RemoveAt(row, k)
<1>1. /\ row \in Seq(Nodes) /\ Len(row) \in Nat
      /\ content'[h] = row2 /\ \A g \in Heads \ {h} : content'[g] = content[g]
  BY DEF Ordered
<1>2. /\ row2 \in Seq(Nodes) /\ Len(row2) = Len(row) - 1
      /\ \A j \in 1..Len(row) - 1 : row2[j] = IF j < k THEN row[j] ELSE row[j + 1]
  BY <1>1, RemoveAtRight
<1>3. \A g \in Heads : Row(mem.next, owner, g, content[g], End(g))
  BY DEF Ordered
<1>4. \A x \in Objects \ {e} : mem'.next[x] = IF x = p THEN mem.next[e] ELSE mem.next[x]
  BY DEF NextTaken
<1>5. /\ e \in Nodes /\ owner[e] = h
      /\ \A x \in Nodes : owner'[x] = IF x = e THEN NULL ELSE owner[x]
      /\ owner' \in [Nodes -> Heads \cup {NULL}]
      /\ h # NULL /\ e \in Objects /\ e # h
  <2>1. e \in Nodes /\ owner[e] = h
    BY <1>1, <1>3 DEF Row
  <2> QED BY <2>1, Apart DEF Ordered
<1>6. Row(mem'.next, owner', h, row2, End(h))
  <2>1. Row(mem.next, owner, h, row, End(h)) /\ e = row[k]
    BY <1>3
  <2> QED BY ONLY <1>4, <1>5, <2>1, h \in Heads, k \in 1..Len(row), RowTake
<1>7. ASSUME NEW g \in Heads, g # h PROVE Row(mem'.next, owner', g, content[g], End(g))
  <2>1. Row(mem.next, owner, g, content[g], End(g)) /\ Row(mem.next, owner, h, row, End(h))
    BY <1>3
  <2>2. \A x \in Objects : x # p /\ x # e => mem'.next[x] = mem.next[x]
    BY <1>4
  <2>3. /\ \A x \in Nodes : x # e => owner'[x] = owner[x]
        /\ owner[e] # g /\ owner'[e] # g /\ e \in Nodes
    BY <1>5, <1>7, Apart
  <2>4. p = h \/ (p \in Nodes /\ owner[p] = h)
    <3>1. k - 1 \in 0..Len(row)
      BY <1>1
    <3>2. InOneList(row, h, owner)
      BY <2>1, CellWithin
    <3> QED BY <3>1, <3>2 DEF InOneList
  <2>5. p # g /\ (p \in Nodes => owner[p] # g)
    BY <1>7, <2>4, Apart
  <2> QED BY ONLY g \in Heads, <2>1, <2>2, <2>3, <2>5, OtherRow
<1>8. \A g \in Heads : End(g)' = End(g)
  BY DEF End
<1>9. \A g \in Heads : Row(mem'.next, owner', g, content'[g], End(g)')
  <2> TAKE g \in Heads
  <2>1. CASE g = h
    BY <1>1, <1>6, <1>8, <2>1
  <2>2. CASE g # h
    BY <1>1, <1>7, <1>8, <2>2
  <2> QED BY <2>1, <2>2
<1>10. content' \in [Heads -> Seq(Nodes)]
  BY <1>1, <1>2 DEF Ordered
<1>11. ASSUME kind \in Tailed, NEW g \in Heads
       PROVE  mem'.prev[g] = Cell(content'[g], g, Len(content'[g]))
  <2>1. mem.prev[g] = Cell(content[g], g, Len(content[g]))
    BY <1>11 DEF Ordered
  <2>2. CASE g # h
    BY <1>1, <1>11, <2>1, <2>2
  <2>3. CASE g = h /\ k = Len(row)
    <3>1. k - 1 # 0 => row2[k - 1] = row[k - 1]
      <4>1. Len(row) - 1 # 0 => Len(row) - 1 \in 1..Len(row) - 1 /\ Len(row) - 1 < Len(row)
        <5> DEFINE n == Len(row)
        <5>1. n \in Nat /\ n # 0
          BY <1>1
        <5> HIDE DEF n
        <5>2. n - 1 # 0 => n - 1 \in 1..n - 1 /\ n - 1 < n
          BY <5>1
        <5> QED BY <5>2 DEF n
      <4> QED BY <1>2, <2>3, <4>1
    <3>2. Cell(row2, h, Len(row2)) = p
      BY <1>1, <1>2, <2>3, <3>1 DEF Cell
    <3> QED BY <1>1, <1>11, <2>3, <3>2
  <2>4. CASE g = h /\ k # Len(row)
    <3>1. Len(row) # 0 /\ ~(Len(row) - 1 < k) /\ Len(row) - 1 \in 1..Len(row) - 1 /\ Len(row) - 1 + 1 = Len(row)
      BY <1>1, <2>4
    <3>2. row2[Len(row) - 1] = row[Len(row)]
      BY <1>1, <1>2, <3>1
    <3>3. Cell(row2, h, Len(row2)) = row[Len(row)]
      BY <1>1, <1>2, <3>1, <3>2 DEF Cell
    <3> QED BY <1>1, <1>11, <2>1, <2>4, <3>1, <3>3 DEF Cell
  <2> QED BY <2>2, <2>3, <2>4
<1> QED BY <1>5, <1>9, <1>10, <1>11 DEF Ordered, NextTaken
-----------------------------------------------------------------------------
LEMMA ConcatOrdered ==
  ASSUME Ordered, kind' = kind, kind \in {"STAILQ", "SIMPLEQ", "TAILQ"},
         NEW h1 \in Heads, NEW h2 \in Heads, h1 # h2, Len(content[h2]) # 0,
         owner' = [e \in Nodes |-> IF owner[e] = h2 THEN h1 ELSE owner[e]],
         content' = [content EXCEPT ![h1] = @ \o content[h2], ![h2] = <<>>],
         mem' \in Memory,
         \A x \in Objects : mem'.next[x] = IF x = h2 THEN NULL
           ELSE IF x = Cell(content[h1], h1, Len(content[h1])) THEN mem.next[h2] ELSE mem.next[x],
         kind \in Tailed => \A g \in Heads :
           mem'.prev[g] = IF g = h2 THEN h2 ELSE IF g = h1 THEN mem.prev[h2] ELSE mem.prev[g]
  PROVE  Ordered'
<1> DEFINE row1 == content[h1]
           row2 == content[h2]
           p == Cell(row1, h1, Len(row1))
<1>1. /\ row1 \in Seq(Nodes) /\ row2 \in Seq(Nodes) /\ Len(row1) \in Nat /\ Len(row2) \in Nat
      /\ content'[h1] = row1 \o row2 /\ content'[h2] = <<>>
      /\ \A g \in Heads \ {h1, h2} : content'[g] = content[g]
  BY DEF Ordered
<1>2. \A g \in Heads : End(g) = NULL /\ End(g)' = NULL /\ g # NULL /\ g \notin Nodes
  BY Apart, SMT DEF End
<1>3. \A g \in Heads : Row(mem.next, owner, g, content[g], NULL)
  BY <1>2 DEF Ordered
<1>4. /\ \A x \in Nodes : owner'[x] = IF owner[x] = h2 THEN h1 ELSE owner[x]
      /\ owner' \in [Nodes -> Heads \cup {NULL}]
  BY DEF Ordered
<1>5. Row(mem'.next, owner', h1, row1 \o row2, NULL) /\ Row(mem'.next, owner', h2, <<>>, NULL)
  <2>1. Row(mem.next, owner, h1, row1, NULL) /\ Row(mem.next, owner, h2, row2, NULL)
    BY <1>3
  <2>2. \A x \in Objects : mem'.next[x] = IF x = h2 THEN NULL ELSE IF x = p THEN mem.next[h2] ELSE mem.next[x]
    OBVIOUS
  <2> QED BY ONLY h1 \in Heads, h2 \in Heads, h1 # h2, Len(row2) # 0, <1>4, <2>1, <2>2, RowJoin
<1>6. ASSUME NEW g \in Heads, g # h1, g # h2 PROVE Row(mem'.next, owner', g, content[g], NULL)
  <2>1. Row(mem.next, owner, g, content[g], NULL) /\ Row(mem.next, owner, h1, row1, NULL)
    BY <1>3
  <2>2. InOneList(content[g], g, owner) /\ InOneList(row1, h1, owner)
        /\ \A i \in 0..Len(content[g]) : Cell(content[g], g, i) \in Objects
    BY <2>1, CellWithin, CellFacts
  <2>3. \A i \in 0..Len(content[g]) : Cell(content[g], g, i) # p /\ Cell(content[g], g, i) # h2
    <3>1. p = h1 \/ (p \in Nodes /\ owner[p] = h1)
      BY <1>1, <2>2 DEF InOneList
    <3> QED BY <1>2, <1>6, <2>2, <3>1 DEF InOneList
  <2>4. \A i \in 0..Len(content[g]) : mem'.next[Cell(content[g], g, i)] = mem.next[Cell(content[g], g, i)]
    BY <2>2, <2>3
  <2>5. \A x \in Nodes : owner'[x] = g <=> owner[x] = g
    BY <1>4, <1>6
  <2> QED BY ONLY <2>1, <2>4, <2>5, RowKept
<1>7. \A g \in Heads : Row(mem'.next, owner', g, content'[g], End(g)')
  <2> TAKE g \in Heads
  <2>1. End(g)' = NULL
    BY <1>2
  <2>2. Row(mem'.next, owner', g, content'[g], NULL)
    BY <1>1, <1>5, <1>6
  <2> QED BY <2>1, <2>2
<1>8. content' \in [Heads -> Seq(Nodes)]
  <2>1. row1 \o row2 \in Seq(Nodes) /\ <<>> \in Seq(Nodes)
    BY <1>1
  <2> QED BY <2>1 DEF Ordered
<1>9. ASSUME kind \in Tailed, NEW g \in Heads
      PROVE  mem'.prev[g] = Cell(content'[g], g, Len(content'[g]))
  <2>1. \A f \in Heads : mem.prev[f] = Cell(content[f], f, Len(content[f]))
    BY <1>9 DEF Ordered
  <2>2. CASE g # h1 /\ g # h2
    BY <1>1, <1>9, <2>1, <2>2
  <2>3. CASE g = h2
    BY <1>1, <1>9, <2>3 DEF Cell
  <2>4. CASE g = h1
    <3> DEFINE row == row1 \o row2
               a == Len(row1)
               b == Len(row2)
               n == a + b
    <3>1. /\ row \in Seq(Nodes) /\ Len(row) = a + b
          /\ \A k \in a + 1..a + b : row[k] = row2[k - a]
      <4>1. \A s, t \in Seq(Nodes) :
              /\ s \o t \in Seq(Nodes) /\ Len(s \o t) = Len(s) + Len(t)
              /\ \A k \in Len(s) + 1..Len(s) + Len(t) : (s \o t)[k] = t[k - Len(s)]
        BY ONLY ConcatRight
      <4> QED BY ONLY <1>1, <4>1
    <3>2. a \in Nat /\ b \in Nat /\ b # 0
      BY <1>1
    <3>3. mem'.prev[h1] = Cell(row2, h2, b) /\ Cell(row2, h2, b) = row2[b] /\ content'[h1] = row
      BY <1>1, <1>9, <2>1, <3>2 DEF Cell
    <3> HIDE DEF a, b, row
    <3>4. n \in a + 1..a + b /\ n - a = b /\ n # 0
      BY <3>2
    <3>5. row[n] = row2[b]
      BY <3>1, <3>4
    <3>6. Cell(row, h1, Len(row)) = row2[b]
      BY <3>1, <3>4, <3>5 DEF Cell
    <3> QED BY <2>4, <3>3, <3>6
  <2> QED BY <2>2, <2>3, <2>4
<1> QED BY <1>4, <1>7, <1>8, <1>9 DEF Ordered

LEMMA EmptyConcat ==
  ASSUME Ordered, kind' = kind, NEW h1 \in Heads, NEW h2 \in Heads, h1 # h2, Len(content[h2]) = 0,
         owner' = [e \in Nodes |-> IF owner[e] = h2 THEN h1 ELSE owner[e]],
         content' = [content EXCEPT ![h1] = @ \o content[h2], ![h2] = <<>>], mem' = mem
  PROVE  Ordered' /\ content' = content
<1>1. /\ content[h1] \in Seq(Nodes) /\ content[h2] \in Seq(Nodes)
      /\ \A e \in Nodes : owner[e] = h2 => \E i \in 1..Len(content[h2]) : content[h2][i] = e
  BY DEF Ordered, Row
<1>2. \A e \in Nodes : owner[e] # h2
  BY <1>1
<1>3. owner' = owner
  BY <1>2 DEF Ordered
<1>4. content[h2] = <<>> /\ content[h1] \o content[h2] = content[h1]
  <2>1. content[h2] = <<>>
    BY <1>1, EmptySeq
  <2>2. \A s \in Seq(Nodes) : s \o <<>> = s
    OBVIOUS
  <2> QED BY <1>1, <2>1, <2>2
<1>5. content' = content
  BY <1>4 DEF Ordered
<1> QED BY <1>3, <1>5 DEF Ordered, End

(* An element is in its list at one place.                                 *)
LEMMA PlaceRight ==
  ASSUME Ordered, NEW e \in Nodes, owner[e] # NULL
  PROVE  /\ owner[e] \in Heads
         /\ Place(e) \in 1..Len(content[owner[e]]) /\ content[owner[e]][Place(e)] = e
<1>1. owner[e] \in Heads
  BY DEF Ordered
<1>2. Row(mem.next, owner, owner[e], content[owner[e]], End(owner[e]))
  BY <1>1 DEF Ordered
<1>3. content[owner[e]] \in Seq(Nodes) /\ \E i \in 1..Len(content[owner[e]]) : content[owner[e]][i] = e
  BY <1>2 DEF Row
<1>4. \E i \in DOMAIN content[owner[e]] : content[owner[e]][i] = e
  BY <1>3
<1>5. Place(e) \in DOMAIN content[owner[e]] /\ content[owner[e]][Place(e)] = e
  BY <1>4 DEF Place
<1> QED BY <1>1, <1>3, <1>5

LEMMA PlaceOf ==
  ASSUME Ordered, NEW h \in Heads, NEW i \in 1..Len(content[h])
  PROVE  /\ content[h][i] \in Nodes /\ owner[content[h][i]] = h /\ h # NULL
         /\ Place(content[h][i]) = i
<1>1. Row(mem.next, owner, h, content[h], End(h)) /\ h # NULL
  BY Apart DEF Ordered
<1>2. content[h][i] \in Nodes /\ owner[content[h][i]] = h
  BY <1>1 DEF Row
<1>3. Place(content[h][i]) \in 1..Len(content[h]) /\ content[h][Place(content[h][i])] = content[h][i]
  BY <1>1, <1>2, PlaceRight
<1> QED BY <1>1, <1>2, <1>3 DEF Row

(* The walk of _REMOVE stops at the element before the one to remove.      *)
Defined(z, step, n) == \E f : f = [k \in 0..n |-> IF k = 0 THEN z ELSE step[f[k - 1]]]

LEMMA FunctionDefined ==
  ASSUME NEW z, NEW step, NEW n \in Nat
  PROVE  Defined(z, step, n)
<1> DEFINE P == {m \in Nat : \E f : f = [k \in 0..m |-> IF k = 0 THEN z ELSE step[f[k - 1]]]}
<1>1. 0 \in P
  <2> DEFINE f == [k \in 0..0 |-> z]
  <2>1. f = [k \in 0..0 |-> IF k = 0 THEN z ELSE step[f[k - 1]]]
    OBVIOUS
  <2> HIDE DEF f
  <2> QED BY <2>1
<1>2. ASSUME NEW m \in Nat, m \in P PROVE m + 1 \in P
  <2>1. PICK f : f = [k \in 0..m |-> IF k = 0 THEN z ELSE step[f[k - 1]]]
    BY <1>2
  <2> DEFINE g == [k \in 0..m + 1 |-> IF k = m + 1 THEN step[f[m]] ELSE f[k]]
  <2>2. g[m] = f[m] /\ \A k \in 0..m : g[k] = f[k]
    OBVIOUS
  <2>3. \A k \in 0..m + 1 : g[k] = IF k = 0 THEN z ELSE step[g[k - 1]]
    <3> TAKE k \in 0..m + 1
    <3>1. CASE k = m + 1
      <4>1. k - 1 = m /\ k # 0 /\ g[k] = step[f[m]]
        BY <3>1
      <4> QED BY <2>2, <4>1
    <3>2. CASE k # m + 1
      <4>1. k \in 0..m /\ g[k] = f[k] /\ (k # 0 => k - 1 \in 0..m)
        BY <3>2
      <4>2. f[k] = IF k = 0 THEN z ELSE step[f[k - 1]]
        BY <2>1, <4>1
      <4>3. k # 0 => g[k - 1] = f[k - 1]
        BY <2>2, <4>1
      <4> QED BY <4>1, <4>2, <4>3
    <3> QED BY <3>1, <3>2
  <2>4. g = [k \in 0..m + 1 |-> g[k]]
    OBVIOUS
  <2> HIDE DEF g
  <2>5. g = [k \in 0..m + 1 |-> IF k = 0 THEN z ELSE step[g[k - 1]]]
    BY <2>3, <2>4, Zenon
  <2> QED BY <2>5
<1> HIDE DEF P
<1>3. n \in P
  BY <1>1, <1>2, InductionOnSet, Zenon
<1> QED BY <1>3 DEF P, Defined

(* A list is no longer than there are elements.                            *)
LEMMA RowBounded ==
  ASSUME NEW row, row \in Seq(Nodes), \A i, j \in 1..Len(row) : row[i] = row[j] => i = j
  PROVE  Cardinality(Nodes) \in Nat /\ Len(row) <= Cardinality(Nodes)
<1>1. IsFiniteSet(Nodes) /\ Cardinality(Nodes) \in Nat
  BY QueueAssumption, FS_CardinalityType
<1>2. row \in Injection(1..Len(row), Nodes)
  <2>1. row \in [1..Len(row) -> Nodes]
    OBVIOUS
  <2> QED BY <2>1 DEF Injection, IsInjective
<1>3. Cardinality(1..Len(row)) <= Cardinality(Nodes)
  BY <1>1, <1>2, FS_Injection
<1>4. Len(row) \in Nat
  OBVIOUS
<1>5. Cardinality(1..Len(row)) = Len(row)
  <2> DEFINE n == Len(row)
  <2>1. n \in Nat
    BY <1>4
  <2> HIDE DEF n
  <2>2. Cardinality(1..n) = IF 1 > n THEN 0 ELSE n - 1 + 1
    BY <2>1, FS_Interval
  <2>3. Cardinality(1..n) = n
    BY <2>1, <2>2
  <2> QED BY <2>3 DEF n
<1> QED BY <1>1, <1>3, <1>5

Walks(m, h, row) == \A j \in 2..Len(row) : WalkTo(m, h, row[j]) = row[j - 1]

LEMMA WalkRight ==
  ASSUME NEW m, NEW whose, NEW h \in Heads, NEW row, NEW end, Row(m.next, whose, h, row, end)
  PROVE  Walks(m, h, row)
<1> SUFFICES ASSUME NEW j \in 2..Len(row) PROVE WalkTo(m, h, row[j]) = row[j - 1]
  BY DEF Walks
<1> DEFINE elm == row[j]
           n == Cardinality(Nodes)
           Body(f) == [k \in 0..n |-> IF k = 0 THEN m.next[h] ELSE m.next[f[k - 1]]]
           walk == CHOOSE f : f = Body(f)
           Stop(i) == m.next[walk[i]] = elm /\ \A k \in 0..i - 1 : m.next[walk[k]] # elm
<1>1. /\ row \in Seq(Nodes) /\ Len(row) \in Nat /\ n \in Nat /\ Len(row) <= n
      /\ \A i, k \in 1..Len(row) : row[i] = row[k] => i = k
      /\ \A i \in 1..Len(row) : row[i] \in Nodes
  BY RowBounded DEF Row
<1>2. /\ m.next[h] = row[1]
      /\ \A i \in 1..Len(row) - 1 : m.next[row[i]] = row[i + 1]
  <2>1. 0 \in 0..Len(row) /\ Cell(row, h, 0) = h /\ Len(row) # 0
    BY <1>1 DEF Cell
  <2>2. \A i \in 1..Len(row) - 1 : i \in 0..Len(row) /\ Cell(row, h, i) = row[i] /\ i # Len(row)
    BY <1>1 DEF Cell
  <2>3. \A i \in 0..Len(row) : m.next[Cell(row, h, i)] = IF i = Len(row) THEN end ELSE row[i + 1]
    BY DEF Row
  <2>4. \A i \in 1..Len(row) - 1 : m.next[row[i]] = row[i + 1]
    BY <2>2, <2>3
  <2>5. m.next[h] = row[0 + 1]
    BY <2>1, <2>3
  <2> QED BY <2>4, <2>5
<1>3. WalkTo(m, h, elm) = walk[CHOOSE i \in 0..n : Stop(i)]
  BY Zenon DEF WalkTo
<1>4. walk = Body(walk)
  <2>1. Defined(m.next[h], m.next, n)
    BY <1>1, FunctionDefined
  <2>2. \E f : f = Body(f)
    BY <2>1 DEF Defined
  <2> HIDE DEF Body
  <2> QED BY <2>2
<1> HIDE DEF walk, n
<1>5. \A k \in 0..n : walk[k] = IF k = 0 THEN m.next[h] ELSE m.next[walk[k - 1]]
  BY <1>4
<1> DEFINE P == {k \in Nat : k < Len(row) => walk[k] = row[k + 1]}
<1>6. 0 \in P
  BY <1>1, <1>2, <1>5
<1>7. ASSUME NEW k \in Nat, k \in P PROVE k + 1 \in P
  <2> SUFFICES ASSUME k + 1 < Len(row) PROVE walk[k + 1] = row[k + 1 + 1]
    OBVIOUS
  <2> DEFINE i == k + 1
  <2>1. i \in 0..n /\ i # 0 /\ i - 1 = k /\ i \in 1..Len(row) - 1 /\ walk[k] = row[i]
    BY <1>1, <1>7
  <2> HIDE DEF i
  <2>2. walk[i] = m.next[row[i]]
    BY <1>5, <2>1
  <2> QED BY <1>2, <2>1, <2>2 DEF i
<1> HIDE DEF P
<1>8. \A k \in Nat : k \in P
  BY <1>6, <1>7, InductionOnSet, Zenon
<1>9. \A k \in 0..Len(row) - 1 : walk[k] = row[k + 1]
  BY <1>1, <1>8 DEF P
<1>10. \A k \in 0..Len(row) - 2 : m.next[walk[k]] = row[k + 2]
  <2> TAKE k \in 0..Len(row) - 2
  <2> DEFINE i == k + 1
  <2>1. i \in 1..Len(row) - 1 /\ i + 1 = k + 2 /\ walk[k] = row[i]
    BY <1>1, <1>9
  <2> HIDE DEF i
  <2> QED BY <1>2, <2>1
<1>11. \A k \in 0..Len(row) - 2 : m.next[walk[k]] = elm <=> k = j - 2
  <2> TAKE k \in 0..Len(row) - 2
  <2>1. k + 2 \in 1..Len(row) /\ j \in 1..Len(row) /\ (k + 2 = j <=> k = j - 2)
    BY <1>1
  <2> QED BY <1>1, <1>10, <2>1
<1>12. j - 2 \in 0..n /\ j - 2 \in 0..Len(row) - 2 /\ \A k \in 0..j - 2 - 1 : k \in 0..Len(row) - 2 /\ k # j - 2
  BY <1>1
<1>13. Stop(j - 2)
  BY <1>11, <1>12
<1>14. ASSUME NEW i \in 0..n, Stop(i) PROVE i = j - 2
  <2>1. CASE i <= Len(row) - 2
    BY <1>1, <1>11, <1>14, <2>1
  <2>2. CASE i > Len(row) - 2
    <3>1. j - 2 \in 0..i - 1
      BY <1>1, <2>2
    <3> QED BY <1>11, <1>12, <1>14, <3>1
  <2> QED BY <1>1, <2>1, <2>2
<1> HIDE DEF Stop
<1>15. (CHOOSE i \in 0..n : Stop(i)) = j - 2
  BY <1>12, <1>13, <1>14
<1>16. walk[j - 2] = row[j - 1]
  <2>1. j - 2 \in 0..Len(row) - 1 /\ j - 2 + 1 = j - 1
    BY <1>1
  <2> QED BY <1>9, <2>1
<1> QED BY <1>3, <1>15, <1>16
-----------------------------------------------------------------------------
(* Of the heads, only that of h is set to v, and only if b.                *)
LastSet(m, m2, h, b, v) == \A g \in Heads : m2.prev[g] = IF g = h /\ b THEN v ELSE m.prev[g]

LEMMA SingleInsert ==
  ASSUME NEW m \in Memory, NEW l \in Objects, NEW e \in Objects, e # l
  PROVE  /\ NextPut(m, SLIST_INSERT_AFTER(m, l, e), l, e)
         /\ NextPut(m, SLIST_INSERT_HEAD(m, l, e), l, e)
<1>1. SLIST_INSERT_AFTER(m, l, e) = SLIST_INSERT_HEAD(m, l, e)
  BY DEF SLIST_INSERT_AFTER, SLIST_INSERT_HEAD
<1>2. SLIST_INSERT_AFTER(m, l, e) \in Memory
  BY InSpots, Apart, Assigned DEF SLIST_INSERT_AFTER
<1>3. \A x \in Objects : SLIST_INSERT_AFTER(m, l, e).next[x]
        = IF x = l THEN e ELSE IF x = e THEN m.next[l] ELSE m.next[x]
  BY SMT DEF SLIST_INSERT_AFTER, SetNext, Memory
<1> QED BY <1>1, <1>2, <1>3 DEF NextPut

LEMMA TailedInsertAfter ==
  ASSUME NEW m \in Memory, NEW h \in Heads, NEW l \in Objects, NEW e \in Nodes, e # l
  PROVE  /\ NextPut(m, STAILQ_INSERT_AFTER(m, h, l, e), l, e)
         /\ LastSet(m, STAILQ_INSERT_AFTER(m, h, l, e), h, m.next[l] = NULL, e)
<1>0. h \in Objects /\ e \in Objects /\ e \notin Heads
  BY Apart
<1>1. STAILQ_INSERT_AFTER(m, h, l, e) \in Memory
  <2>1. SetNext(m, e, m.next[l]) \in Memory
    BY <1>0, InSpots, Assigned
  <2> QED
    BY <1>0, <2>1, Apart, Assigned DEF STAILQ_INSERT_AFTER
<1>2. \A x \in Objects :
        /\ STAILQ_INSERT_AFTER(m, h, l, e).next[x] = IF x = l THEN e ELSE IF x = e THEN m.next[l] ELSE m.next[x]
        /\ STAILQ_INSERT_AFTER(m, h, l, e).prev[x] = IF x = h /\ m.next[l] = NULL THEN e ELSE m.prev[x]
  BY <1>0, SMT DEF STAILQ_INSERT_AFTER, SetNext, SetPrev, Memory
<1> QED BY <1>1, <1>2, Apart DEF NextPut, LastSet

LEMMA TailedInsertHead ==
  ASSUME NEW m \in Memory, NEW h \in Heads, NEW e \in Nodes
  PROVE  /\ NextPut(m, STAILQ_INSERT_HEAD(m, h, e), h, e)
         /\ LastSet(m, STAILQ_INSERT_HEAD(m, h, e), h, m.next[h] = NULL, e)
<1>1. STAILQ_INSERT_HEAD(m, h, e) = STAILQ_INSERT_AFTER(m, h, h, e)
  BY DEF STAILQ_INSERT_HEAD, STAILQ_INSERT_AFTER
<1>2. h \in Objects /\ e # h
  BY Apart
<1> QED BY <1>1, <1>2, TailedInsertAfter

LEMMA TailedInsertTail ==
  ASSUME NEW m \in Memory, NEW h \in Heads, NEW e \in Nodes,
         NEW p \in Objects, p = m.prev[h], e # p, m.next[p] = NULL
  PROVE  /\ NextPut(m, STAILQ_INSERT_TAIL(m, h, e), p, e)
         /\ LastSet(m, STAILQ_INSERT_TAIL(m, h, e), h, TRUE, e)
<1>0. h \in Objects /\ e \in Objects /\ e \notin Heads
  BY Apart
<1>1. STAILQ_INSERT_TAIL(m, h, e) \in Memory
  <2>1. SetNext(SetNext(m, e, NULL), p, e) \in Memory
    BY <1>0, Apart, Assigned
  <2> QED
    BY <1>0, <2>1, Apart, Assigned DEF STAILQ_INSERT_TAIL
<1>2. \A x \in Objects :
        /\ STAILQ_INSERT_TAIL(m, h, e).next[x] = IF x = p THEN e ELSE IF x = e THEN m.next[p] ELSE m.next[x]
        /\ STAILQ_INSERT_TAIL(m, h, e).prev[x] = IF x = h THEN e ELSE m.prev[x]
  BY <1>0, SMT DEF STAILQ_INSERT_TAIL, SetNext, SetPrev, Memory
<1> QED BY <1>1, <1>2, Apart DEF NextPut, LastSet

LEMMA SingleRemoveAfter ==
  ASSUME NEW m \in Memory, NEW l \in Objects, NEW e \in Nodes, e = m.next[l]
  PROVE  /\ NextTaken(m, POSTREMOVE(SLIST_REMOVE_AFTER(m, l), e), l, e)
         /\ NextTaken(m, POSTREMOVE(SLIST_REMOVE_HEAD(m, l), e), l, e)
<1>0. e \in Objects
  BY Apart
<1>1. SLIST_REMOVE_AFTER(m, l) = SLIST_REMOVE_HEAD(m, l)
  BY DEF SLIST_REMOVE_AFTER, SLIST_REMOVE_HEAD
<1>2. SLIST_REMOVE_AFTER(m, l) \in Memory
  BY <1>0, InSpots, Assigned DEF SLIST_REMOVE_AFTER
<1>3. POSTREMOVE(SLIST_REMOVE_AFTER(m, l), e) \in Memory
  BY <1>0, <1>2, Freed
<1>4. \A x \in Objects \ {e} : POSTREMOVE(SLIST_REMOVE_AFTER(m, l), e).next[x]
        = IF x = l THEN m.next[e] ELSE m.next[x]
  BY <1>0, SMT DEF POSTREMOVE, SLIST_REMOVE_AFTER, SetNext, SetPrev, Memory
<1> QED BY <1>1, <1>3, <1>4 DEF NextTaken

LEMMA SingleRemove ==
  ASSUME NEW m \in Memory, NEW h \in Heads, NEW p \in Objects, NEW e \in Nodes, e = m.next[p],
         p # h => m.next[h] # e /\ WalkTo(m, h, e) = p
  PROVE  NextTaken(m, POSTREMOVE(SLIST_REMOVE(m, h, e), e), p, e)
<1>1. SLIST_REMOVE(m, h, e) = SLIST_REMOVE_AFTER(m, p)
  BY DEF SLIST_REMOVE, SLIST_REMOVE_AFTER, SLIST_REMOVE_HEAD
<1> QED BY <1>1, SingleRemoveAfter

LEMMA TailedRemoveHead ==
  ASSUME NEW m \in Memory, NEW h \in Heads, NEW e \in Nodes, e = m.next[h]
  PROVE  /\ NextTaken(m, POSTREMOVE(STAILQ_REMOVE_HEAD(m, h), e), h, e)
         /\ LastSet(m, POSTREMOVE(STAILQ_REMOVE_HEAD(m, h), e), h, m.next[e] = NULL, h)
<1>0. h \in Objects /\ e \in Objects /\ e \notin Heads /\ \A g \in Heads : g \in Objects
  BY Apart
<1>1. STAILQ_REMOVE_HEAD(m, h) \in Memory
  <2>1. SetNext(m, h, m.next[m.next[h]]) \in Memory
    BY <1>0, InSpots, Assigned
  <2> QED BY <1>0, <2>1, Apart, Assigned DEF STAILQ_REMOVE_HEAD
<1>2. POSTREMOVE(STAILQ_REMOVE_HEAD(m, h), e) \in Memory
  BY <1>0, <1>1, Freed
<1>3. \A x \in Objects \ {e} :
        /\ POSTREMOVE(STAILQ_REMOVE_HEAD(m, h), e).next[x] = IF x = h THEN m.next[e] ELSE m.next[x]
        /\ POSTREMOVE(STAILQ_REMOVE_HEAD(m, h), e).prev[x]
             = IF x = h /\ m.next[e] = NULL THEN h ELSE m.prev[x]
  BY <1>0, SMT DEF POSTREMOVE, STAILQ_REMOVE_HEAD, SetNext, SetPrev, Memory
<1> QED BY <1>0, <1>2, <1>3 DEF NextTaken, LastSet

LEMMA TailedRemove ==
  ASSUME NEW m \in Memory, NEW h \in Heads, NEW p \in Objects, NEW e \in Nodes, e = m.next[p],
         p # h => m.next[h] # e /\ WalkTo(m, h, e) = p
  PROVE  /\ NextTaken(m, POSTREMOVE(STAILQ_REMOVE(m, h, e), e), p, e)
         /\ LastSet(m, POSTREMOVE(STAILQ_REMOVE(m, h, e), e), h, m.next[e] = NULL, p)
<1>1. CASE p = h
  <2>1. STAILQ_REMOVE(m, h, e) = STAILQ_REMOVE_HEAD(m, h)
    BY <1>1 DEF STAILQ_REMOVE
  <2> QED BY <1>1, <2>1, TailedRemoveHead
<1>2. CASE p # h
  <2> DEFINE m1 == SetNext(m, p, m.next[e])
             m2 == IF m1.next[p] = NULL THEN SetPrev(m1, h, p) ELSE m1
  <2>0. h \in Objects /\ e \in Objects /\ e \notin Heads /\ \A g \in Heads : g \in Objects
    BY Apart
  <2>1. STAILQ_REMOVE(m, h, e) = m2
    BY <1>2 DEF STAILQ_REMOVE
  <2>2. m2 \in Memory
    <3>1. m1 \in Memory
      BY <2>0, InSpots, Assigned
    <3> QED BY <2>0, <3>1, Apart, Assigned
  <2>3. POSTREMOVE(m2, e) \in Memory
    BY <2>0, <2>2, Freed
  <2>4. \A x \in Objects \ {e} :
          /\ POSTREMOVE(m2, e).next[x] = IF x = p THEN m.next[e] ELSE m.next[x]
          /\ POSTREMOVE(m2, e).prev[x] = IF x = h /\ m.next[e] = NULL THEN p ELSE m.prev[x]
    BY <2>0, SMT DEF POSTREMOVE, SetNext, SetPrev, Memory
  <2> QED BY <2>0, <2>1, <2>3, <2>4 DEF NextTaken, LastSet
<1> QED BY <1>1, <1>2

LEMMA TailedConcat ==
  ASSUME NEW m \in Memory, NEW h1 \in Heads, NEW h2 \in Heads, h1 # h2,
         NEW p \in Objects, p = m.prev[h1], p # h2, m.next[h2] # NULL
  PROVE  LET m2 == STAILQ_CONCAT(m, h1, h2) IN
         /\ m2 \in Memory
         /\ \A x \in Objects : m2.next[x] = IF x = h2 THEN NULL ELSE IF x = p THEN m.next[h2] ELSE m.next[x]
         /\ \A g \in Heads : m2.prev[g] = IF g = h2 THEN h2 ELSE IF g = h1 THEN m.prev[h2] ELSE m.prev[g]
<1> DEFINE m1 == SetPrev(SetNext(m, p, m.next[h2]), h1, m.prev[h2])
           m2 == STAILQ_CONCAT(m, h1, h2)
<1>0. h1 \in Objects /\ h2 \in Objects /\ NULL \in Spots /\ \A g \in Heads : g \in Objects /\ g \in Spots
  BY Apart
<1>1. m2 = STAILQ_INIT(m1, h2)
  BY DEF STAILQ_CONCAT, STAILQ_EMPTY
<1>2. m2 \in Memory
  <2>1. m1 \in Memory
    BY <1>0, InSpots, Assigned
  <2> HIDE DEF m1
  <2> QED BY <1>0, <1>1, <2>1, Assigned DEF STAILQ_INIT
<1>3. \A x \in Objects :
        /\ m2.next[x] = IF x = h2 THEN NULL ELSE IF x = p THEN m.next[h2] ELSE m.next[x]
        /\ m2.prev[x] = IF x = h2 THEN h2 ELSE IF x = h1 THEN m.prev[h2] ELSE m.prev[x]
  BY <1>0, <1>1, SMT DEF STAILQ_INIT, SetNext, SetPrev, Memory
<1> QED BY <1>0, <1>2, <1>3
-----------------------------------------------------------------------------
(* The inductive invariant: the links are right locally and the lists are  *)
(* those the program has made.                                             *)
OrderInv == QueueInv /\ Ordered

LEMMA EndOf ==
  ASSUME Ordered, kind # "CIRCLEQ", NEW h \in Heads, NEW k \in 0..Len(content[h])
  PROVE  mem.next[Cell(content[h], h, k)] = NULL <=> k = Len(content[h])
<1>1. content[h] \in Seq(Nodes) /\ End(h) = NULL
  BY DEF Ordered, End
<1>2. mem.next[Cell(content[h], h, k)] = IF k = Len(content[h]) THEN NULL ELSE content[h][k + 1]
  BY <1>1 DEF Ordered, Row
<1>3. k # Len(content[h]) => content[h][k + 1] \in Nodes
  BY <1>1
<1> QED BY <1>2, <1>3, Apart

(* What is known of the cells of a list of the present state.              *)
LEMMA Cells ==
  ASSUME Ordered, NEW h \in Heads
  PROVE  LET row == content[h] IN
         /\ row \in Seq(Nodes) /\ Len(row) \in Nat
         /\ Cell(row, h, 0) = h
         /\ \A i \in 1..Len(row) : Cell(row, h, i) = row[i] /\ row[i] \in Nodes /\ row[i] # h /\ owner[row[i]] = h
         /\ \A i \in 0..Len(row) : Cell(row, h, i) \in Objects /\ Own[Cell(row, h, i)] = h
         /\ \A i, j \in 0..Len(row) : Cell(row, h, i) = Cell(row, h, j) => i = j
         /\ \A i \in 0..Len(row) : mem.next[Cell(row, h, i)] = IF i = Len(row) THEN End(h) ELSE row[i + 1]
         /\ \A i, j \in 1..Len(row) : row[i] = row[j] => i = j
<1> DEFINE row == content[h]
<1>1. Row(mem.next, owner, h, row, End(h))
  BY DEF Ordered
<1>2. /\ Len(row) \in Nat
      /\ \A i \in 1..Len(row) : Cell(row, h, i) = row[i] /\ row[i] \in Nodes /\ row[i] # h
      /\ \A i \in 0..Len(row) : Cell(row, h, i) \in Objects
      /\ \A i, j \in 0..Len(row) : Cell(row, h, i) = Cell(row, h, j) => i = j
  BY <1>1, CellFacts
<1>3. /\ row \in Seq(Nodes)
      /\ \A i \in 1..Len(row) : owner[row[i]] = h
      /\ \A i \in 0..Len(row) : mem.next[Cell(row, h, i)] = IF i = Len(row) THEN End(h) ELSE row[i + 1]
      /\ \A i, j \in 1..Len(row) : row[i] = row[j] => i = j
  BY <1>1 DEF Row
<1>4. Cell(row, h, 0) = h
  BY DEF Cell
<1>5. InOneList(row, h, owner)
  BY <1>1, CellWithin
<1>6. \A i \in 0..Len(row) : Own[Cell(row, h, i)] = h
  <2>1. Own[h] = h /\ \A e \in Nodes : Own[e] = owner[e]
    BY OwnRight DEF Ordered
  <2> QED BY <1>5, <2>1 DEF InOneList
<1> QED BY <1>2, <1>3, <1>4, <1>6

(* The doubly linked lists can be followed backwards.                      *)
LEMMA Backwards ==
  ASSUME OrderInv, NEW h \in Heads
  PROVE  /\ kind \in DoublyLinked => \A i \in 1..Len(content[h]) :
              mem.prev[content[h][i]] = Cell(content[h], h, i - 1)
         /\ kind \in {"TAILQ", "CIRCLEQ"} => mem.prev[h] = Cell(content[h], h, Len(content[h]))
<1> DEFINE row == content[h]
<1>1. /\ row \in Seq(Nodes) /\ Len(row) \in Nat
      /\ \A i \in 1..Len(row) : row[i] \in Nodes
      /\ \A i \in 0..Len(row) : Cell(row, h, i) \in Objects /\ Own[Cell(row, h, i)] = h
      /\ \A i \in 0..Len(row) : mem.next[Cell(row, h, i)] = IF i = Len(row) THEN End(h) ELSE row[i + 1]
  BY Cells DEF OrderInv
<1>2. Own \in Owners /\ Own[h] = h /\ h \in Objects /\ h # NULL /\ h \notin Nodes
  BY OwnRight, Apart DEF OrderInv, QueueInv
<1>3. ASSUME NEW x \in Objects, Own[x] = h
      PROVE  /\ kind \in DoublyLinked /\ mem.next[x] \in Nodes => mem.prev[mem.next[x]] = x
             /\ kind \in {"TAILQ", "CIRCLEQ"} /\ mem.next[x] = End(h) => mem.prev[h] = x
  <2>1. CASE kind = "LIST"
    BY <1>2, <1>3, <2>1, LinkedFacts, Apart DEF OrderInv
  <2>2. CASE kind = "CIRCLEQ"
    BY <1>2, <1>3, <2>2, LinkedFacts DEF OrderInv, End
  <2>3. CASE kind = "TAILQ"
    <3>1. mem \in Memory /\ TailRing(mem, Own) /\ End(h) = NULL
      BY <1>2, <1>3, <2>3, LinkedFacts DEF OrderInv, End
    <3>2. mem.prev[IF mem.next[x] # NULL THEN mem.next[x] ELSE Own[x]] = x
      BY <1>2, <1>3, <3>1, TailFacts
    <3> QED BY <1>3, <2>3, <3>1, <3>2, Apart
  <2> QED BY <2>1, <2>2, <2>3 DEF DoublyLinked
<1>4. ASSUME kind \in DoublyLinked, NEW i \in 1..Len(row) PROVE mem.prev[row[i]] = Cell(row, h, i - 1)
  <2>1. i - 1 \in 0..Len(row) /\ i - 1 # Len(row) /\ i - 1 + 1 = i
    BY <1>1
  <2>2. mem.next[Cell(row, h, i - 1)] = row[i]
    BY <1>1, <2>1
  <2> QED BY <1>1, <1>3, <1>4, <2>1, <2>2
<1>5. ASSUME kind \in {"TAILQ", "CIRCLEQ"} PROVE mem.prev[h] = Cell(row, h, Len(row))
  <2>1. mem.next[Cell(row, h, Len(row))] = End(h) /\ Len(row) \in 0..Len(row)
    BY <1>1
  <2> QED BY <1>1, <1>3, <1>5, <2>1
<1> QED BY <1>4, <1>5

(* What Put and Take say of the lists.                                     *)
LEMMA PutRight ==
  ASSUME Ordered, NEW h \in Heads, NEW e \in Nodes, NEW i, Put(e, h, i)
  PROVE  /\ kind' = kind /\ owner[e] = NULL /\ owner' = [owner EXCEPT ![e] = h]
         /\ content' = [content EXCEPT ![h] = Seqs!InsertAt(@, i, e)]
         /\ \A g \in Heads : \A k \in 0..Len(content[g]) : Cell(content[g], g, k) # e
<1>1. owner[e] = NULL
  BY DEF Put
<1>2. \A g \in Heads : \A k \in 0..Len(content[g]) : Own[Cell(content[g], g, k)] = g /\ g # NULL
  BY Cells, Apart
<1>3. Own[e] = NULL
  BY <1>1, OwnRight DEF Ordered
<1> QED BY <1>2, <1>3 DEF Put

LEMMA InsertHeadOrders ==
  ASSUME OrderInv, NEW h \in Heads, NEW e \in Nodes, InsertHead(h, e)
  PROVE  Ordered'
<1> DEFINE row == content[h]
<1>1. /\ Ordered /\ mem \in Memory /\ row \in Seq(Nodes) /\ 0 \in 0..Len(row) /\ Cell(row, h, 0) = h
      /\ h \in Objects /\ e \in Objects /\ e # h
  BY Cells, Apart DEF OrderInv, Ordered
<1>2. /\ kind' = kind /\ owner[e] = NULL /\ owner' = [owner EXCEPT ![e] = h]
      /\ content' = [content EXCEPT ![h] = Seqs!InsertAt(@, 0 + 1, e)]
  <2>1. Put(e, h, 0 + 1)
    BY DEF InsertHead
  <2> QED BY <1>1, <2>1, PutRight
<1>3. NextPut(mem, mem', h, e)
  <2>1. kind \in DoublyLinked => NextPut(mem, mem', h, e)
    <3>1. /\ kind = "LIST" => Inserted(mem, mem', mem.next[h], h, e)
          /\ kind = "TAILQ" => Inserted(mem, mem', Around(mem.next, Own)[h], h, e)
          /\ kind = "CIRCLEQ" => Inserted(mem, mem', mem.next[h], h, e)
      BY InsertHeadPuts DEF OrderInv
    <3> QED BY <3>1 DEF DoublyLinked, Inserted, NextPut
  <2>2. kind = "SLIST" => mem' = SLIST_INSERT_HEAD(mem, h, e)
    BY SMT DEF InsertHead
  <2>3. kind \in Tailed => mem' = STAILQ_INSERT_HEAD(mem, h, e)
    BY SMT DEF InsertHead, Tailed, SIMPLEQ_INSERT_HEAD
  <2> QED BY <1>1, <2>1, <2>2, <2>3, SingleInsert, TailedInsertHead DEF Ordered, AllKinds, DoublyLinked, Tailed
<1>4. kind \in Tailed => \A g \in Heads : mem'.prev[g] = IF g = h /\ 0 = Len(row) THEN e ELSE mem.prev[g]
  <2>1. kind \in Tailed => mem' = STAILQ_INSERT_HEAD(mem, h, e) /\ kind # "CIRCLEQ"
    BY SMT DEF InsertHead, Tailed, SIMPLEQ_INSERT_HEAD
  <2>2. kind \in Tailed => (mem.next[h] = NULL <=> 0 = Len(row))
    BY <1>1, <2>1, EndOf
  <2> QED BY <1>1, <2>1, <2>2, TailedInsertHead DEF LastSet
<1> QED BY ONLY <1>1, <1>2, <1>3, <1>4, h \in Heads, e \in Nodes, PutOrdered
-----------------------------------------------------------------------------
LEMMA InsertTailOrders ==
  ASSUME OrderInv, NEW h \in Heads, NEW e \in Nodes, InsertTail(h, e)
  PROVE  Ordered'
<1> DEFINE row == content[h]
           p == Cell(row, h, Len(row))
<1>1. /\ Ordered /\ mem \in Memory /\ row \in Seq(Nodes) /\ Len(row) \in 0..Len(row)
      /\ p \in Objects /\ mem.next[p] = End(h)
  BY Cells DEF OrderInv, Ordered
<1>2. /\ kind' = kind /\ owner[e] = NULL /\ owner' = [owner EXCEPT ![e] = h]
      /\ content' = [content EXCEPT ![h] = Seqs!InsertAt(@, Len(row) + 1, e)]
      /\ p # e
  <2>1. Put(e, h, Len(row) + 1)
    BY DEF InsertTail
  <2> QED BY <1>1, <2>1, PutRight
<1>3. kind \in Tailed => mem' = STAILQ_INSERT_TAIL(mem, h, e) /\ mem.prev[h] = p /\ mem.next[p] = NULL
  BY <1>1, SMT DEF InsertTail, Tailed, SIMPLEQ_INSERT_TAIL, Ordered, End
<1>4. kind \in Tailed => NextPut(mem, mem', p, e) /\ LastSet(mem, mem', h, TRUE, e)
  <2> HIDE DEF p
  <2> QED BY <1>1, <1>2, <1>3, TailedInsertTail
<1>5. NextPut(mem, mem', p, e)
  <2>1. kind \in {"TAILQ", "CIRCLEQ"} \cup Tailed
    BY SMT DEF InsertTail, Tailed
  <2>2. kind \in {"TAILQ", "CIRCLEQ"} => NextPut(mem, mem', p, e)
    <3>1. kind \in {"TAILQ", "CIRCLEQ"} => mem.prev[h] = p
      BY Backwards
    <3>2. /\ kind = "TAILQ" => Inserted(mem, mem', Around(mem.next, Own)[mem.prev[h]], mem.prev[h], e)
          /\ kind = "CIRCLEQ" => Inserted(mem, mem', mem.next[mem.prev[h]], mem.prev[h], e)
      BY InsertTailPuts DEF OrderInv
    <3> QED BY <3>1, <3>2 DEF Inserted, NextPut
  <2> QED BY <1>4, <2>1, <2>2
<1>6. kind \in Tailed => \A g \in Heads : mem'.prev[g] = IF g = h /\ Len(row) = Len(row) THEN e ELSE mem.prev[g]
  BY <1>4 DEF LastSet
<1> QED BY ONLY <1>1, <1>2, <1>5, <1>6, h \in Heads, e \in Nodes, PutOrdered

LEMMA InsertAfterOrders ==
  ASSUME OrderInv, NEW l \in Nodes, NEW e \in Nodes, InsertAfter(l, e)
  PROVE  Ordered'
<1> DEFINE h == owner[l]
           row == content[h]
           k == Place(l)
<1>1. /\ Ordered /\ mem \in Memory /\ h \in Heads /\ k \in 1..Len(row) /\ row[k] = l
  BY PlaceRight DEF OrderInv, Ordered, InsertAfter
<1>2. /\ row \in Seq(Nodes) /\ k \in 0..Len(row) /\ Cell(row, h, k) = l /\ l \in Objects
  BY <1>1, Cells, Apart
<1>3. /\ kind' = kind /\ owner[e] = NULL /\ owner' = [owner EXCEPT ![e] = h]
      /\ content' = [content EXCEPT ![h] = Seqs!InsertAt(@, k + 1, e)]
      /\ l # e /\ e \in Objects
  <2>1. Put(e, h, k + 1)
    BY DEF InsertAfter
  <2> HIDE DEF h, k
  <2> QED BY <1>1, <1>2, <2>1, PutRight, Apart
<1>4. kind \in Tailed => mem' = STAILQ_INSERT_AFTER(mem, h, l, e) /\ kind # "CIRCLEQ"
  BY SMT DEF InsertAfter, Tailed, SIMPLEQ_INSERT_AFTER
<1>5. kind = "SLIST" => mem' = SLIST_INSERT_AFTER(mem, l, e)
  BY SMT DEF InsertAfter
<1>6. kind \in DoublyLinked => NextPut(mem, mem', l, e)
  <2>1. /\ kind = "LIST" => Inserted(mem, mem', mem.next[l], l, e)
        /\ kind = "TAILQ" => Inserted(mem, mem', Around(mem.next, Own)[l], l, e)
        /\ kind = "CIRCLEQ" => Inserted(mem, mem', mem.next[l], l, e)
    BY InsertAfterPuts DEF OrderInv
  <2> QED BY <2>1 DEF DoublyLinked, Inserted, NextPut
<1> HIDE DEF h, k
<1>7. NextPut(mem, mem', Cell(row, h, k), e)
  BY <1>1, <1>2, <1>3, <1>4, <1>5, <1>6, SingleInsert, TailedInsertAfter
    DEF Ordered, AllKinds, DoublyLinked, Tailed
<1>8. kind \in Tailed => \A g \in Heads : mem'.prev[g] = IF g = h /\ k = Len(row) THEN e ELSE mem.prev[g]
  <2>1. kind \in Tailed => (mem.next[l] = NULL <=> k = Len(row))
    BY <1>1, <1>2, <1>4, EndOf
  <2> QED BY <1>1, <1>2, <1>3, <1>4, <2>1, TailedInsertAfter DEF LastSet
<1> QED BY ONLY <1>1, <1>2, <1>3, <1>7, <1>8, e \in Nodes, PutOrdered

LEMMA InsertBeforeOrders ==
  ASSUME OrderInv, NEW l \in Nodes, NEW e \in Nodes, InsertBefore(l, e)
  PROVE  Ordered'
<1> DEFINE h == owner[l]
           row == content[h]
           i == Place(l)
           k == i - 1
<1>1. /\ Ordered /\ mem \in Memory /\ h \in Heads /\ i \in 1..Len(row) /\ row[i] = l
  BY PlaceRight DEF OrderInv, Ordered, InsertBefore
<1>2. row \in Seq(Nodes) /\ k \in 0..Len(row) /\ k + 1 = i
  BY <1>1, Cells
<1>3. kind \in DoublyLinked
  BY SMT DEF InsertBefore, DoublyLinked
<1>4. mem.prev[l] = Cell(row, h, k)
  BY <1>1, <1>3, Backwards
<1>5. /\ kind' = kind /\ owner[e] = NULL /\ owner' = [owner EXCEPT ![e] = h]
      /\ content' = [content EXCEPT ![h] = Seqs!InsertAt(@, k + 1, e)]
  <2>1. Put(e, h, k + 1)
    BY <1>2 DEF InsertBefore
  <2> HIDE DEF h, k
  <2> QED BY <1>1, <2>1, PutRight
<1>6. NextPut(mem, mem', mem.prev[l], e)
  <2>1. /\ kind = "LIST" => Inserted(mem, mem', mem.next[mem.prev[l]], mem.prev[l], e)
        /\ kind = "TAILQ" => Inserted(mem, mem', Around(mem.next, Own)[mem.prev[l]], mem.prev[l], e)
        /\ kind = "CIRCLEQ" => Inserted(mem, mem', mem.next[mem.prev[l]], mem.prev[l], e)
    BY InsertBeforePuts DEF OrderInv
  <2> QED BY <1>3, <2>1 DEF DoublyLinked, Inserted, NextPut
<1>7. kind \notin Tailed
  BY <1>3, SMT DEF DoublyLinked, Tailed
<1> HIDE DEF h, k
<1>8. NextPut(mem, mem', Cell(row, h, k), e)
  BY <1>4, <1>6
<1> QED BY ONLY <1>1, <1>2, <1>5, <1>7, <1>8, e \in Nodes, PutOrdered

(* An element that is taken out of its list.                               *)
LEMMA TakeRight ==
  ASSUME Ordered, NEW e \in Nodes, NEW memory, Take(e, memory)
  PROVE  /\ kind' = kind /\ owner[e] # NULL /\ owner' = [owner EXCEPT ![e] = NULL]
         /\ content' = [content EXCEPT ![owner[e]] = Seqs!RemoveAt(@, Place(e))]
         /\ mem' = POSTREMOVE(memory, e)
         /\ owner[e] \in Heads /\ Place(e) \in 1..Len(content[owner[e]])
         /\ content[owner[e]][Place(e)] = e
BY PlaceRight DEF Take

(* What the macros need to know of the element before.                     *)
LEMMA BeforeRight ==
  ASSUME Ordered, NEW h \in Heads, NEW k \in 1..Len(content[h])
  PROVE  LET p == Cell(content[h], h, k - 1)
             e == content[h][k] IN
         /\ p \in Objects /\ e \in Nodes /\ mem.next[p] = e
         /\ p # h => mem.next[h] # e /\ WalkTo(mem, h, e) = p
         /\ kind # "CIRCLEQ" => (mem.next[e] = NULL <=> k = Len(content[h]))
<1> DEFINE row == content[h]
           p == Cell(row, h, k - 1)
           e == row[k]
<1>1. /\ row \in Seq(Nodes) /\ Len(row) \in Nat
      /\ Cell(row, h, 0) = h
      /\ \A i \in 1..Len(row) : Cell(row, h, i) = row[i] /\ row[i] \in Nodes
      /\ \A i \in 0..Len(row) : Cell(row, h, i) \in Objects
      /\ \A i \in 0..Len(row) : mem.next[Cell(row, h, i)] = IF i = Len(row) THEN End(h) ELSE row[i + 1]
      /\ \A i, j \in 1..Len(row) : row[i] = row[j] => i = j
  BY Cells
<1>2. k - 1 \in 0..Len(row) /\ k - 1 # Len(row) /\ k - 1 + 1 = k /\ Len(row) # 0 /\ 0 \in 0..Len(row)
  BY <1>1
<1>3. p \in Objects /\ e \in Nodes /\ mem.next[p] = e /\ Cell(row, h, k) = e
  BY <1>1, <1>2
<1>4. ASSUME p # h PROVE mem.next[h] # e /\ WalkTo(mem, h, e) = p
  <2>1. k # 1
    BY <1>1, <1>4
  <2>2. k \in 2..Len(row) /\ k - 1 \in 1..Len(row) /\ 1 \in 1..Len(row)
    BY <1>1, <2>1
  <2>3. mem.next[h] = row[0 + 1]
    BY <1>1, <1>2
  <2>4. mem.next[h] # e
    BY <1>1, <2>1, <2>2, <2>3
  <2>5. Row(mem.next, owner, h, row, End(h))
    BY DEF Ordered
  <2>6. WalkTo(mem, h, e) = row[k - 1]
    <3>1. Walks(mem, h, row)
      BY ONLY h \in Heads, <2>5, WalkRight
    <3> QED BY <2>2, <3>1 DEF Walks
  <2> QED BY <1>1, <2>2, <2>4, <2>6
<1>5. kind # "CIRCLEQ" => (mem.next[e] = NULL <=> k = Len(row))
  <2>1. k \in 0..Len(row)
    BY <1>1
  <2> QED BY <1>3, <2>1, EndOf
<1> QED BY <1>3, <1>4, <1>5

(* Any macro that takes the pointers past the element keeps the order.     *)
LEMMA TakeOrders ==
  ASSUME Ordered, NEW e \in Nodes, NEW memory, Take(e, memory),
         NEW p, p = Cell(content[owner[e]], owner[e], Place(e) - 1),
         NextTaken(mem, mem', p, e),
         kind \in Tailed => LastSet(mem, mem', owner[e], mem.next[e] = NULL, p)
  PROVE  Ordered'
<1> DEFINE h == owner[e]
           k == Place(e)
<1>1. /\ kind' = kind /\ owner' = [owner EXCEPT ![e] = NULL]
      /\ content' = [content EXCEPT ![h] = Seqs!RemoveAt(@, k)]
      /\ h \in Heads /\ k \in 1..Len(content[h]) /\ e = content[h][k]
  BY TakeRight
<1>2. kind \in Tailed => (mem.next[e] = NULL <=> k = Len(content[h]))
  BY <1>1, BeforeRight, SMT DEF Tailed
<1>3. kind \in Tailed => \A g \in Heads :
        mem'.prev[g] = IF g = h /\ k = Len(content[h]) THEN Cell(content[h], h, k - 1) ELSE mem.prev[g]
  BY <1>2 DEF LastSet
<1>4. NextTaken(mem, mem', Cell(content[h], h, k - 1), e)
  OBVIOUS
<1> HIDE DEF h, k
<1> QED BY ONLY Ordered, <1>1, <1>3, <1>4, TakeOrdered

LEMMA RemoveElmOrders ==
  ASSUME OrderInv, NEW e \in Nodes, RemoveElm(e)
  PROVE  Ordered'
<1> DEFINE h == owner[e]
           k == Place(e)
           p == Cell(content[h], h, k - 1)
<1>1. PICK memory : /\ Take(e, memory)
                    /\ kind = "SLIST" => memory = SLIST_REMOVE(mem, h, e)
                    /\ kind \in Tailed => memory = STAILQ_REMOVE(mem, h, e)
  BY SMT DEF RemoveElm, Tailed, SIMPLEQ_REMOVE
<1>2. /\ Ordered /\ mem \in Memory /\ mem' = POSTREMOVE(memory, e)
      /\ h \in Heads /\ k \in 1..Len(content[h]) /\ content[h][k] = e
  BY <1>1, TakeRight DEF OrderInv, Ordered
<1> HIDE DEF h, k
<1>3. p \in Objects /\ mem.next[p] = e /\ (p # h => mem.next[h] # e /\ WalkTo(mem, h, e) = p)
  BY <1>2, BeforeRight
<1>4. kind \in DoublyLinked => NextTaken(mem, mem', p, e)
  <2>1. kind \in DoublyLinked => mem.prev[e] = p
    BY <1>2, Backwards
  <2>2. /\ kind = "LIST" => Removed(mem, mem', mem.next[e], e)
        /\ kind = "TAILQ" => Removed(mem, mem', Around(mem.next, Own)[e], e)
        /\ kind = "CIRCLEQ" => Removed(mem, mem', mem.next[e], e)
    BY RemoveElmTakes DEF OrderInv
  <2> QED BY <2>1, <2>2 DEF DoublyLinked, Removed, NextTaken
<1>5. kind = "SLIST" => NextTaken(mem, mem', p, e)
  <2> HIDE DEF p
  <2> QED BY <1>1, <1>2, <1>3, SingleRemove
<1>6. kind \in Tailed => NextTaken(mem, mem', p, e) /\ LastSet(mem, mem', h, mem.next[e] = NULL, p)
  <2> HIDE DEF p
  <2> QED BY <1>1, <1>2, <1>3, TailedRemove
<1>7. NextTaken(mem, mem', p, e)
  BY <1>2, <1>4, <1>5, <1>6 DEF Ordered, AllKinds, DoublyLinked, Tailed
<1> QED BY <1>1, <1>2, <1>6, <1>7, TakeOrders DEF h, k

LEMMA RemoveHeadOrders ==
  ASSUME OrderInv, NEW h \in Heads, RemoveHead(h)
  PROVE  Ordered' /\ FirstOf(mem, h) \in Nodes
<1> DEFINE e == FirstOf(mem, h)
           row == content[h]
<1>1. Ordered /\ mem \in Memory /\ kind \in Singly /\ row # <<>>
  BY SMT DEF OrderInv, Ordered, RemoveHead, Singly
<1>2. row \in Seq(Nodes) /\ Len(row) \in Nat /\ Cell(row, h, 0) = h
  BY <1>1, Cells
<1>3. 1 \in 1..Len(row)
  <2>1. Len(row) # 0
    BY <1>1, <1>2, EmptySeq
  <2> QED BY <1>2, <2>1
<1>4. mem.next[h] = row[1]
  <2>1. mem.next[Cell(row, h, 1 - 1)] = row[1]
    BY <1>1, <1>3, BeforeRight
  <2> QED BY <1>2, <2>1
<1>5. e = row[1] /\ e \in Nodes /\ owner[e] = h /\ Place(e) = 1 /\ e = mem.next[h]
  <2>1. e = mem.next[h]
    BY <1>1, SMT DEF FirstOf, Singly, SLIST_FIRST, STAILQ_FIRST, SIMPLEQ_FIRST
  <2> QED BY <1>1, <1>3, <1>4, <2>1, PlaceOf
<1>6. PICK memory : /\ Take(e, memory)
                    /\ kind = "SLIST" => memory = SLIST_REMOVE_HEAD(mem, h)
                    /\ kind \in Tailed => memory = STAILQ_REMOVE_HEAD(mem, h)
  BY SMT DEF RemoveHead, Tailed, SIMPLEQ_REMOVE_HEAD
<1> HIDE DEF e
<1>7. mem' = POSTREMOVE(memory, e)
  BY <1>1, <1>5, <1>6, TakeRight
<1>8. kind = "SLIST" => NextTaken(mem, mem', h, e)
  BY <1>1, <1>5, <1>6, <1>7, SingleRemoveAfter, Apart
<1>9. kind \in Tailed => NextTaken(mem, mem', h, e) /\ LastSet(mem, mem', h, mem.next[e] = NULL, h)
  BY <1>1, <1>5, <1>6, <1>7, TailedRemoveHead
<1>10. h = Cell(content[owner[e]], owner[e], Place(e) - 1)
  BY <1>2, <1>5
<1>11. NextTaken(mem, mem', h, e)
  BY <1>1, <1>8, <1>9 DEF Singly, Tailed
<1>12. kind \in Tailed => LastSet(mem, mem', owner[e], mem.next[e] = NULL, h)
  BY <1>5, <1>9
<1>13. Ordered'
  BY ONLY <1>1, <1>5, <1>6, <1>10, <1>11, <1>12, TakeOrders
<1> QED BY <1>5, <1>13 DEF e

LEMMA RemoveAfterOrders ==
  ASSUME OrderInv, NEW l \in Nodes, RemoveAfter(l)
  PROVE  Ordered' /\ Succ(mem, l) \in Nodes
<1> DEFINE e == Succ(mem, l)
           h == owner[l]
           row == content[h]
           i == Place(l)
           k == i + 1
<1>1. /\ Ordered /\ mem \in Memory /\ kind = "SLIST" /\ e # NULL /\ e = mem.next[l]
      /\ Take(e, SLIST_REMOVE_AFTER(mem, l)) /\ h # NULL
  BY DEF OrderInv, Ordered, RemoveAfter, Succ, SLIST_NEXT
<1>2. h \in Heads /\ i \in 1..Len(row) /\ row[i] = l
  BY <1>1, PlaceRight
<1>3. row \in Seq(Nodes) /\ Len(row) \in Nat /\ Cell(row, h, i) = l /\ i \in 0..Len(row) /\ l \in Objects
  BY <1>1, <1>2, Cells, Apart
<1>4. i # Len(row)
  BY <1>1, <1>2, <1>3, EndOf
<1>5. k \in 1..Len(row) /\ k - 1 = i
  BY <1>2, <1>3, <1>4
<1> HIDE DEF k, i, h, e
<1>6. e = row[k]
  BY <1>1, <1>2, <1>3, <1>5, BeforeRight
<1>7. e \in Nodes /\ owner[e] = h /\ Place(e) = k
  BY <1>1, <1>2, <1>5, <1>6, PlaceOf
<1>8. mem' = POSTREMOVE(SLIST_REMOVE_AFTER(mem, l), e)
  BY <1>1, <1>7, TakeRight
<1>9. NextTaken(mem, mem', l, e)
  BY <1>1, <1>3, <1>7, <1>8, SingleRemoveAfter
<1>10. l = Cell(content[owner[e]], owner[e], Place(e) - 1)
  BY <1>3, <1>5, <1>7
<1>11. kind \notin Tailed
  BY <1>1, SMT DEF Tailed
<1>12. Ordered'
  BY ONLY <1>1, <1>7, <1>9, <1>10, <1>11, TakeOrders
<1> QED BY <1>7, <1>12 DEF e
-----------------------------------------------------------------------------
LEMMA ConcatOrders ==
  ASSUME OrderInv, NEW h1 \in Heads, NEW h2 \in Heads, Concat(h1, h2)
  PROVE  Ordered'
<1> DEFINE row1 == content[h1]
           row2 == content[h2]
           p == Cell(row1, h1, Len(row1))
<1>1. /\ Ordered /\ mem \in Memory /\ h1 # h2 /\ kind' = kind /\ kind \in {"STAILQ", "SIMPLEQ", "TAILQ"}
      /\ owner' = [e \in Nodes |-> IF owner[e] = h2 THEN h1 ELSE owner[e]]
      /\ content' = [content EXCEPT ![h1] = @ \o content[h2], ![h2] = <<>>]
      /\ kind \in Tailed => mem' = STAILQ_CONCAT(mem, h1, h2)
      /\ kind = "TAILQ" => mem' = TAILQ_CONCAT(mem, h1, h2)
  BY SMT DEF OrderInv, Ordered, Concat, Tailed, SIMPLEQ_CONCAT
<1>2. /\ Len(row1) \in 0..Len(row1) /\ p \in Objects /\ Own[p] = h1
      /\ Len(row2) \in Nat /\ 0 \in 0..Len(row2) /\ Cell(row2, h2, 0) = h2
  BY <1>1, Cells
<1>3. p # h2 /\ mem.next[p] = NULL /\ (mem.next[h2] = NULL <=> 0 = Len(row2))
  <2>1. Own[h2] = h2
    BY <1>1, OwnRight DEF Ordered
  <2>2. kind # "CIRCLEQ"
    BY <1>1
  <2>3. mem.next[p] = NULL
    BY <1>1, <1>2, <2>2, EndOf
  <2>4. mem.next[h2] = NULL <=> 0 = Len(row2)
    BY <1>1, <1>2, <2>2, EndOf
  <2> QED BY <1>1, <1>2, <2>1, <2>3, <2>4
<1>4. mem.prev[h1] = p
  <2>1. kind \in Tailed => mem.prev[h1] = p
    BY <1>1 DEF Ordered
  <2>2. kind = "TAILQ" => mem.prev[h1] = p
    BY Backwards
  <2> QED BY <1>1, <2>1, <2>2 DEF Tailed
<1>5. CASE Len(row2) = 0
  <2>1. mem' = mem
    BY <1>1, <1>3, <1>5 DEF Tailed, STAILQ_CONCAT, STAILQ_EMPTY, TAILQ_CONCAT, TAILQ_EMPTY
  <2> QED BY <1>1, <1>5, <2>1, EmptyConcat
<1>6. CASE Len(row2) # 0
  <2> HIDE DEF p
  <2>1. kind \in Tailed =>
          /\ mem' \in Memory
          /\ \A x \in Objects : mem'.next[x] = IF x = h2 THEN NULL ELSE IF x = p THEN mem.next[h2] ELSE mem.next[x]
          /\ \A g \in Heads : mem'.prev[g] = IF g = h2 THEN h2 ELSE IF g = h1 THEN mem.prev[h2] ELSE mem.prev[g]
    BY <1>1, <1>2, <1>3, <1>4, <1>6, TailedConcat
  <2>2. kind = "TAILQ" =>
          /\ mem' \in Memory
          /\ \A x \in Objects : mem'.next[x] = IF x = h2 THEN NULL ELSE IF x = p THEN mem.next[h2] ELSE mem.next[x]
    <3> SUFFICES ASSUME kind = "TAILQ"
                 PROVE  /\ mem' \in Memory
                        /\ \A x \in Objects : mem'.next[x] = IF x = h2 THEN NULL
                                                ELSE IF x = p THEN mem.next[h2] ELSE mem.next[x]
      OBVIOUS
    <3> DEFINE s == mem.next[h2]
               q == mem.prev[h2]
    <3>1. h1 \in Objects /\ h2 \in Objects /\ h1 \notin Nodes /\ h2 \notin Nodes
      BY Apart
    <3>2. s \in Nodes /\ s \in Objects
      <4>1. 0 # Len(row2) /\ row2 \in Seq(Nodes)
        BY <1>1, <1>6, Cells
      <4>2. s = row2[0 + 1]
        BY <1>1, <1>2, <4>1, Cells
      <4> QED BY <4>1, <4>2, Apart
    <3>3. q \in Objects /\ q # h2
      <4>1. q = Cell(row2, h2, Len(row2)) /\ Len(row2) \in 0..Len(row2)
        BY <1>2, Backwards
      <4>2. \A i, j \in 0..Len(row2) : Cell(row2, h2, i) = Cell(row2, h2, j) => i = j
        BY <1>1, Cells
      <4>3. q \in Objects
        BY <1>1, <4>1, Cells
      <4> QED BY <1>2, <1>6, <4>1, <4>2, <4>3
    <3>4. /\ TAILQ_CONCAT(mem, h1, h2) \in Memory
          /\ \A x \in Objects : TAILQ_CONCAT(mem, h1, h2).next[x]
               = IF x = h2 THEN NULL ELSE IF x = p THEN s ELSE mem.next[x]
      <4> HIDE DEF s, q
      <4>1. s # h1 /\ s # h2 /\ p # h2 /\ q # h2 /\ mem.next[p] = NULL
        BY <1>3, <3>1, <3>2, <3>3
      <4>2. s = mem.next[h2] /\ q = mem.prev[h2] /\ p = mem.prev[h1]
        BY <1>4 DEF s, q
      <4> QED BY <1>1, <1>2, <3>1, <3>2, <3>3, <4>1, <4>2, TailConcat
    <3> QED BY <1>1, <3>4
  <2>3. /\ mem' \in Memory
        /\ \A x \in Objects : mem'.next[x] = IF x = h2 THEN NULL ELSE IF x = p THEN mem.next[h2] ELSE mem.next[x]
        /\ kind \in Tailed => \A g \in Heads :
             mem'.prev[g] = IF g = h2 THEN h2 ELSE IF g = h1 THEN mem.prev[h2] ELSE mem.prev[g]
    BY <1>1, <2>1, <2>2 DEF Tailed
  <2> QED BY ONLY h1 \in Heads, h2 \in Heads, <1>1, <1>6, <2>3, ConcatOrdered DEF p
<1> QED BY <1>5, <1>6

(* At the start every list is empty.                                       *)
LEMMA InitOrders == QueueInit => Ordered
<1> SUFFICES ASSUME QueueInit PROVE Ordered
  OBVIOUS
<1>1. /\ kind \in AllKinds
      /\ owner \in [Nodes -> Heads \cup {NULL}] /\ \A e \in Nodes : owner[e] = NULL
      /\ content \in [Heads -> Seq(Nodes)] /\ \A h \in Heads : content[h] = <<>>
  BY KindsAssumption, SMT DEF QueueInit
<1>2. mem = [next |-> [x \in Objects |-> IF x \in Heads THEN Initialised(Fresh, x).next[x] ELSE Junk],
             prev |-> [x \in Objects |-> IF x \in Heads THEN Initialised(Fresh, x).prev[x] ELSE Junk]]
  BY DEF QueueInit
<1>3. \A h \in Heads : /\ Initialised(Fresh, h).next[h] = End(h)
                       /\ Initialised(Fresh, h).prev[h] \in Spots
                       /\ kind \in Tailed => Initialised(Fresh, h).prev[h] = h
  <2> TAKE h \in Heads
  <2>0. h \in Objects /\ Fresh \in Memory /\ Junk \in Spots /\ NULL \in Spots /\ h \in Spots
    BY Apart, SMT DEF Fresh, Memory, Spots
  <2>1. CASE kind \in {"LIST", "SLIST"}
    <3>1. Initialised(Fresh, h) = SetNext(Fresh, h, NULL) /\ End(h) = NULL /\ kind \notin Tailed
      BY <2>1 DEF Initialised, LIST_INIT, SLIST_INIT, End, Tailed
    <3> QED BY <2>0, <3>1, SMT DEF SetNext, Fresh
  <2>2. CASE kind \in {"STAILQ", "SIMPLEQ", "TAILQ"}
    <3>0. /\ SetPrev(SetNext(Fresh, h, NULL), h, h).next[h] = NULL
          /\ SetPrev(SetNext(Fresh, h, NULL), h, h).prev[h] = h
      BY <2>0, SMT DEF SetNext, SetPrev, Fresh
    <3>1. Initialised(Fresh, h) = SetPrev(SetNext(Fresh, h, NULL), h, h) /\ End(h) = NULL
      BY <2>2 DEF Initialised, STAILQ_INIT, SIMPLEQ_INIT, TAILQ_INIT, End
    <3> QED BY <2>0, <3>0, <3>1
  <2>3. CASE kind = "CIRCLEQ"
    <3>0. /\ SetPrev(SetNext(Fresh, h, h), h, h).next[h] = h
          /\ SetPrev(SetNext(Fresh, h, h), h, h).prev[h] = h
      BY <2>0, SMT DEF SetNext, SetPrev, Fresh
    <3>1. Initialised(Fresh, h) = SetPrev(SetNext(Fresh, h, h), h, h) /\ End(h) = h /\ kind \notin Tailed
      BY <2>3 DEF Initialised, CIRCLEQ_INIT, End, Tailed
    <3> QED BY <2>0, <3>0, <3>1
  <2> QED BY <1>1, <2>1, <2>2, <2>3 DEF AllKinds
<1>4. \A h \in Heads : h \in Objects /\ End(h) \in Spots /\ h \notin Nodes /\ h # NULL
  BY Apart DEF End
<1>5. \A h \in Heads : mem.next[h] = End(h) /\ (kind \in Tailed => mem.prev[h] = h)
  BY <1>2, <1>3, <1>4
<1>6. mem \in Memory
  <2>1. /\ mem.next = [x \in Objects |-> IF x \in Heads THEN Initialised(Fresh, x).next[x] ELSE Junk]
        /\ mem.prev = [x \in Objects |-> IF x \in Heads THEN Initialised(Fresh, x).prev[x] ELSE Junk]
        /\ mem = [next |-> mem.next, prev |-> mem.prev]
    BY <1>2
  <2>2. mem.next \in [Objects -> Spots]
    BY <1>3, <1>4, <2>1, Apart
  <2>3. mem.prev \in [Objects -> Spots]
    BY <1>3, <2>1, Apart
  <2> QED BY <2>1, <2>2, <2>3 DEF Memory, Spots
<1>7. ASSUME NEW h \in Heads PROVE Row(mem.next, owner, h, content[h], End(h))
  <2>1. content[h] = <<>> /\ Len(<<>>) = 0 /\ <<>> \in Seq(Nodes) /\ \A e \in Nodes : owner[e] # h
    BY <1>1, <1>4
  <2>2. \A i \in 0..Len(<<>>) : i = 0 /\ mem.next[Cell(<<>>, h, i)] = End(h)
    BY <1>5 DEF Cell
  <2>3. Row(mem.next, owner, h, <<>>, End(h))
    BY <2>1, <2>2 DEF Row
  <2> QED BY <2>1, <2>3
<1>8. kind \in Tailed => \A h \in Heads : mem.prev[h] = Cell(content[h], h, Len(content[h]))
  BY <1>1, <1>5 DEF Cell
<1> QED BY <1>1, <1>6, <1>7, <1>8 DEF Ordered

LEMMA OrderNext == OrderInv /\ [QueueNext]_queueVars => OrderInv'
<1> SUFFICES ASSUME OrderInv, [QueueNext]_queueVars PROVE OrderInv'
  OBVIOUS
<1>0. QueueInv'
  BY NextKeeps DEF OrderInv
<1> SUFFICES Ordered'
  BY <1>0 DEF OrderInv
<1>1. ASSUME NEW h \in Heads, NEW e \in Nodes, InsertHead(h, e) \/ InsertTail(h, e) PROVE Ordered'
  BY <1>1, InsertHeadOrders, InsertTailOrders
<1>2. ASSUME NEW l \in Nodes, NEW e \in Nodes, InsertAfter(l, e) \/ InsertBefore(l, e) PROVE Ordered'
  BY <1>2, InsertAfterOrders, InsertBeforeOrders
<1>3. ASSUME NEW e \in Nodes, RemoveElm(e) \/ RemoveAfter(e) PROVE Ordered'
  BY <1>3, RemoveElmOrders, RemoveAfterOrders
<1>4. ASSUME NEW h \in Heads, RemoveHead(h) PROVE Ordered'
  BY <1>4, RemoveHeadOrders
<1>5. ASSUME NEW h1 \in Heads, NEW h2 \in Heads, Concat(h1, h2) PROVE Ordered'
  BY <1>5, ConcatOrders
<1>6. ASSUME UNCHANGED <<kind, mem, owner, content>> PROVE Ordered'
  BY <1>6 DEF OrderInv, Ordered, End
<1>7. ASSUME NEW h \in Heads, NEW reverse \in BOOLEAN, NEW safe \in BOOLEAN, LoopStart(h, reverse, safe)
      PROVE Ordered'
  BY <1>6, <1>7 DEF LoopStart
<1>8. ASSUME LoopNext \/ LoopEnd \/ UNCHANGED queueVars PROVE Ordered'
  BY <1>6, <1>8 DEF LoopNext, LoopEnd, queueVars
<1> QED
  BY <1>1, <1>2, <1>3, <1>4, <1>5, <1>7, <1>8 DEF QueueNext

LEMMA OrderAlways == QueueSpec => []OrderInv
<1>1. QueueInit => OrderInv
  BY InitRight, InitOrders DEF OrderInv
<1> QED
  BY <1>1, OrderNext, PTL DEF QueueSpec
-----------------------------------------------------------------------------
(* The steps of a loop, forwards and backwards.                            *)
LEMMA StepsRight ==
  ASSUME OrderInv, NEW h \in Heads
  PROVE  LET row == content[h] IN
         /\ FirstOf(mem, h) = IF Len(row) = 0 THEN End(h) ELSE row[1]
         /\ \A i \in 1..Len(row) : Succ(mem, row[i]) = IF i = Len(row) THEN End(h) ELSE row[i + 1]
         /\ kind \in {"STAILQ", "SIMPLEQ", "TAILQ", "CIRCLEQ"} =>
              LastOf(mem, h) = IF Len(row) = 0 THEN End(h) ELSE row[Len(row)]
         /\ kind \in {"TAILQ", "CIRCLEQ"} =>
              \A i \in 1..Len(row) : Pred(mem, row[i]) = IF i = 1 THEN End(h) ELSE row[i - 1]
<1> DEFINE row == content[h]
           n == Len(row)
<1>1. /\ Ordered /\ kind \in AllKinds
      /\ row \in Seq(Nodes) /\ n \in Nat
      /\ Cell(row, h, 0) = h
      /\ \A i \in 1..n : Cell(row, h, i) = row[i] /\ row[i] \in Nodes
      /\ \A i \in 0..n : mem.next[Cell(row, h, i)] = IF i = n THEN End(h) ELSE row[i + 1]
  BY Cells DEF OrderInv, Ordered
<1>2. FirstOf(mem, h) = mem.next[h] /\ \A x : Succ(mem, x) = mem.next[x]
  BY <1>1, SMT DEF FirstOf, Succ, AllKinds, LIST_FIRST, SLIST_FIRST, STAILQ_FIRST, SIMPLEQ_FIRST, TAILQ_FIRST,
    CIRCLEQ_FIRST, LIST_NEXT, SLIST_NEXT, STAILQ_NEXT, SIMPLEQ_NEXT, TAILQ_NEXT, CIRCLEQ_NEXT
<1>3. mem.next[h] = IF n = 0 THEN End(h) ELSE row[1]
  <2>1. 0 \in 0..n /\ 0 + 1 = 1
    BY <1>1
  <2>2. mem.next[h] = IF 0 = n THEN End(h) ELSE row[0 + 1]
    BY <1>1, <2>1
  <2> QED BY <2>1, <2>2
<1>4. \A i \in 1..n : mem.next[row[i]] = IF i = n THEN End(h) ELSE row[i + 1]
  <2> TAKE i \in 1..n
  <2>1. i \in 0..n /\ Cell(row, h, i) = row[i]
    BY <1>1
  <2> QED BY <1>1, <2>1
<1>5. /\ kind \in {"TAILQ", "CIRCLEQ"} => \A i \in 1..n : mem.prev[row[i]] = Cell(row, h, i - 1)
      /\ kind \in {"TAILQ", "CIRCLEQ", "STAILQ", "SIMPLEQ"} => mem.prev[h] = Cell(row, h, n)
  <2>1. kind \in Tailed => mem.prev[h] = Cell(row, h, n)
    BY <1>1 DEF Ordered
  <2>2. kind \in {"TAILQ", "CIRCLEQ"} => mem.prev[h] = Cell(row, h, n)
    BY Backwards
  <2>3. kind \in DoublyLinked => \A i \in 1..n : mem.prev[row[i]] = Cell(row, h, i - 1)
    BY Backwards
  <2> QED BY <2>1, <2>2, <2>3 DEF Tailed, DoublyLinked
<1>6. ASSUME kind \in {"STAILQ", "SIMPLEQ"} PROVE LastOf(mem, h) = IF n = 0 THEN End(h) ELSE row[n]
  <2>1. LastOf(mem, h) = IF mem.next[h] = NULL THEN NULL ELSE mem.prev[h]
    BY <1>6, SMT DEF LastOf, STAILQ_LAST, SIMPLEQ_LAST, STAILQ_EMPTY
  <2>2. End(h) = NULL /\ (n # 0 => 1 \in 1..n /\ n \in 1..n)
    BY <1>1, <1>6 DEF End
  <2>3. n # 0 => mem.next[h] # NULL /\ mem.prev[h] = row[n]
    BY <1>1, <1>3, <1>5, <1>6, <2>2, Apart
  <2> HIDE DEF n, row
  <2> QED BY <1>3, <2>1, <2>2, <2>3
<1>7. ASSUME kind = "CIRCLEQ" PROVE LastOf(mem, h) = IF n = 0 THEN End(h) ELSE row[n]
  <2>1. LastOf(mem, h) = Cell(row, h, n) /\ End(h) = h
    BY <1>5, <1>7, SMT DEF LastOf, CIRCLEQ_LAST, End
  <2> QED BY <2>1 DEF Cell
<1>8. ASSUME kind = "CIRCLEQ", NEW i \in 1..n PROVE Pred(mem, row[i]) = IF i = 1 THEN End(h) ELSE row[i - 1]
  <2>1. Pred(mem, row[i]) = Cell(row, h, i - 1) /\ End(h) = h
    BY <1>5, <1>8, SMT DEF Pred, CIRCLEQ_PREV, End
  <2>2. i - 1 = 0 <=> i = 1
    BY <1>1
  <2> QED BY <2>1, <2>2 DEF Cell
<1>9. ASSUME kind = "TAILQ", NEW i \in 0..n
      PROVE  mem.next[mem.prev[Cell(row, h, i)]] = IF i = 0 THEN NULL ELSE row[i]
  <2>1. End(h) = NULL
    BY <1>9 DEF End
  <2>2. CASE i = 0
    <3>1. mem.prev[Cell(row, h, i)] = Cell(row, h, n) /\ n \in 0..n
      BY <1>1, <1>5, <1>9, <2>2
    <3>2. mem.next[Cell(row, h, n)] = NULL
      BY <1>1, <2>1, <3>1
    <3> QED BY <2>2, <3>1, <3>2
  <2>3. CASE i # 0
    <3>1. i \in 1..n /\ i - 1 \in 0..n /\ i - 1 # n /\ i - 1 + 1 = i
      BY <1>1, <2>3
    <3>2. mem.prev[Cell(row, h, i)] = Cell(row, h, i - 1)
      BY <1>1, <1>5, <1>9, <3>1
    <3>3. mem.next[Cell(row, h, i - 1)] = row[i]
      BY <1>1, <3>1
    <3> QED BY <2>3, <3>2, <3>3
  <2> QED BY <2>2, <2>3
<1>10. ASSUME kind = "TAILQ" PROVE LastOf(mem, h) = IF n = 0 THEN End(h) ELSE row[n]
  <2>1. LastOf(mem, h) = mem.next[mem.prev[mem.prev[h]]] /\ mem.prev[h] = Cell(row, h, n) /\ End(h) = NULL
    BY <1>5, <1>10, SMT DEF LastOf, TAILQ_LAST, End
  <2>2. n \in 0..n
    BY <1>1
  <2> QED BY <1>9, <1>10, <2>1, <2>2
<1>11. ASSUME kind = "TAILQ", NEW i \in 1..n PROVE Pred(mem, row[i]) = IF i = 1 THEN End(h) ELSE row[i - 1]
  <2>1. Pred(mem, row[i]) = mem.next[mem.prev[mem.prev[row[i]]]] /\ mem.prev[row[i]] = Cell(row, h, i - 1)
        /\ End(h) = NULL
    BY <1>5, <1>11, SMT DEF Pred, TAILQ_PREV, End
  <2>2. i - 1 \in 0..n /\ (i - 1 = 0 <=> i = 1)
    BY <1>1
  <2>3. mem.next[mem.prev[Cell(row, h, i - 1)]] = IF i - 1 = 0 THEN NULL ELSE row[i - 1]
    BY <1>9, <1>11, <2>2
  <2> QED BY <2>1, <2>2, <2>3
<1> QED BY <1>2, <1>3, <1>4, <1>6, <1>7, <1>8, <1>10, <1>11

LEMMA InvChained == OrderInv => Chained
<1> SUFFICES ASSUME OrderInv, NEW h \in Heads
             PROVE  LET c == content[h] \o <<End(h)>>
                        r == Seqs!Reverse(content[h]) \o <<End(h)>> IN
                    /\ FirstOf(mem, h) = c[1]
                    /\ \A i \in 1..Len(content[h]) : Succ(mem, c[i]) = c[i + 1]
                    /\ kind \in {"STAILQ", "SIMPLEQ", "TAILQ", "CIRCLEQ"} => LastOf(mem, h) = r[1]
                    /\ kind \in {"TAILQ", "CIRCLEQ"} => \A i \in 1..Len(content[h]) : Pred(mem, r[i]) = r[i + 1]
                    /\ kind = "CIRCLEQ" => \A i \in 1..Len(content[h]) :
                         /\ CIRCLEQ_LOOP_NEXT(mem, h, c[i]) = c[(i % Len(content[h])) + 1]
                         /\ CIRCLEQ_LOOP_PREV(mem, h, r[i]) = r[(i % Len(content[h])) + 1]
  BY DEF Chained
<1> DEFINE row == content[h]
           n == Len(row)
           back == Seqs!Reverse(row)
           c == row \o <<End(h)>>
           r == back \o <<End(h)>>
<1>1. /\ FirstOf(mem, h) = IF n = 0 THEN End(h) ELSE row[1]
      /\ \A i \in 1..n : Succ(mem, row[i]) = IF i = n THEN End(h) ELSE row[i + 1]
      /\ kind \in {"STAILQ", "SIMPLEQ", "TAILQ", "CIRCLEQ"} =>
           LastOf(mem, h) = IF n = 0 THEN End(h) ELSE row[n]
      /\ kind \in {"TAILQ", "CIRCLEQ"} =>
           \A i \in 1..n : Pred(mem, row[i]) = IF i = 1 THEN End(h) ELSE row[i - 1]
  BY StepsRight
<1>2. row \in Seq(Nodes) /\ n \in Nat /\ \A i \in 1..n : row[i] \in Nodes /\ row[i] # h
  BY Cells DEF OrderInv
<1>3. /\ Len(back) = n /\ back \in Seq(Nodes)
      /\ \A i \in 1..n : back[i] = row[n - i + 1]
  BY <1>2, ReverseRight
<1>4. /\ \A i \in 1..n : c[i] = row[i]
      /\ c[n + 1] = End(h)
  BY <1>2
<1>5. /\ \A i \in 1..n : r[i] = row[n - i + 1]
      /\ r[n + 1] = End(h)
  <2> HIDE DEF back
  <2> QED BY <1>2, <1>3
<1> HIDE DEF c, r, back, row, n
<1>6. FirstOf(mem, h) = c[1]
  BY <1>1, <1>2, <1>4
<1>7. \A i \in 1..n : Succ(mem, c[i]) = c[i + 1]
  <2> TAKE i \in 1..n
  <2>1. c[i + 1] = IF i = n THEN End(h) ELSE row[i + 1]
    BY <1>2, <1>4
  <2> QED BY <1>1, <1>4, <2>1
<1>8. kind \in {"STAILQ", "SIMPLEQ", "TAILQ", "CIRCLEQ"} => LastOf(mem, h) = r[1]
  <2>1. r[1] = IF n = 0 THEN End(h) ELSE row[n]
    <3>1. CASE n = 0
      BY <1>5, <3>1
    <3>2. CASE n # 0
      <4>1. 1 \in 1..n /\ n - 1 + 1 = n
        BY <1>2, <3>2
      <4> QED BY <1>5, <3>2, <4>1
    <3> QED BY <3>1, <3>2
  <2> QED BY <1>1, <2>1
<1>9. \A i \in 1..n : r[i + 1] = IF i = n THEN End(h) ELSE row[n - i]
  <2> TAKE i \in 1..n
  <2>1. i # n => i + 1 \in 1..n /\ n - (i + 1) + 1 = n - i
    BY <1>2
  <2> QED BY <1>5, <2>1
<1>10. kind \in {"TAILQ", "CIRCLEQ"} => \A i \in 1..n : Pred(mem, r[i]) = r[i + 1]
  <2> SUFFICES ASSUME kind \in {"TAILQ", "CIRCLEQ"}, NEW i \in 1..n PROVE Pred(mem, r[i]) = r[i + 1]
    OBVIOUS
  <2> DEFINE j == n - i + 1
  <2>1. j \in 1..n /\ j - 1 = n - i /\ (j = 1 <=> i = n)
    BY <1>2
  <2> HIDE DEF j
  <2>2. Pred(mem, row[j]) = IF j = 1 THEN End(h) ELSE row[j - 1]
    BY <1>1, <2>1
  <2>3. r[i] = row[j]
    BY <1>5 DEF j
  <2> QED BY <1>9, <2>1, <2>2, <2>3
<1>11. ASSUME kind = "CIRCLEQ", NEW i \in 1..n
       PROVE  /\ CIRCLEQ_LOOP_NEXT(mem, h, c[i]) = c[(i % n) + 1]
              /\ CIRCLEQ_LOOP_PREV(mem, h, r[i]) = r[(i % n) + 1]
  <2>0. End(h) = h /\ n \in Nat /\ n # 0 /\ 1 \in 1..n
    BY <1>2, <1>11 DEF End
  <2>1. i % n = IF i = n THEN 0 ELSE i
    BY <2>0
  <2>2. (i % n) + 1 = IF i = n THEN 1 ELSE i + 1
    BY <2>0, <2>1
  <2>3. mem.next[c[i]] = c[i + 1] /\ mem.prev[r[i]] = r[i + 1] /\ mem.next[h] = c[1] /\ mem.prev[h] = r[1]
    <3>1. /\ FirstOf(mem, h) = mem.next[h] /\ LastOf(mem, h) = mem.prev[h]
          /\ \A x : Succ(mem, x) = mem.next[x] /\ Pred(mem, x) = mem.prev[x]
      BY <1>11, SMT DEF FirstOf, LastOf, Succ, Pred, CIRCLEQ_FIRST, CIRCLEQ_LAST, CIRCLEQ_NEXT, CIRCLEQ_PREV
    <3>2. Succ(mem, c[i]) = c[i + 1] /\ Pred(mem, r[i]) = r[i + 1]
      BY <1>7, <1>10, <1>11
    <3> QED BY <1>6, <1>8, <1>11, <3>1, <3>2
  <2>4. /\ c[i + 1] = h <=> i = n
        /\ r[i + 1] = h <=> i = n
    <3>1. i # n => i + 1 \in 1..n /\ n - i \in 1..n
      BY <2>0
    <3>2. i # n => c[i + 1] = row[i + 1] /\ r[i + 1] = row[n - i]
      BY <1>4, <1>9, <3>1
    <3>3. i # n => c[i + 1] # h /\ r[i + 1] # h
      BY <1>2, <3>1, <3>2
    <3>4. i = n => c[i + 1] = h /\ r[i + 1] = h
      BY <1>4, <1>5, <2>0
    <3> QED BY <3>3, <3>4
  <2>5. CIRCLEQ_LOOP_NEXT(mem, h, c[i]) = IF i = n THEN c[1] ELSE c[i + 1]
    BY <2>3, <2>4 DEF CIRCLEQ_LOOP_NEXT
  <2>6. CIRCLEQ_LOOP_PREV(mem, h, r[i]) = IF i = n THEN r[1] ELSE r[i + 1]
    BY <2>3, <2>4 DEF CIRCLEQ_LOOP_PREV
  <2> QED BY <2>2, <2>5, <2>6
<1> QED BY <1>6, <1>7, <1>8, <1>10, <1>11 DEF c, r, back, n, row

(* Chained: whatever calls a program makes, of however many lists and      *)
(* elements, each list followed from its head, and from its end where that *)
(* can be done, is what the program has put there and nothing else.        *)
THEOREM ChainedCorrect == QueueSpec => []Chained
<1> QED
  BY OrderAlways, InvChained, PTL
-----------------------------------------------------------------------------
(* The order of the elements of a list, as a loop meets them.              *)
In(row, x) == \E i \in 1..Len(row) : row[i] = x
Before(row, x, y) == \E i, j \in 1..Len(row) : i < j /\ row[i] = x /\ row[j] = y
Ahead(row, reverse, x, y) == IF reverse THEN Before(row, y, x) ELSE Before(row, x, y)

(* A list holds nothing twice.                                             *)
Listed(row) == row \in Seq(Nodes) /\ \A i, j \in 1..Len(row) : row[i] = row[j] => i = j

LEMMA AheadOrders ==
  ASSUME NEW row, Listed(row), NEW reverse \in BOOLEAN
  PROVE  /\ \A x, y : Ahead(row, reverse, x, y) => x # y /\ ~Ahead(row, reverse, y, x) /\ In(row, x) /\ In(row, y)
         /\ \A x, y, z : Ahead(row, reverse, x, y) /\ Ahead(row, reverse, y, z) => Ahead(row, reverse, x, z)
         /\ \A x, y : In(row, x) /\ In(row, y) => x = y \/ Ahead(row, reverse, x, y) \/ Ahead(row, reverse, y, x)
<1>1. Len(row) \in Nat /\ \A i, j \in 1..Len(row) : row[i] = row[j] => i = j
  BY DEF Listed
<1>2. \A x, y : Before(row, x, y) => x # y /\ ~Before(row, y, x) /\ In(row, x) /\ In(row, y)
  BY <1>1 DEF Before, In
<1>3. ASSUME NEW x, NEW y, NEW z, Before(row, x, y), Before(row, y, z) PROVE Before(row, x, z)
  BY <1>1, <1>3 DEF Before
<1>4. ASSUME NEW x, NEW y, In(row, x), In(row, y), x # y PROVE Before(row, x, y) \/ Before(row, y, x)
  <2>1. PICK i \in 1..Len(row) : row[i] = x
    BY <1>4 DEF In
  <2>2. PICK j \in 1..Len(row) : row[j] = y
    BY <1>4 DEF In
  <2>3. i < j \/ j < i
    BY <1>1, <1>4, <2>1, <2>2
  <2> QED BY <2>1, <2>2, <2>3 DEF Before
<1>5. CASE reverse
  BY <1>2, <1>3, <1>4, <1>5 DEF Ahead
<1>6. CASE ~reverse
  BY <1>2, <1>3, <1>4, <1>6 DEF Ahead
<1> QED BY <1>5, <1>6

(* y comes next after x, or x is the last one.                             *)
NextIs(row, reverse, x, y, end) ==
  \/ y = end /\ \A z : In(row, z) => z = x \/ Ahead(row, reverse, z, x)
  \/ y # end /\ Ahead(row, reverse, x, y) /\ \A z : Ahead(row, reverse, x, z) => z = y \/ Ahead(row, reverse, y, z)

LEMMA ListedRow ==
  ASSUME Ordered, NEW h \in Heads
  PROVE  /\ Listed(content[h]) /\ ~In(content[h], End(h)) /\ End(h) \notin Nodes
         /\ \A x : In(content[h], x) <=> x \in Nodes /\ owner[x] = h
<1> DEFINE row == content[h]
<1>1. Listed(row)
  BY Cells DEF Listed
<1>2. \A x : In(row, x) => x \in Nodes /\ owner[x] = h
  BY Cells DEF In
<1>3. \A x \in Nodes : owner[x] = h => In(row, x)
  BY DEF Ordered, Row, In
<1>4. End(h) \notin Nodes
  BY Apart DEF End
<1> QED BY <1>1, <1>2, <1>3, <1>4

(* What the macros of the loops step to.                                   *)
LEMMA StepRight ==
  ASSUME OrderInv, NEW h \in Heads, NEW reverse \in BOOLEAN,
         reverse => kind \in {"TAILQ", "CIRCLEQ"},
         NEW x, In(content[h], x)
  PROVE  NextIs(content[h], reverse, x, StepFrom(reverse, x), End(h))
<1> DEFINE row == content[h]
           n == Len(row)
<1>1. n \in Nat /\ Listed(row) /\ ~In(row, End(h))
  BY ListedRow DEF OrderInv, Listed
<1>2. PICK i \in 1..n : row[i] = x
  BY DEF In
<1>3. /\ Succ(mem, x) = IF i = n THEN End(h) ELSE row[i + 1]
      /\ reverse => Pred(mem, x) = IF i = 1 THEN End(h) ELSE row[i - 1]
  BY <1>2, StepsRight
<1>4. \A j, k \in 1..n : row[j] = row[k] => j = k
  BY <1>1 DEF Listed
<1> DEFINE y == StepFrom(reverse, x)
<1>5. CASE reverse
  <2>1. y = IF i = 1 THEN End(h) ELSE row[i - 1]
    BY <1>3, <1>5 DEF StepFrom
  <2>2. CASE i = 1
    <3>1. \A z : In(row, z) => z = x \/ Before(row, x, z)
      BY <1>1, <1>2, <2>2 DEF In, Before
    <3> QED BY <1>5, <2>1, <2>2, <3>1 DEF NextIs, Ahead
  <2>3. CASE i # 1
    <3> DEFINE j == i - 1
    <3>1. j \in 1..n /\ j < i /\ \A k \in 1..n : k < i => k = j \/ k < j
      BY <1>1, <2>3
    <3> HIDE DEF j
    <3>2. y = row[j] /\ In(row, y)
      BY <2>1, <2>3, <3>1 DEF j, In
    <3> HIDE DEF y
    <3>3. Before(row, y, x)
      BY <1>2, <3>1, <3>2 DEF Before
    <3>4. \A z : Before(row, z, x) => z = y \/ Before(row, z, y)
      <4> TAKE z
      <4> SUFFICES ASSUME Before(row, z, x) PROVE z = y \/ Before(row, z, y)
        OBVIOUS
      <4>1. PICK k, l \in 1..n : k < l /\ row[k] = z /\ row[l] = x
        BY DEF Before
      <4>2. k < i
        BY <1>2, <1>4, <4>1
      <4> QED BY <3>1, <3>2, <4>1, <4>2 DEF Before
    <3> QED BY <1>1, <1>5, <3>2, <3>3, <3>4 DEF NextIs, Ahead, y
  <2> QED BY <2>2, <2>3
<1>6. CASE ~reverse
  <2>1. y = IF i = n THEN End(h) ELSE row[i + 1]
    BY <1>3, <1>6 DEF StepFrom
  <2>2. CASE i = n
    <3>1. \A z : In(row, z) => z = x \/ Before(row, z, x)
      BY <1>1, <1>2, <2>2 DEF In, Before
    <3> QED BY <1>6, <2>1, <2>2, <3>1 DEF NextIs, Ahead
  <2>3. CASE i # n
    <3> DEFINE j == i + 1
    <3>1. j \in 1..n /\ i < j /\ \A k \in 1..n : i < k => k = j \/ j < k
      BY <1>1, <2>3
    <3> HIDE DEF j
    <3>2. y = row[j] /\ In(row, y)
      BY <2>1, <2>3, <3>1 DEF j, In
    <3> HIDE DEF y
    <3>3. Before(row, x, y)
      BY <1>2, <3>1, <3>2 DEF Before
    <3>4. \A z : Before(row, x, z) => z = y \/ Before(row, y, z)
      <4> TAKE z
      <4> SUFFICES ASSUME Before(row, x, z) PROVE z = y \/ Before(row, y, z)
        OBVIOUS
      <4>1. PICK k, l \in 1..n : k < l /\ row[k] = x /\ row[l] = z
        BY DEF Before
      <4>2. i < l
        BY <1>2, <1>4, <4>1
      <4> QED BY <3>1, <3>2, <4>1, <4>2 DEF Before
    <3> QED BY <1>1, <1>6, <3>2, <3>3, <3>4 DEF NextIs, Ahead, y
  <2> QED BY <2>2, <2>3
<1> QED BY <1>5, <1>6

(* What they start from.                                                   *)
LEMMA StartRight ==
  ASSUME OrderInv, NEW h \in Heads, NEW reverse \in BOOLEAN,
         reverse => kind \in {"TAILQ", "CIRCLEQ"}, content[h] # <<>>,
         NEW x, x = IF reverse THEN LastOf(mem, h) ELSE FirstOf(mem, h)
  PROVE  In(content[h], x) /\ \A z : In(content[h], z) => z = x \/ Ahead(content[h], reverse, x, z)
<1> DEFINE row == content[h]
           n == Len(row)
<1>1. row \in Seq(Nodes) /\ n \in Nat
  BY Cells DEF OrderInv
<1>2. n # 0
  BY <1>1, EmptySeq
<1>3. 1 \in 1..n /\ n \in 1..n
  BY <1>1, <1>2
<1>4. x = IF reverse THEN row[n] ELSE row[1]
  BY <1>2, StepsRight
<1>5. \A i \in 1..n : (i = 1 \/ 1 < i) /\ (i = n \/ i < n)
  BY <1>1
<1> QED BY <1>3, <1>4, <1>5 DEF In, Before, Ahead

(* A loop divides its list: behind it is what it has come to, before it    *)
(* what it has still to come to of what was there at its start. With _SAFE *)
(* it stands at the element it will come to next.                          *)
Split(row, l, end) ==
  /\ \A x \in l.seen \cup l.due : In(row, x)
  /\ ~l.safe =>
       /\ In(row, l.var)
       /\ \A s \in l.seen : s = l.var \/ Ahead(row, l.reverse, s, l.var)
       /\ \A d \in l.due \ l.seen : Ahead(row, l.reverse, l.var, d)
  /\ l.safe /\ l.next = end => l.due \subseteq l.seen
  /\ l.safe /\ l.next # end =>
       /\ In(row, l.next)
       /\ \A s \in l.seen : Ahead(row, l.reverse, s, l.next)
       /\ \A d \in l.due \ l.seen : d = l.next \/ Ahead(row, l.reverse, l.next, d)

Looping ==
  /\ loop.head \in Heads
  /\ loop.reverse => kind \in {"TAILQ", "CIRCLEQ"}
  /\ Split(content[loop.head], loop, End(loop.head))

(* The inductive invariant of the loops.                                   *)
LoopStates == [head : Heads \cup {NULL}, reverse : BOOLEAN, safe : BOOLEAN, var : Spots, next : Spots,
               due : SUBSET Nodes, seen : SUBSET Nodes]
LoopInv ==
  /\ OrderInv
  /\ loop \in LoopStates
  /\ loop # NoLoop => Looping

(* Elements that stay in a list keep their order in it.                    *)
Kept(row, row2, keep) ==
  /\ \A x \in keep : In(row, x) => In(row2, x)
  /\ \A x, y \in keep : Before(row, x, y) => Before(row2, x, y)

LEMMA SplitKept ==
  ASSUME NEW row, NEW row2, NEW keep, Kept(row, row2, keep), NEW end, NEW l, Split(row, l, end),
         l.seen \subseteq keep, l.due \subseteq keep,
         IF l.safe THEN l.next = end \/ l.next \in keep ELSE l.var \in keep
  PROVE  Split(row2, l, end)
<1>1. \A x, y \in keep : Ahead(row, l.reverse, x, y) => Ahead(row2, l.reverse, x, y)
  BY DEF Kept, Ahead
<1>2. \A x \in keep : In(row, x) => In(row2, x)
  BY DEF Kept
<1> QED BY <1>1, <1>2 DEF Split

LEMMA InsertKept ==
  ASSUME NEW row \in Seq(Nodes), NEW i \in 1..Len(row) + 1, NEW e \in Nodes
  PROVE  Kept(row, Seqs!InsertAt(row, i, e), {x \in Nodes : In(row, x)})
<1> DEFINE row2 == Seqs!InsertAt(row, i, e)
           To(j) == IF j < i THEN j ELSE j + 1
<1>1. /\ row2 \in Seq(Nodes) /\ Len(row2) = Len(row) + 1 /\ Len(row) \in Nat
      /\ \A j \in 1..Len(row) + 1 : row2[j] = IF j < i THEN row[j] ELSE IF j = i THEN e ELSE row[j - 1]
  <2>1. Len(row) \in Nat
    OBVIOUS
  <2>2. i \in 1..Len(row) + 1
    OBVIOUS
  <2> QED BY ONLY row \in Seq(Nodes), e \in Nodes, <2>1, <2>2, InsertAtRight
<1> HIDE DEF row2
<1>2. \A j \in 1..Len(row) : To(j) \in 1..Len(row2) /\ row2[To(j)] = row[j]
  <2> TAKE j \in 1..Len(row)
  <2>1. CASE j < i
    BY <1>1, <2>1
  <2>2. CASE ~(j < i)
    <3> DEFINE k == j + 1
    <3>1. k \in 1..Len(row) + 1 /\ ~(k < i) /\ k # i /\ k - 1 = j
      BY <1>1, <2>2
    <3> HIDE DEF k
    <3>2. row2[k] = row[j]
      BY <1>1, <3>1
    <3> QED BY <1>1, <2>2, <3>1, <3>2 DEF k
  <2> QED BY <2>1, <2>2
<1>3. \A j, k \in 1..Len(row) : j < k => To(j) < To(k)
  BY <1>1
<1> HIDE DEF To
<1> QED BY <1>2, <1>3 DEF Kept, In, Before, row2

LEMMA RemoveKept ==
  ASSUME NEW row \in Seq(Nodes), NEW i \in 1..Len(row)
  PROVE  Kept(row, Seqs!RemoveAt(row, i), {x \in Nodes : x # row[i]})
<1> DEFINE row2 == Seqs!RemoveAt(row, i)
           To(j) == IF j < i THEN j ELSE j - 1
<1>1. /\ row2 \in Seq(Nodes) /\ Len(row2) = Len(row) - 1 /\ Len(row) \in Nat
      /\ \A j \in 1..Len(row) - 1 : row2[j] = IF j < i THEN row[j] ELSE row[j + 1]
  <2>1. Len(row) \in Nat
    OBVIOUS
  <2> QED BY <2>1, RemoveAtRight, Zenon
<1> HIDE DEF row2
<1>2. \A j \in 1..Len(row) : j # i => To(j) \in 1..Len(row2) /\ row2[To(j)] = row[j]
  <2> SUFFICES ASSUME NEW j \in 1..Len(row), j # i PROVE To(j) \in 1..Len(row2) /\ row2[To(j)] = row[j]
    OBVIOUS
  <2>1. CASE j < i
    BY <1>1, <2>1
  <2>2. CASE ~(j < i)
    <3> DEFINE k == j - 1
    <3>1. k \in 1..Len(row) - 1 /\ ~(k < i) /\ k + 1 = j
      BY <1>1, <2>2
    <3> HIDE DEF k
    <3>2. row2[k] = row[j]
      BY <1>1, <3>1
    <3> QED BY <1>1, <2>2, <3>1, <3>2 DEF k
  <2> QED BY <2>1, <2>2
<1>3. \A j, k \in 1..Len(row) : j # i /\ k # i /\ j < k => To(j) < To(k)
  BY <1>1
<1> HIDE DEF To
<1> QED BY <1>2, <1>3 DEF Kept, In, Before, row2

LEMMA ConcatKept ==
  ASSUME NEW row \in Seq(Nodes), NEW row2 \in Seq(Nodes), NEW keep
  PROVE  Kept(row, row \o row2, keep)
<1>1. Len(row) \in Nat /\ Len(row2) \in Nat /\ Len(row \o row2) = Len(row) + Len(row2)
      /\ \A k \in 1..Len(row) : (row \o row2)[k] = row[k]
  BY ConcatRight
<1>2. \A k \in 1..Len(row) : k \in 1..Len(row \o row2)
  BY <1>1
<1> QED BY <1>1, <1>2 DEF Kept, In, Before

(* The loop is right after a call that changes its list.                   *)
LEMMA LoopingKept ==
  ASSUME LoopInv, loop # NoLoop, kind' = kind, loop' = loop,
         NEW row2, content'[loop.head] = row2,
         Kept(content[loop.head], row2, {x \in Nodes : In(content[loop.head], x)})
  PROVE  Looping'
<1> DEFINE h == loop.head
           row == content[h]
           keep == {x \in Nodes : In(row, x)}
<1>1. /\ Ordered /\ h \in Heads /\ (loop.reverse => kind \in {"TAILQ", "CIRCLEQ"})
      /\ Split(row, loop, End(h)) /\ loop.seen \subseteq Nodes /\ loop.due \subseteq Nodes
  BY DEF LoopInv, OrderInv, Looping, LoopStates
<1>2. \A x : In(row, x) => x \in keep
  BY <1>1, ListedRow
<1>3. End(h)' = End(h)
  BY DEF End
<1>4. loop.seen \subseteq keep /\ loop.due \subseteq keep
      /\ IF loop.safe THEN loop.next = End(h) \/ loop.next \in keep ELSE loop.var \in keep
  BY <1>1, <1>2 DEF Split
<1> HIDE DEF keep
<1>5. Split(row2, loop, End(h))
  <2>1. Kept(row, row2, keep)
    BY DEF keep
  <2> QED BY ONLY <1>1, <1>4, <2>1, SplitKept
<1> QED BY <1>1, <1>3, <1>5 DEF Looping

LEMMA PutLoops ==
  ASSUME LoopInv, OrderInv', NEW h \in Heads, NEW e \in Nodes, NEW i, i \in 1..Len(content[h]) + 1, Put(e, h, i)
  PROVE  LoopInv'
<1>1. loop' = loop /\ kind' = kind /\ content' = [content EXCEPT ![h] = Seqs!InsertAt(@, i, e)]
      /\ content \in [Heads -> Seq(Nodes)]
  BY DEF Put, LoopInv, OrderInv, Ordered
<1>2. ASSUME loop # NoLoop PROVE Looping'
  <2>1. loop.head \in Heads
    BY <1>2 DEF LoopInv, Looping
  <2>2. CASE loop.head = h
    <3>1. content[h] \in Seq(Nodes) /\ content'[h] = Seqs!InsertAt(content[h], i, e)
      BY <1>1
    <3>2. Kept(content[h], Seqs!InsertAt(content[h], i, e), {x \in Nodes : In(content[h], x)})
      BY <3>1, InsertKept
    <3> QED BY <1>1, <1>2, <2>2, <3>1, <3>2, LoopingKept
  <2>3. CASE loop.head # h
    <3>1. content'[loop.head] = content[loop.head]
      BY <1>1, <2>1, <2>3
    <3>2. Kept(content[loop.head], content[loop.head], {x \in Nodes : In(content[loop.head], x)})
      BY DEF Kept
    <3> QED BY <1>1, <1>2, <3>1, <3>2, LoopingKept
  <2> QED BY <2>2, <2>3
<1> QED BY <1>1, <1>2 DEF LoopInv

LEMMA ConcatLoops ==
  ASSUME LoopInv, OrderInv', NEW h1 \in Heads, NEW h2 \in Heads, Concat(h1, h2)
  PROVE  LoopInv'
<1>1. /\ loop' = loop /\ kind' = kind /\ h1 # h2 /\ loop.head # h2
      /\ content' = [content EXCEPT ![h1] = @ \o content[h2], ![h2] = <<>>]
      /\ content \in [Heads -> Seq(Nodes)]
  BY DEF Concat, LoopInv, OrderInv, Ordered
<1>2. ASSUME loop # NoLoop PROVE Looping'
  <2>1. loop.head \in Heads
    BY <1>2 DEF LoopInv, Looping
  <2>2. CASE loop.head = h1
    <3>1. content[h1] \in Seq(Nodes) /\ content[h2] \in Seq(Nodes) /\ content'[h1] = content[h1] \o content[h2]
      BY <1>1
    <3>2. Kept(content[h1], content[h1] \o content[h2], {x \in Nodes : In(content[h1], x)})
      BY <3>1, ConcatKept
    <3> QED BY <1>1, <1>2, <2>2, <3>1, <3>2, LoopingKept
  <2>3. CASE loop.head # h1
    <3>1. content'[loop.head] = content[loop.head]
      BY <1>1, <2>1, <2>3
    <3>2. Kept(content[loop.head], content[loop.head], {x \in Nodes : In(content[loop.head], x)})
      BY DEF Kept
    <3> QED BY <1>1, <1>2, <3>1, <3>2, LoopingKept
  <2> QED BY <2>2, <2>3
<1> QED BY <1>1, <1>2 DEF LoopInv

(* An element that is taken out is nothing to the loop any more.           *)
LEMMA SplitDrop ==
  ASSUME NEW row, NEW end, NEW l \in LoopStates, Split(row, l, end), NEW e
  PROVE  Split(row, [l EXCEPT !.due = @ \ {e}, !.seen = @ \ {e}], end)
<1> DEFINE l2 == [l EXCEPT !.due = @ \ {e}, !.seen = @ \ {e}]
<1>1. /\ l2.due = l.due \ {e} /\ l2.seen = l.seen \ {e}
      /\ l2.safe = l.safe /\ l2.reverse = l.reverse /\ l2.var = l.var /\ l2.next = l.next
  BY DEF LoopStates
<1> HIDE DEF l2
<1>2. Split(row, l2, end)
  BY <1>1 DEF Split
<1> QED BY <1>2 DEF l2

LEMMA TakeLoops ==
  ASSUME LoopInv, OrderInv', NEW e \in Nodes, NEW memory, Take(e, memory)
  PROVE  LoopInv'
<1> DEFINE g == owner[e]
<1>1. /\ Ordered /\ kind' = kind /\ g \in Heads /\ Place(e) \in 1..Len(content[g]) /\ content[g][Place(e)] = e
      /\ content' = [content EXCEPT ![g] = Seqs!RemoveAt(@, Place(e))]
      /\ content \in [Heads -> Seq(Nodes)]
  BY TakeRight DEF LoopInv, OrderInv, Ordered
<1> HIDE DEF g
<1>2. /\ loop' = [loop EXCEPT !.due = @ \ {e}, !.seen = @ \ {e}]
      /\ IF loop.safe THEN e # loop.next ELSE e # loop.var
      /\ loop \in LoopStates
  BY DEF Take, LoopInv
<1>3. /\ loop' \in LoopStates /\ loop'.head = loop.head /\ loop'.reverse = loop.reverse
      /\ loop'.safe = loop.safe /\ loop'.next = loop.next /\ loop'.var = loop.var
      /\ loop'.seen = loop.seen \ {e} /\ loop'.due = loop.due \ {e}
  BY <1>2 DEF LoopStates
<1>4. loop = NoLoop => loop' = NoLoop
  <2> SUFFICES ASSUME loop = NoLoop PROVE loop' = loop
    OBVIOUS
  <2>1. loop.due = {} /\ loop.seen = {}
    BY DEF NoLoop
  <2> QED BY <1>2, <2>1 DEF LoopStates
<1>5. ASSUME loop # NoLoop PROVE Looping'
  <2> DEFINE h == loop.head
             row == content[h]
             keep == {x \in Nodes : x # e}
  <2>1. h \in Heads /\ Split(row, loop, End(h)) /\ (loop.reverse => kind \in {"TAILQ", "CIRCLEQ"})
    BY <1>5 DEF LoopInv, Looping
  <2>2. Split(row, loop', End(h))
    BY <1>2, <2>1, SplitDrop
  <2>3. Kept(row, content'[h], keep)
    <3>1. CASE h = g
      <4>1. row \in Seq(Nodes) /\ content'[h] = Seqs!RemoveAt(row, Place(e))
        BY <1>1, <3>1
      <4>2. Kept(row, Seqs!RemoveAt(row, Place(e)), {x \in Nodes : x # row[Place(e)]})
        BY <1>1, <3>1, <4>1, RemoveKept
      <4> QED BY <1>1, <3>1, <4>1, <4>2
    <3>2. CASE h # g
      <4>1. content'[h] = row
        BY <1>1, <2>1, <3>2
      <4> QED BY <4>1 DEF Kept
    <3> QED BY <3>1, <3>2
  <2>4. \A x : In(row, x) => x \in Nodes
    BY <1>1, <2>1, ListedRow
  <2>5. /\ loop'.seen \subseteq keep /\ loop'.due \subseteq keep
        /\ IF loop'.safe THEN loop'.next = End(h) \/ loop'.next \in keep ELSE loop'.var \in keep
    <3>1. loop.seen \subseteq Nodes /\ loop.due \subseteq Nodes
      BY <1>2 DEF LoopStates
    <3>2. IF loop.safe THEN loop.next = End(h) \/ In(row, loop.next) ELSE In(row, loop.var)
      BY <2>1 DEF Split
    <3> QED BY <1>2, <1>3, <2>4, <3>1, <3>2
  <2> HIDE DEF keep
  <2>6. Split(content'[h], loop', End(h))
    BY ONLY <2>2, <2>3, <2>5, SplitKept
  <2>7. End(h)' = End(h)
    BY <1>1, <1>3 DEF End
  <2> QED BY <1>1, <1>3, <2>1, <2>6, <2>7 DEF Looping
<1> QED BY <1>3, <1>4, <1>5 DEF LoopInv

(* What a step of the loop may do: come to an element that is in a list    *)
(* and that the loop has not come to, and end when nothing is left.        *)
VisitedStep ==
  /\ LoopEnd => loop.due \subseteq loop.seen
  /\ LoopNext => Following \in Nodes \ loop.seen /\ owner[Following] # NULL

(* The element the loop comes to next, whether _SAFE has read it already   *)
(* or not.                                                                 *)
LEMMA FollowingRight ==
  ASSUME LoopInv, loop # NoLoop
  PROVE  LET row == content[loop.head]
             end == End(loop.head) IN
         /\ Following = end => loop.due \subseteq loop.seen
         /\ Following # end =>
              /\ In(row, Following)
              /\ \A s \in loop.seen : Ahead(row, loop.reverse, s, Following)
              /\ \A d \in loop.due \ loop.seen : d = Following \/ Ahead(row, loop.reverse, Following, d)
<1> DEFINE h == loop.head
           row == content[h]
<1>1. /\ OrderInv /\ h \in Heads /\ loop.reverse \in BOOLEAN /\ (loop.reverse => kind \in {"TAILQ", "CIRCLEQ"})
      /\ Split(row, loop, End(h))
  BY DEF LoopInv, Looping, LoopStates
<1>2. CASE loop.safe
  BY <1>1, <1>2 DEF Following, Split
<1>3. CASE ~loop.safe
  <2> DEFINE y == StepFrom(loop.reverse, loop.var)
  <2>1. Following = y
    BY <1>3 DEF Following
  <2>2. /\ In(row, loop.var)
        /\ \A s \in loop.seen : s = loop.var \/ Ahead(row, loop.reverse, s, loop.var)
        /\ \A d \in loop.due \ loop.seen : Ahead(row, loop.reverse, loop.var, d)
        /\ \A x \in loop.seen \cup loop.due : In(row, x)
    BY <1>1, <1>3 DEF Split
  <2>3. NextIs(row, loop.reverse, loop.var, y, End(h))
    BY <1>1, <2>2, StepRight
  <2>4. Listed(row)
    BY <1>1, ListedRow DEF OrderInv
  <2> HIDE DEF y
  <2>5. /\ \A a, b : Ahead(row, loop.reverse, a, b) => a # b /\ ~Ahead(row, loop.reverse, b, a) /\ In(row, b)
        /\ \A a, b, c : Ahead(row, loop.reverse, a, b) /\ Ahead(row, loop.reverse, b, c) => Ahead(row, loop.reverse, a, c)
    BY <1>1, <2>4, AheadOrders
  <2> HIDE DEF row, h
  <2>6. CASE y = End(h)
    BY <2>1, <2>2, <2>3, <2>5, <2>6 DEF NextIs, row, h
  <2>7. CASE y # End(h)
    <3>1. Ahead(row, loop.reverse, loop.var, y) /\ \A z : Ahead(row, loop.reverse, loop.var, z) => z = y \/ Ahead(row, loop.reverse, y, z)
      BY <2>3, <2>7 DEF NextIs
    <3> QED BY <2>1, <2>2, <2>5, <2>7, <3>1 DEF row, h
  <2> QED BY <2>6, <2>7
<1> QED BY <1>2, <1>3

LEMMA LoopInvVisits == LoopInv => VisitedStep
<1> SUFFICES ASSUME LoopInv PROVE VisitedStep
  OBVIOUS
<1>1. LoopEnd => loop.due \subseteq loop.seen
  BY FollowingRight DEF LoopEnd
<1>2. ASSUME LoopNext PROVE Following \in Nodes \ loop.seen /\ owner[Following] # NULL
  <2> DEFINE row == content[loop.head]
  <2>1. loop # NoLoop /\ Following # End(loop.head)
    BY <1>2 DEF LoopNext
  <2>2. In(row, Following) /\ \A s \in loop.seen : Ahead(row, loop.reverse, s, Following)
    BY <2>1, FollowingRight
  <2>3. Ordered /\ loop.head \in Heads /\ loop.reverse \in BOOLEAN
    BY <2>1 DEF LoopInv, Looping, LoopStates, OrderInv
  <2>4. Listed(row) /\ Following \in Nodes /\ owner[Following] = loop.head
    BY <2>2, <2>3, ListedRow
  <2>5. \A s \in loop.seen : s # Following
    BY <2>2, <2>3, <2>4, AheadOrders
  <2> QED BY <2>3, <2>4, <2>5, Apart
<1> QED BY <1>1, <1>2 DEF VisitedStep

(* The loop has come to x: all of seen is behind it, the rest of due is    *)
(* before it.                                                              *)
LEMMA ComeTo ==
  ASSUME OrderInv, NEW l \in LoopStates, l.head \in Heads, l.reverse => kind \in {"TAILQ", "CIRCLEQ"},
         In(content[l.head], l.var), \A x \in l.seen \cup l.due : In(content[l.head], x),
         \A s \in l.seen : s = l.var \/ Ahead(content[l.head], l.reverse, s, l.var),
         \A d \in l.due \ l.seen : Ahead(content[l.head], l.reverse, l.var, d),
         l.var \in l.seen,
         l.next = Saved(l.reverse, l.safe, l.var)
  PROVE  Split(content[l.head], l, End(l.head))
<1> DEFINE h == l.head
           row == content[h]
           y == StepFrom(l.reverse, l.var)
<1>1. l.reverse \in BOOLEAN /\ Listed(row) /\ (l.safe => l.next = y)
  BY ListedRow DEF LoopStates, OrderInv, Saved
<1>2. NextIs(row, l.reverse, l.var, y, End(h))
  BY <1>1, StepRight
<1>3. /\ \A a, b : Ahead(row, l.reverse, a, b) => a # b /\ ~Ahead(row, l.reverse, b, a) /\ In(row, b)
      /\ \A a, b, c : Ahead(row, l.reverse, a, b) /\ Ahead(row, l.reverse, b, c) => Ahead(row, l.reverse, a, c)
  BY <1>1, AheadOrders
<1> HIDE DEF y
<1>4. y = End(h) => l.due \subseteq l.seen
  <2>1. y = End(h) => \A z : In(row, z) => z = l.var \/ Ahead(row, l.reverse, z, l.var)
    BY <1>2 DEF NextIs
  <2> QED BY <1>3, <2>1
<1>5. ASSUME y # End(h)
      PROVE  /\ In(row, y) /\ \A s \in l.seen : Ahead(row, l.reverse, s, y)
             /\ \A d \in l.due \ l.seen : d = y \/ Ahead(row, l.reverse, y, d)
  <2>1. /\ Ahead(row, l.reverse, l.var, y)
        /\ \A z : Ahead(row, l.reverse, l.var, z) => z = y \/ Ahead(row, l.reverse, y, z)
    BY <1>2, <1>5 DEF NextIs
  <2> QED BY <1>3, <2>1
<1> QED BY <1>1, <1>4, <1>5 DEF Split

LEMMA LoopNextLoops ==
  ASSUME LoopInv, OrderInv', LoopNext
  PROVE  LoopInv'
<1> DEFINE h == loop.head
           row == content[h]
           f == Following
           l == [loop EXCEPT !.var = f, !.next = Saved(loop.reverse, loop.safe, f), !.seen = @ \cup {f}]
<1>1. /\ loop # NoLoop /\ f # End(h) /\ loop' = l
      /\ kind' = kind /\ mem' = mem /\ owner' = owner /\ content' = content
  BY DEF LoopNext
<1>2. /\ OrderInv /\ Ordered /\ h \in Heads /\ loop \in LoopStates
      /\ (loop.reverse => kind \in {"TAILQ", "CIRCLEQ"})
      /\ Split(row, loop, End(h)) /\ loop.reverse \in BOOLEAN
  BY <1>1 DEF LoopInv, Looping, LoopStates, OrderInv
<1>3. /\ In(row, f)
      /\ \A s \in loop.seen : Ahead(row, loop.reverse, s, f)
      /\ \A d \in loop.due \ loop.seen : d = f \/ Ahead(row, loop.reverse, f, d)
  BY <1>1, FollowingRight
<1>4. f \in Nodes /\ f \in Spots
  BY <1>2, <1>3, ListedRow, Apart DEF Spots
<1>5. Saved(loop.reverse, loop.safe, f) \in Spots
  <2> DEFINE y == StepFrom(loop.reverse, f)
  <2>1. NextIs(row, loop.reverse, f, y, End(h)) /\ Listed(row)
    BY <1>2, <1>3, StepRight, ListedRow
  <2> HIDE DEF y
  <2>2. y = End(h) \/ In(row, y)
    BY <1>2, <2>1, AheadOrders DEF NextIs
  <2>3. In(row, y) => y \in Nodes
    BY <1>2, ListedRow
  <2>4. End(h) \in Spots
    BY <1>2, Apart DEF End, Spots
  <2>5. y \in Spots
    BY <2>2, <2>3, <2>4, Apart DEF Spots
  <2> QED BY <2>5, Apart DEF Saved, Spots, y
<1> HIDE DEF f
<1>6. /\ l \in LoopStates /\ l.head = h /\ l.reverse = loop.reverse /\ l.safe = loop.safe
      /\ l.var = f /\ l.next = Saved(loop.reverse, loop.safe, f)
      /\ l.due = loop.due /\ l.seen = loop.seen \cup {f}
  BY <1>2, <1>4, <1>5 DEF LoopStates
<1> HIDE DEF l
<1>7. Split(content[l.head], l, End(l.head))
  <2>1. \A x \in l.seen \cup l.due : In(content[l.head], x)
    BY <1>2, <1>3, <1>6 DEF Split
  <2>2. \A s \in l.seen : s = l.var \/ Ahead(content[l.head], l.reverse, s, l.var)
    BY <1>3, <1>6
  <2>3. \A d \in l.due \ l.seen : Ahead(content[l.head], l.reverse, l.var, d)
    BY <1>3, <1>6
  <2> QED BY <1>2, <1>3, <1>6, <2>1, <2>2, <2>3, ComeTo
<1>8. End(h)' = End(h)
  BY <1>1, <1>6 DEF End
<1>9. Looping'
  BY <1>1, <1>2, <1>6, <1>7, <1>8 DEF Looping
<1> QED BY <1>1, <1>6, <1>9 DEF LoopInv

LEMMA LoopStartLoops ==
  ASSUME LoopInv, OrderInv', NEW h \in Heads, NEW reverse \in BOOLEAN, NEW safe \in BOOLEAN,
         LoopStart(h, reverse, safe)
  PROVE  LoopInv'
<1> DEFINE row == content[h]
           var == IF reverse THEN LastOf(mem, h) ELSE FirstOf(mem, h)
           l == [head |-> h, reverse |-> reverse, safe |-> safe, var |-> var,
                 next |-> Saved(reverse, safe, var), due |-> Seqs!ToSet(row), seen |-> {var}]
<1>1. /\ row # <<>> /\ loop' = l /\ (reverse => kind \in {"TAILQ", "CIRCLEQ"})
      /\ kind' = kind /\ mem' = mem /\ owner' = owner /\ content' = content
  BY DEF LoopStart
<1>2. OrderInv /\ Ordered
  BY DEF LoopInv, OrderInv
<1>3. In(row, var) /\ \A z : In(row, z) => z = var \/ Ahead(row, reverse, var, z)
  BY <1>1, <1>2, StartRight
<1>4. \A x : x \in Seqs!ToSet(row) <=> In(row, x)
  BY <1>2, Cells DEF Seqs!ToSet, In
<1>5. Seqs!ToSet(row) \subseteq Nodes /\ var \in Nodes
  BY <1>2, <1>3, <1>4, ListedRow
<1>6. Saved(reverse, safe, var) \in Spots
  <2> DEFINE y == StepFrom(reverse, var)
  <2> HIDE DEF var
  <2>1. NextIs(row, reverse, var, y, End(h)) /\ Listed(row)
    BY <1>1, <1>2, <1>3, StepRight, ListedRow
  <2> HIDE DEF y
  <2>2. y = End(h) \/ In(row, y)
    BY <2>1, AheadOrders DEF NextIs
  <2>3. In(row, y) => y \in Nodes
    BY <1>2, ListedRow
  <2>4. End(h) \in Spots
    BY Apart DEF End, Spots
  <2>5. y \in Spots
    BY <2>2, <2>3, <2>4, Apart DEF Spots
  <2> QED BY <2>5, Apart DEF Saved, Spots, y
<1> HIDE DEF var
<1>7. /\ l \in LoopStates /\ l.head = h /\ l.reverse = reverse /\ l.safe = safe
      /\ l.var = var /\ l.next = Saved(reverse, safe, var)
      /\ l.due = Seqs!ToSet(row) /\ l.seen = {var}
  BY <1>5, <1>6, Apart DEF LoopStates, Spots
<1> HIDE DEF l
<1>8. Split(content[l.head], l, End(l.head))
  <2>1. \A x \in l.seen \cup l.due : In(content[l.head], x)
    BY <1>3, <1>4, <1>7
  <2>2. \A d \in l.due \ l.seen : Ahead(content[l.head], l.reverse, l.var, d)
    BY <1>3, <1>4, <1>7
  <2>3. \A s \in l.seen : s = l.var
    BY <1>7
  <2> QED BY <1>1, <1>2, <1>3, <1>7, <2>1, <2>2, <2>3, ComeTo
<1>9. End(h)' = End(h)
  BY <1>1 DEF End
<1>10. Looping'
  BY <1>1, <1>7, <1>8, <1>9 DEF Looping
<1> QED BY <1>1, <1>7, <1>10 DEF LoopInv

LEMMA LoopInvNext == LoopInv /\ [QueueNext]_queueVars => LoopInv'
<1> SUFFICES ASSUME LoopInv, [QueueNext]_queueVars PROVE LoopInv'
  OBVIOUS
<1>1. OrderInv /\ Ordered /\ OrderInv'
  BY OrderNext DEF LoopInv, OrderInv
<1>2. \A h \in Heads : Len(content[h]) \in Nat
  BY <1>1, Cells
<1>3. ASSUME NEW h \in Heads, NEW e \in Nodes, InsertHead(h, e) \/ InsertTail(h, e) PROVE LoopInv'
  <2>1. PICK i \in 1..Len(content[h]) + 1 : Put(e, h, i)
    BY <1>2, <1>3 DEF InsertHead, InsertTail
  <2> QED BY <1>1, <2>1, PutLoops
<1>4. ASSUME NEW l \in Nodes, NEW e \in Nodes, InsertAfter(l, e) \/ InsertBefore(l, e) PROVE LoopInv'
  <2>1. owner[l] \in Heads /\ Place(l) \in 1..Len(content[owner[l]])
    BY <1>1, <1>4, PlaceRight DEF InsertAfter, InsertBefore
  <2>2. Put(e, owner[l], Place(l) + 1) \/ Put(e, owner[l], Place(l))
    BY <1>4 DEF InsertAfter, InsertBefore
  <2>3. PICK i \in 1..Len(content[owner[l]]) + 1 : Put(e, owner[l], i)
    BY <1>2, <2>1, <2>2
  <2> QED BY <1>1, <2>1, <2>3, PutLoops
<1>5. ASSUME NEW e \in Nodes, RemoveElm(e) PROVE LoopInv'
  <2>1. PICK memory : Take(e, memory)
    BY <1>5, SMT DEF RemoveElm
  <2> QED BY <1>1, <2>1, TakeLoops
<1>6. ASSUME NEW l \in Nodes, RemoveAfter(l) PROVE LoopInv'
  <2>1. Succ(mem, l) \in Nodes
    BY <1>1, <1>6, RemoveAfterOrders
  <2>2. PICK memory : Take(Succ(mem, l), memory)
    BY <1>6 DEF RemoveAfter
  <2> QED BY <1>1, <2>1, <2>2, TakeLoops
<1>7. ASSUME NEW h \in Heads, RemoveHead(h) PROVE LoopInv'
  <2>1. FirstOf(mem, h) \in Nodes
    BY <1>1, <1>7, RemoveHeadOrders
  <2>2. PICK memory : Take(FirstOf(mem, h), memory)
    BY <1>7, SMT DEF RemoveHead
  <2> QED BY <1>1, <2>1, <2>2, TakeLoops
<1>8. ASSUME NEW h1 \in Heads, NEW h2 \in Heads, Concat(h1, h2) PROVE LoopInv'
  BY <1>1, <1>8, ConcatLoops
<1>9. ASSUME NEW h \in Heads, NEW reverse \in BOOLEAN, NEW safe \in BOOLEAN, LoopStart(h, reverse, safe)
      PROVE  LoopInv'
  BY <1>1, <1>9, LoopStartLoops
<1>10. CASE LoopNext
  BY <1>1, <1>10, LoopNextLoops
<1>11. NoLoop \in LoopStates
  BY DEF NoLoop, LoopStates, Spots
<1>12. CASE LoopEnd
  BY <1>1, <1>11, <1>12 DEF LoopEnd, LoopInv
<1>13. CASE UNCHANGED queueVars
  BY <1>1, <1>13 DEF LoopInv, Looping, queueVars, End
<1> QED
  BY <1>3, <1>4, <1>5, <1>6, <1>7, <1>8, <1>9, <1>10, <1>12, <1>13 DEF QueueNext

(* Visited: whatever the body of a loop puts in and takes out, the loop    *)
(* comes to every element that was there at its start and stays, to none   *)
(* twice, and to none that is in no list.                                  *)
THEOREM VisitedCorrect == QueueSpec => Visited
<1>1. QueueInit => LoopInv
  <2>1. NoLoop \in LoopStates
    BY DEF NoLoop, LoopStates, Spots
  <2> QED BY <2>1, InitRight, InitOrders DEF LoopInv, OrderInv, QueueInit
<1>2. LoopInv => VisitedStep
  BY LoopInvVisits
<1> QED
  BY <1>1, <1>2, LoopInvNext, PTL DEF QueueSpec, Visited, VisitedStep
-----------------------------------------------------------------------------
(* The buffers of getline, getdelim and fgetln.                            *)

LEMMA GrownFacts ==
  ASSUME NEW n \in Nat, NEW least \in Nat
  PROVE  /\ Grown(n, least) \in [0..least -> Nat]
         /\ Grown(n, least)[0] = n
         /\ \A g \in 1..least : Grown(n, least)[g] = (Grown(n, least)[g - 1] * 3) \div 2 + 2
<1> DEFINE step == [m \in Nat |-> (m * 3) \div 2 + 2]
           Body(h) == [g \in 0..least |-> IF g = 0 THEN n ELSE (h[g - 1] * 3) \div 2 + 2]
           size == CHOOSE h : h = Body(h)
<1>1. step \in [Nat -> Nat] /\ \A m \in Nat : step[m] = (m * 3) \div 2 + 2
  BY SMT
<1> HIDE DEF step
<1>2. PICK f : Iterated(f, Nat, n, step, least)
  BY <1>1, Iterates
<1>3. f = Body(f)
  <2>1. f \in [0..least -> Nat] /\ f[0] = n /\ \A g \in 1..least : f[g] = step[f[g - 1]]
    BY <1>2 DEF Iterated
  <2>2. \A g \in 1..least : f[g - 1] \in Nat
    BY <2>1
  <2>3. \A g \in 1..least : f[g] = (f[g - 1] * 3) \div 2 + 2
    BY <1>1, <2>1, <2>2
  <2> QED BY <2>1, <2>3
<1>4. size = Body(size)
  BY <1>3
<1>5. Grown(n, least) = size
  BY Zenon DEF Grown
<1> HIDE DEF size
<1>6. size[0] = n /\ \A g \in 1..least : size[g] = (size[g - 1] * 3) \div 2 + 2
  BY <1>4
<1>7. size = [g \in 0..least |-> size[g]]
  BY <1>4, Zenon
<1>8. \A g \in 1..least : size[g - 1] \in Nat => size[g] = step[size[g - 1]]
  BY <1>1, <1>6
<1>9. Iterated(size, Nat, n, step, least)
  BY <1>1, <1>6, <1>7, <1>8, Recursed
<1> QED BY <1>5, <1>6, <1>9 DEF Iterated

LEMMA DoubledFacts ==
  ASSUME NEW n \in Nat, NEW least \in Nat
  PROVE  /\ Doubled(n, least) \in [0..least -> Nat]
         /\ Doubled(n, least)[0] = n
         /\ \A g \in 1..least : Doubled(n, least)[g] = 2 * Doubled(n, least)[g - 1]
<1> DEFINE step == [m \in Nat |-> 2 * m]
           Body(h) == [g \in 0..least |-> IF g = 0 THEN n ELSE 2 * h[g - 1]]
           size == CHOOSE h : h = Body(h)
<1>1. step \in [Nat -> Nat] /\ \A m \in Nat : step[m] = 2 * m
  BY SMT
<1> HIDE DEF step
<1>2. PICK f : Iterated(f, Nat, n, step, least)
  BY <1>1, Iterates
<1>3. f = Body(f)
  <2>1. f \in [0..least -> Nat] /\ f[0] = n /\ \A g \in 1..least : f[g] = step[f[g - 1]]
    BY <1>2 DEF Iterated
  <2>2. \A g \in 1..least : f[g - 1] \in Nat
    BY <2>1
  <2>3. \A g \in 1..least : f[g] = 2 * f[g - 1]
    BY <1>1, <2>1, <2>2
  <2> QED BY <2>1, <2>3
<1>4. size = Body(size)
  BY <1>3
<1>5. Doubled(n, least) = size
  BY Zenon DEF Doubled
<1> HIDE DEF size
<1>6. size[0] = n /\ \A g \in 1..least : size[g] = 2 * size[g - 1]
  BY <1>4
<1>7. size = [g \in 0..least |-> size[g]]
  BY <1>4, Zenon
<1>8. \A g \in 1..least : size[g - 1] \in Nat => size[g] = step[size[g - 1]]
  BY <1>1, <1>6
<1>9. Iterated(size, Nat, n, step, least)
  BY <1>1, <1>6, <1>7, <1>8, Recursed
<1> QED BY <1>5, <1>6, <1>9 DEF Iterated

(* Each growth gives at least one byte more.                               *)
LEMMA GrownEnough ==
  ASSUME NEW n \in Nat, NEW least \in Nat
  PROVE  /\ \A g \in 0..least : Grown(n, least)[g] >= g
         /\ \A g \in 1..least : Grown(n, least)[g] >= 2
<1> DEFINE size == Grown(n, least)
           P == {h \in Nat : h <= least => size[h] >= h}
<1>1. /\ \A g \in 0..least : size[g] \in Nat
      /\ \A g \in 1..least : size[g] = (size[g - 1] * 3) \div 2 + 2
  BY GrownFacts
<1> HIDE DEF size
<1>2. 0 \in P
  BY <1>1
<1>3. ASSUME NEW g \in Nat, g \in P PROVE g + 1 \in P
  <2> SUFFICES ASSUME g + 1 <= least PROVE size[g + 1] >= g + 1
    OBVIOUS
  <2>1. size[g + 1] = (size[g] * 3) \div 2 + 2 /\ size[g] \in Nat /\ size[g] >= g
    BY <1>1, <1>3
  <2> QED BY <2>1, SMT
<1> HIDE DEF P
<1>4. \A g \in Nat : g \in P
  BY <1>2, <1>3, InductionOnSet, Zenon
<1>5. \A g \in 0..least : size[g] >= g
  BY <1>4 DEF P
<1>6. ASSUME NEW g \in 1..least PROVE size[g] >= 2
  <2>1. size[g - 1] \in Nat /\ size[g] = (size[g - 1] * 3) \div 2 + 2
    BY <1>1
  <2> QED BY <2>1, SMT
<1> QED BY <1>5, <1>6 DEF size

LEMMA DoubledEnough ==
  ASSUME NEW n \in Nat, n > 1, NEW least \in Nat
  PROVE  \A g \in 0..least : Doubled(n, least)[g] >= g /\ Doubled(n, least)[g] > 1
<1> DEFINE size == Doubled(n, least)
           P == {h \in Nat : h <= least => size[h] >= h /\ size[h] > 1}
<1>1. /\ \A g \in 0..least : size[g] \in Nat
      /\ size[0] = n
      /\ \A g \in 1..least : size[g] = 2 * size[g - 1]
  BY DoubledFacts
<1> HIDE DEF size
<1>2. 0 \in P
  BY <1>1
<1>3. ASSUME NEW g \in Nat, g \in P PROVE g + 1 \in P
  <2> SUFFICES ASSUME g + 1 <= least PROVE size[g + 1] >= g + 1 /\ size[g + 1] > 1
    OBVIOUS
  <2>1. size[g + 1] = 2 * size[g] /\ size[g] \in Nat /\ size[g] >= g /\ size[g] > 1
    BY <1>1, <1>3
  <2> QED BY <2>1
<1> HIDE DEF P
<1>4. \A g \in Nat : g \in P
  BY <1>2, <1>3, InductionOnSet, Zenon
<1> QED BY <1>4 DEF P, size

LEMMA FirstGrowthFacts ==
  ASSUME NEW least \in Nat, NEW sizes \in [0..least -> Nat], sizes[least] >= least
  PROVE  FirstGrowth(sizes, least) \in 0..least /\ sizes[FirstGrowth(sizes, least)] >= least
<1> DEFINE T == {g \in 0..least : sizes[g] >= least}
<1>1. PICK g \in T : \A h \in T : g <= h
  <2>1. T \subseteq Nat /\ least \in T
    OBVIOUS
  <2> QED BY <2>1, LeastNatural, Zenon
<1>2. ASSUME NEW h \in 0..(g - 1) PROVE sizes[h] < least
  <2>1. h \in 0..least /\ ~(g <= h) /\ sizes[h] \in Nat
    OBVIOUS
  <2> QED BY <1>1, <2>1
<1>3. \E k \in DOMAIN sizes : sizes[k] >= least /\ \A h \in 0..(k - 1) : sizes[h] < least
  BY <1>1, <1>2
<1> QED BY <1>3 DEF FirstGrowth

Buffers == [size : Nat, n : Nat, reach : Nat, holds : {None} \cup (Streams \X Nat)]

(* A buffer as the calls leave it: *n is its size, and the line in it has  *)
(* its terminator; NULL with a size is what a failure leaves. It is never  *)
(* one byte long.                                                          *)
Sound(b, fail) ==
  /\ b \in Buffers
  /\ IF b.size # 0 THEN b.n = b.size /\ b.size > 1 /\ b.reach < b.size ELSE fail \/ b.n = 0

(* What a call may return, for a line.                                     *)
Returned(r, line, fail) ==
  /\ r.ok \in BOOLEAN /\ r.wild \in BOOLEAN /\ (r.wild => ~r.ok)
  /\ Sound(r.buf, fail \/ ~r.ok)
  /\ r.ok => r.buf.holds = line

LEMMA BufferSound ==
  ASSUME NEW size \in Nat, NEW n \in Nat, NEW fail \in BOOLEAN, IF size # 0 THEN n = size /\ size > 1 ELSE fail \/ n = 0
  PROVE  Sound(Buffer(size, n), fail)
BY DEF Buffer, Sound, Buffers

LEMMA FilledReturned ==
  ASSUME NEW b, NEW size \in Nat, NEW len \in Nat, NEW line \in Streams \X Nat, NEW fail \in BOOLEAN,
         size > 1, len < size
  PROVE  Returned(Filled(b, size, len, line), line, fail)
BY DEF Returned, Filled, Sound, Buffers

LEMMA GetlineReturned ==
  ASSUME NEW fail \in BOOLEAN, NEW b, Sound(b, fail), NEW len \in Nat \ {0}, NEW line \in Streams \X Nat, NEW fails \in Nat
  PROVE  Returned(getline(b, len, line, fails), line, fail)
<1> DEFINE sizes == Grown(b.n, len + 1)
           g     == FirstGrowth(sizes, len + 1)
<1>0. b.n \in Nat /\ b.size \in Nat /\ b \in Buffers /\ len \in Nat /\ len > 0 /\ len + 1 \in Nat
  BY DEF Sound, Buffers
<1>1. sizes \in [0..len + 1 -> Nat] /\ \A h \in 1..len + 1 : sizes[h] >= 2
  BY <1>0, GrownFacts, GrownEnough
<1>2. sizes[len + 1] >= len + 1
  <2>1. \A h \in 0..len + 1 : Grown(b.n, len + 1)[h] >= h
    BY <1>0, GrownEnough
  <2> QED BY <1>0, <2>1
<1> HIDE DEF sizes
<1>3. g \in 0..len + 1 /\ sizes[g] >= len + 1
  BY <1>0, <1>1, <1>2, FirstGrowthFacts
<1> HIDE DEF g
<1>4. CASE b.size = 0 /\ b.n > 1
  <2>1. getline(b, len, line, fails) = [buf |-> b, ok |-> FALSE, wild |-> TRUE]
    BY <1>4, Zenon DEF getline
  <2> QED BY <1>4, <2>1 DEF Returned, Sound
<1>5. CASE ~(b.size = 0 /\ b.n > 1) /\ fails \in 1..g
  <2>1. getline(b, len, line, fails) = [buf |-> Buffer(0, sizes[fails]), ok |-> FALSE, wild |-> FALSE]
    BY <1>5, Zenon DEF getline, sizes, g
  <2>2. sizes[fails] \in Nat
    BY <1>1, <1>3, <1>5
  <2>3. Sound(Buffer(0, sizes[fails]), TRUE)
    BY <2>2, BufferSound
  <2> QED BY <2>1, <2>3 DEF Returned, Sound
<1>6. CASE ~(b.size = 0 /\ b.n > 1) /\ fails \notin 1..g
  <2>1. getline(b, len, line, fails) = Filled(b, sizes[g], len, line)
    BY <1>6, Zenon DEF getline, sizes, g
  <2>2. sizes[g] \in Nat /\ len < sizes[g] /\ sizes[g] > 1
    BY <1>0, <1>1, <1>3
  <2> QED BY <1>0, <2>1, <2>2, FilledReturned
<1> QED BY <1>4, <1>5, <1>6

LEMMA GetdelimReturned ==
  ASSUME NEW fail \in BOOLEAN, NEW b, Sound(b, fail), NEW len \in Nat \ {0}, NEW delimited \in BOOLEAN,
         NEW line \in Streams \X Nat, NEW fails \in Nat
  PROVE  Returned(getdelim(b, len, delimited, line, fails), line, fail)
<1> DEFINE k     == IF b.size = 0 THEN 1 ELSE 0
           start == IF b.size = 0 THEN BUFSIZ ELSE b.n
           least == IF delimited THEN len + 2 ELSE len + 3
           sizes == Doubled(start, least)
           g     == IF len = 1 /\ delimited THEN 0 ELSE FirstGrowth(sizes, least)
           r     == getdelim(b, len, delimited, line, fails)
<1>0. /\ b.n \in Nat /\ b.size \in Nat /\ b \in Buffers /\ len \in Nat /\ len > 0
      /\ least \in Nat /\ least >= len + 2 /\ k \in {0, 1}
      /\ BUFSIZ \in Nat /\ start \in Nat /\ start > 1
  BY SizesAssumption DEF Sound, Buffers
<1>1. r = IF fails = 1 /\ k = 1 THEN [buf |-> Buffer(0, BUFSIZ), ok |-> FALSE, wild |-> FALSE]
          ELSE IF fails - k \in 1..g
          THEN [buf |-> Buffer(sizes[fails - k - 1], sizes[fails - k - 1]), ok |-> FALSE, wild |-> FALSE]
          ELSE Filled(b, sizes[g], len, line)
  BY Zenon DEF getdelim
<1> HIDE DEF k, start, least, r
<1>2. sizes \in [0..least -> Nat] /\ sizes[0] = start
  BY <1>0, DoubledFacts
<1>3. \A h \in 0..least : sizes[h] >= h /\ sizes[h] > 1
  BY <1>0, DoubledEnough
<1> HIDE DEF sizes
<1>4. sizes[least] >= least
  BY <1>0, <1>3
<1>5. g \in 0..least /\ len < sizes[g]
  <2>1. CASE len = 1 /\ delimited
    BY <1>0, <1>2, <2>1
  <2>2. CASE ~(len = 1 /\ delimited)
    <3>1. FirstGrowth(sizes, least) \in 0..least /\ sizes[FirstGrowth(sizes, least)] >= least
      BY <1>0, <1>2, <1>4, FirstGrowthFacts
    <3>2. sizes[FirstGrowth(sizes, least)] \in Nat
      BY <1>2, <3>1
    <3> QED BY <1>0, <2>2, <3>1, <3>2
  <2> QED BY <2>1, <2>2
<1> HIDE DEF g
<1>6. CASE fails = 1 /\ k = 1
  <2>1. Sound(Buffer(0, BUFSIZ), TRUE)
    BY <1>0, BufferSound
  <2>2. r = [buf |-> Buffer(0, BUFSIZ), ok |-> FALSE, wild |-> FALSE]
    BY <1>1, <1>6
  <2>3. Returned(r, line, fail)
    BY <2>1, <2>2 DEF Returned, Sound
  <2> QED BY <2>3 DEF r
<1>7. CASE ~(fails = 1 /\ k = 1) /\ fails - k \in 1..g
  <2> DEFINE n == sizes[fails - k - 1]
  <2>1. fails - k - 1 \in 0..least
    BY <1>0, <1>5, <1>7
  <2>2. n \in Nat /\ n > 1
    BY <1>2, <1>3, <2>1
  <2>3. r = [buf |-> Buffer(n, n), ok |-> FALSE, wild |-> FALSE]
    BY <1>1, <1>7
  <2> HIDE DEF n
  <2>4. Sound(Buffer(n, n), TRUE)
    BY <2>2, BufferSound
  <2>5. Returned(r, line, fail)
    BY <2>3, <2>4 DEF Returned, Sound
  <2> QED BY <2>5 DEF r
<1>8. CASE ~(fails = 1 /\ k = 1) /\ fails - k \notin 1..g
  <2>1. r = Filled(b, sizes[g], len, line)
    BY <1>1, <1>8
  <2>2. sizes[g] \in Nat /\ sizes[g] > 1
    BY <1>2, <1>3, <1>5
  <2> QED BY <1>0, <1>5, <2>1, <2>2, FilledReturned DEF r
<1> QED BY <1>6, <1>7, <1>8 DEF r

PoolItems == [fp : Streams \cup {None}, buf : Buffers]

(* Where the line fgetln returned last for a stream is: as many slots back *)
(* as the cursor has moved since, round the pool. The slot is still the    *)
(* stream's, so that nobody else gets it before the cursor comes round.    *)
InPool ==
  \A s \in Streams : last[s] # None /\ moves[s] < FILEBUF_POOL_ITEMS =>
    /\ last[s].slot + moves[s] \in {fb_pool_cur, fb_pool_cur + FILEBUF_POOL_ITEMS}
    /\ fb_pool[last[s].slot].fp = s
    /\ fb_pool[last[s].slot].buf.holds = last[s].line

BufferInv ==
  /\ fb_pool \in [Slots -> PoolItems] /\ fb_pool_cur \in Slots
  /\ lines \in [Streams -> Nat] /\ moves \in [Streams -> Nat]
  /\ last \in [Streams -> {None} \cup [line : Streams \X Nat, slot : Slots]]
  /\ failed \in BOOLEAN /\ wild \in BOOLEAN /\ (wild => failed)
  /\ Sound(own, failed)
  /\ \A i \in Slots : Sound(fb_pool[i].buf, failed)
  /\ InPool

LEMMA NextSlot ==
  ASSUME NEW c \in Slots
  PROVE  (c + 1) % FILEBUF_POOL_ITEMS = IF c + 1 = FILEBUF_POOL_ITEMS THEN 0 ELSE c + 1
<1>1. c \in Nat /\ c + 1 <= FILEBUF_POOL_ITEMS /\ FILEBUF_POOL_ITEMS \in Nat /\ FILEBUF_POOL_ITEMS > 0
  BY SizesAssumption DEF Slots
<1>2. CASE c + 1 = FILEBUF_POOL_ITEMS
  BY <1>1, <1>2, SMT
<1>3. CASE c + 1 < FILEBUF_POOL_ITEMS
  BY <1>1, <1>3, SMT
<1> QED BY <1>1, <1>2, <1>3

LEMMA SoundFailed ==
  ASSUME NEW b, NEW f \in BOOLEAN, NEW g \in BOOLEAN, Sound(b, f), f => g
  PROVE  Sound(b, g)
BY DEF Sound

LEMMA InitBuffers == BufferInit => BufferInv
<1> SUFFICES ASSUME BufferInit PROVE BufferInv
  OBVIOUS
<1>1. \A n \in Sizes : n \in Nat /\ Sound(Buffer(n, n), FALSE)
  <2> TAKE n \in Sizes
  <2>1. n \in Nat /\ n # 1
    BY SizesAssumption
  <2>2. IF n # 0 THEN n = n /\ n > 1 ELSE FALSE \/ n = 0
    BY <2>1
  <2> QED BY <2>1, <2>2, BufferSound
<1>2. Sound(Buffer(0, 0), FALSE)
  BY BufferSound
<1>3. Buffer(0, 0) \in Buffers
  BY <1>2 DEF Sound
<1>4. 0 \in Slots
  BY SizesAssumption DEF Slots
<1> QED BY <1>1, <1>2, <1>3, <1>4 DEF BufferInit, BufferInv, PoolItems, InPool

LEMMA OwnStep ==
  ASSUME BufferInv, NEW s \in Streams, NEW r, Returned(r, <<s, lines[s]>>, failed), ReadOwn(r, s)
  PROVE  BufferInv'
<1>1. failed' \in BOOLEAN /\ (failed => failed') /\ (~r.ok => failed')
  BY DEF BufferInv, ReadOwn, Returned
<1>2. failed' = (failed \/ ~r.ok) /\ own' = r.buf /\ wild' = r.wild /\ lines' = [lines EXCEPT ![s] = @ + 1]
  BY DEF ReadOwn
<1>3. Sound(own, failed)'
  BY <1>2 DEF Returned
<1>4. (\A i \in Slots : Sound(fb_pool[i].buf, failed))'
  BY <1>1, SoundFailed DEF BufferInv, ReadOwn
<1>5. wild' \in BOOLEAN /\ (wild' => failed')
  BY <1>1, <1>2 DEF Returned
<1>6. lines' \in [Streams -> Nat]
  BY <1>2 DEF BufferInv
<1>7. InPool'
  BY DEF BufferInv, InPool, ReadOwn
<1> QED BY <1>1, <1>3, <1>4, <1>5, <1>6, <1>7 DEF BufferInv, ReadOwn

(* The slot a call takes is the cursor's or the one behind it.             *)
LEMMA SlotFacts ==
  ASSUME BufferInv, NEW s \in Streams
  PROVE  /\ Slot(s) \in Slots
         /\ Moved(s) \in [Streams -> Nat]
         /\ \/ Slot(s) = fb_pool_cur /\ fb_pool[fb_pool_cur].fp \in {s, None} /\ Moved(s) = moves
            \/ /\ Slot(s) + 1 \in {fb_pool_cur + 2, fb_pool_cur + 2 - FILEBUF_POOL_ITEMS}
               /\ Moved(s) = [t \in Streams |-> moves[t] + 1]
<1>1. fb_pool_cur \in Slots /\ moves \in [Streams -> Nat]
  BY DEF BufferInv
<1>2. CASE Serves(s)
  BY <1>1, <1>2 DEF Serves, Slot, Moved
<1>3. CASE ~Serves(s)
  <2>1. Slot(s) = IF fb_pool_cur + 1 = FILEBUF_POOL_ITEMS THEN 0 ELSE fb_pool_cur + 1
    BY <1>1, <1>3, NextSlot DEF Slot
  <2>2. Slot(s) \in Slots /\ Slot(s) + 1 \in {fb_pool_cur + 2, fb_pool_cur + 2 - FILEBUF_POOL_ITEMS}
    BY <1>1, <2>1, SizesAssumption DEF Slots
  <2>3. Moved(s) = [t \in Streams |-> moves[t] + 1]
    BY <1>3 DEF Moved
  <2> QED BY <1>1, <2>2, <2>3
<1> QED BY <1>2, <1>3

(* What a call leaves of the lines of the other streams.                   *)
LEMMA OthersKept ==
  ASSUME BufferInv, NEW s \in Streams, NEW t \in Streams, t # s, last[t] # None, Moved(s)[t] < FILEBUF_POOL_ITEMS
  PROVE  /\ last[t].slot \in Slots /\ last[t].slot # Slot(s)
         /\ last[t].slot + Moved(s)[t] \in {Slot(s), Slot(s) + FILEBUF_POOL_ITEMS}
         /\ fb_pool[last[t].slot].fp = t
         /\ fb_pool[last[t].slot].buf.holds = last[t].line
<1> DEFINE c == fb_pool_cur
           i == last[t].slot
           m == moves[t]
           N == FILEBUF_POOL_ITEMS
<1>1. i \in Slots /\ c \in Slots /\ m \in Nat /\ N \in Nat \ {0}
  BY SizesAssumption DEF BufferInv
<1>2. Moved(s)[t] \in {m, m + 1} /\ m < N
  BY <1>1, SlotFacts
<1>3. /\ i + m \in {c, c + N}
      /\ fb_pool[i].fp = t
      /\ fb_pool[i].buf.holds = last[t].line
  BY <1>2 DEF BufferInv, InPool
<1>4. CASE Slot(s) = c /\ fb_pool[c].fp \in {s, None} /\ Moved(s) = moves
  <2>1. i # c
    BY <1>3, <1>4, StreamsAssumption
  <2> QED BY <1>1, <1>3, <1>4, <2>1
<1>5. CASE /\ Slot(s) + 1 \in {c + 2, c + 2 - N}
           /\ Moved(s) = [u \in Streams |-> moves[u] + 1]
  <2>1. Moved(s)[t] = m + 1 /\ m + 1 < N
    BY <1>5
  <2>2. Slot(s) \in Slots
    BY SlotFacts
  <2> HIDE DEF c, i, m, N
  <2>3. c \in 0..N-1 /\ i \in 0..N-1 /\ Slot(s) \in 0..N-1
    BY <1>1, <2>2 DEF Slots, N
  <2>4. i + (m + 1) \in {Slot(s), Slot(s) + N} /\ i # Slot(s)
    BY <1>1, <1>3, <1>5, <2>1, <2>3
  <2> QED BY <1>1, <1>3, <2>1, <2>4 DEF i, N
<1> QED BY <1>4, <1>5, SlotFacts

LEMMA FgetlnStep ==
  ASSUME BufferInv, NEW s \in Streams, NEW len \in Lengths, NEW fails \in Failing, Fgetln(s, len, fails)
  PROVE  BufferInv'
<1> DEFINE i    == Slot(s)
           line == <<s, lines[s]>>
           r    == getline(fb_pool[i].buf, len, line, fails)
<1>1. /\ fb_pool_cur' = i
      /\ fb_pool' = [fb_pool EXCEPT ![i] = [fp |-> s, buf |-> r.buf]]
      /\ wild' = r.wild
      /\ failed' = (failed \/ ~r.ok)
      /\ lines' = [lines EXCEPT ![s] = @ + 1]
      /\ last' = [last EXCEPT ![s] = IF r.ok THEN [line |-> line, slot |-> i] ELSE None]
      /\ moves' = IF r.ok THEN [Moved(s) EXCEPT ![s] = 0] ELSE Moved(s)
      /\ UNCHANGED own
  BY DEF Fgetln
<1>2. i \in Slots /\ Moved(s) \in [Streams -> Nat] /\ line \in Streams \X Nat /\ failed \in BOOLEAN
  BY SlotFacts DEF BufferInv
<1>3. Sound(fb_pool[i].buf, failed)
  BY <1>2 DEF BufferInv
<1>4. Returned(r, line, failed)
  <2>1. len \in Nat \ {0} /\ fails \in Nat
    BY StreamsAssumption
  <2> HIDE DEF i, line
  <2> QED BY <1>2, <1>3, <2>1, GetlineReturned
<1> HIDE DEF i, r
<1>5. /\ failed' \in BOOLEAN /\ (failed => failed') /\ (~r.ok => failed')
      /\ wild' \in BOOLEAN /\ (wild' => failed') /\ r.ok \in BOOLEAN
  BY <1>1, <1>2, <1>4 DEF Returned
<1>6. Sound(r.buf, failed') /\ r.buf \in Buffers
  BY <1>1, <1>4 DEF Returned, Sound
<1>7. fb_pool' \in [Slots -> PoolItems] /\ \A j \in Slots : fb_pool'[j] = IF j = i THEN [fp |-> s, buf |-> r.buf] ELSE fb_pool[j]
  BY <1>1, <1>2, <1>6 DEF BufferInv, PoolItems
<1>8. (\A j \in Slots : Sound(fb_pool[j].buf, failed))'
  <2> SUFFICES ASSUME NEW j \in Slots PROVE Sound(fb_pool'[j].buf, failed')
    OBVIOUS
  <2>1. CASE j = i
    BY <1>6, <1>7, <2>1
  <2>2. CASE j # i
    <3>1. Sound(fb_pool[j].buf, failed)
      BY DEF BufferInv
    <3> QED BY <1>2, <1>5, <1>7, <2>2, <3>1, SoundFailed
  <2> QED BY <2>1, <2>2
<1>9. Sound(own, failed)'
  <2>1. Sound(own, failed)
    BY DEF BufferInv
  <2> QED BY <1>1, <1>2, <1>5, <2>1, SoundFailed
<1>10. /\ lines' \in [Streams -> Nat] /\ moves' \in [Streams -> Nat]
       /\ last' \in [Streams -> {None} \cup [line : Streams \X Nat, slot : Slots]]
  <2>1. lines' \in [Streams -> Nat]
    BY <1>1 DEF BufferInv
  <2>2. moves' \in [Streams -> Nat]
    BY <1>1, <1>2
  <2> DEFINE L == {None} \cup [line : Streams \X Nat, slot : Slots]
             l == IF r.ok THEN [line |-> line, slot |-> i] ELSE None
  <2>3. l \in L
    BY <1>2
  <2>4. last \in [Streams -> L] /\ last' = [last EXCEPT ![s] = l]
    BY <1>1 DEF BufferInv
  <2> HIDE DEF L, l
  <2>5. last' \in [Streams -> L]
    BY <2>3, <2>4
  <2> QED BY <2>1, <2>2, <2>5 DEF L
<1>11. InPool'
  <2> SUFFICES ASSUME NEW t \in Streams, last'[t] # None, moves'[t] < FILEBUF_POOL_ITEMS
               PROVE  /\ last'[t].slot + moves'[t] \in {i, i + FILEBUF_POOL_ITEMS}
                      /\ fb_pool'[last'[t].slot].fp = t
                      /\ fb_pool'[last'[t].slot].buf.holds = last'[t].line
    BY <1>1 DEF InPool
  <2>1. CASE t = s
    <3>1. r.ok
      BY <1>1, <2>1 DEF BufferInv
    <3>2. last'[t] = [line |-> line, slot |-> i] /\ moves'[t] = 0
      BY <1>1, <1>2, <2>1, <3>1 DEF BufferInv
    <3>3. r.buf.holds = line /\ fb_pool'[i] = [fp |-> s, buf |-> r.buf]
      BY <1>2, <1>4, <1>7, <3>1 DEF Returned
    <3>4. i + 0 = i
      BY <1>2 DEF Slots
    <3> QED BY <2>1, <3>2, <3>3, <3>4
  <2>2. CASE t # s
    <3>1. last'[t] = last[t] /\ moves'[t] = Moved(s)[t]
      BY <1>1, <1>2, <2>2 DEF BufferInv
    <3>2. /\ last[t].slot \in Slots /\ last[t].slot # Slot(s)
          /\ last[t].slot + Moved(s)[t] \in {Slot(s), Slot(s) + FILEBUF_POOL_ITEMS}
          /\ fb_pool[last[t].slot].fp = t
          /\ fb_pool[last[t].slot].buf.holds = last[t].line
      BY <2>2, <3>1, OthersKept
    <3> QED BY <1>7, <3>1, <3>2 DEF i
  <2> QED BY <2>1, <2>2
<1>12. fb_pool_cur' \in Slots
  BY <1>1, <1>2
<1> QED BY <1>5, <1>7, <1>8, <1>9, <1>10, <1>11, <1>12 DEF BufferInv

LEMMA FgetlnEndStep ==
  ASSUME BufferInv, NEW s \in Streams, FgetlnEnd(s)
  PROVE  BufferInv'
<1> DEFINE i == Slot(s)
<1>1. /\ fb_pool_cur' = i
      /\ fb_pool' = [fb_pool EXCEPT ![i].fp = s]
      /\ moves' = Moved(s)
      /\ UNCHANGED <<own, lines, last, wild, failed>>
  BY DEF FgetlnEnd
<1>2. i \in Slots /\ Moved(s) \in [Streams -> Nat]
  BY SlotFacts
<1> HIDE DEF i
<1>3. /\ fb_pool' \in [Slots -> PoolItems]
      /\ \A j \in Slots : fb_pool'[j].buf = fb_pool[j].buf /\ fb_pool'[j].fp = IF j = i THEN s ELSE fb_pool[j].fp
  BY <1>1, <1>2 DEF BufferInv, PoolItems
<1>4. (\A j \in Slots : Sound(fb_pool[j].buf, failed))' /\ Sound(own, failed)'
  BY <1>1, <1>3 DEF BufferInv
<1>5. InPool'
  <2> SUFFICES ASSUME NEW t \in Streams, last[t] # None, Moved(s)[t] < FILEBUF_POOL_ITEMS
               PROVE  /\ last[t].slot + Moved(s)[t] \in {i, i + FILEBUF_POOL_ITEMS}
                      /\ fb_pool'[last[t].slot].fp = t
                      /\ fb_pool'[last[t].slot].buf.holds = last[t].line
    BY <1>1 DEF InPool
  <2>1. CASE t # s
    <3>1. /\ last[t].slot \in Slots /\ last[t].slot # Slot(s)
          /\ last[t].slot + Moved(s)[t] \in {Slot(s), Slot(s) + FILEBUF_POOL_ITEMS}
          /\ fb_pool[last[t].slot].fp = t
          /\ fb_pool[last[t].slot].buf.holds = last[t].line
      BY <2>1, OthersKept
    <3> QED BY <1>3, <3>1 DEF i
  <2>2. CASE t = s
    <3> DEFINE k == last[t].slot
               N == FILEBUF_POOL_ITEMS
               c == fb_pool_cur
               m == moves[t]
    <3>1. k \in Slots /\ c \in Slots /\ m \in Nat /\ N \in Nat \ {0}
      BY SizesAssumption DEF BufferInv
    <3>2. Moved(s)[t] \in {m, m + 1} /\ m < N
      BY <3>1, SlotFacts
    <3>3. k + m \in {c, c + N} /\ fb_pool[k].fp = t /\ fb_pool[k].buf.holds = last[t].line
      BY <3>2 DEF BufferInv, InPool
    <3>4. k + Moved(s)[t] \in {i, i + N}
      <4>1. CASE Slot(s) = c /\ Moved(s) = moves
        BY <3>3, <4>1 DEF i
      <4>2. CASE Slot(s) + 1 \in {c + 2, c + 2 - N} /\ Moved(s) = [u \in Streams |-> moves[u] + 1]
        <5>1. Moved(s)[t] = m + 1 /\ m + 1 < N
          BY <4>2
        <5> HIDE DEF k, N, c, m
        <5>2. k \in 0..N-1 /\ c \in 0..N-1 /\ i \in 0..N-1
          BY <1>2, <3>1 DEF Slots, N
        <5> QED BY <3>1, <3>3, <4>2, <5>1, <5>2 DEF i
      <4> QED BY <4>1, <4>2, SlotFacts
    <3> QED BY <1>3, <2>2, <3>1, <3>3, <3>4
  <2> QED BY <2>1, <2>2
<1> QED BY <1>1, <1>2, <1>3, <1>4, <1>5 DEF BufferInv

(* For any streams, lines and sizes, whichever allocations fail: the line  *)
(* fgetln returned last for a stream stays until the cursor has gone round *)
(* the pool, each line fits into its buffer with its terminator, and NULL  *)
(* is written to only after a failure.                                     *)
THEOREM LinesKeptCorrect == BufferSpec => []LinesKept
<1>1. ASSUME BufferInv, [OwnNext \/ PoolNext]_bufferVars PROVE BufferInv'
  <2>1. ASSUME NEW s \in Streams, NEW len \in Lengths, NEW fails \in Failing, Getline(s, len, fails)
        PROVE  BufferInv'
    <3>1. Returned(getline(own, len, <<s, lines[s]>>, fails), <<s, lines[s]>>, failed)
      BY <1>1, GetlineReturned, StreamsAssumption DEF BufferInv
    <3> QED BY <1>1, <2>1, <3>1, OwnStep DEF Getline
  <2>2. ASSUME NEW s \in Streams, NEW len \in Lengths, NEW fails \in Failing, NEW d \in BOOLEAN,
               Getdelim(s, len, d, fails)
        PROVE  BufferInv'
    <3>1. Returned(getdelim(own, len, d, <<s, lines[s]>>, fails), <<s, lines[s]>>, failed)
      BY <1>1, GetdelimReturned, StreamsAssumption DEF BufferInv
    <3> QED BY <1>1, <2>2, <3>1, OwnStep DEF Getdelim
  <2>3. CASE OwnNext
    BY <2>1, <2>2, <2>3 DEF OwnNext
  <2>4. CASE PoolNext
    BY <1>1, <2>4, FgetlnStep, FgetlnEndStep DEF PoolNext
  <2>5. CASE UNCHANGED bufferVars
    BY <1>1, <2>5 DEF bufferVars, BufferInv, InPool
  <2> QED BY <1>1, <2>3, <2>4, <2>5
<1>2. BufferInv => LinesKept
  BY DEF BufferInv, InPool, LinesKept, Sound
<1> QED BY <1>1, <1>2, InitBuffers, PTL DEF BufferSpec

-----------------------------------------------------------------------------
(***************************************************************************)
(* Signals: raise_default_signal is transparent, for any signals, however  *)
(* many arrive and however deep calls and handlers go: it leaves the mask and *)
(* the handler as it found them, although handlers and further calls come in *)
(* between.                                                                *)
(***************************************************************************)

Acts == {"SIG_DFL", "own"}
PCs == {"block", "default", "raise", "unblock", "unblocked", "restore", "setmask", "return", "run", "called"}

Frames ==
  [is : {"raise", "handler"}, sig : Sigs, pc : PCs, origmask : SUBSET Sigs, origact : Acts,
   retval : {-1, 0}, dfl : BOOLEAN, found : [mask : SUBSET Sigs, act : Acts]]

SignalTypeOK ==
  /\ handler \in [Sigs -> Acts]
  /\ mask \in SUBSET Sigs /\ pending \in SUBSET Sigs
  /\ stack \in Seq(Frames)

(* A call that has set the mask and not begun to restore it, and one that  *)
(* has the default in place of the handler.                                *)
Blocking(f) == f.is = "raise" /\ f.pc \in {"default", "raise", "unblock", "unblocked", "restore"}
Changing(f) == f.is = "raise" /\ f.pc \in {"raise", "unblock", "unblocked", "restore"}

(* What a call has put aside is what it found, and 0 means what it says.   *)
PutAside(f) ==
  f.is = "raise" =>
    /\ f.pc \in {"default", "raise", "unblock", "unblocked", "restore", "setmask"} =>
         f.origmask = f.found.mask
    /\ Changing(f) => f.origact = f.found.act
    /\ f.retval = 0 => f.dfl

(* What blocks is at the top: nothing can begin above it.                  *)
Covered == \A i \in DOMAIN stack : i < Len(stack) => ~Blocking(stack[i])

(* The handler of each signal as it is for those who do not change it.     *)
Proper ==
  [s \in Sigs |->
     IF stack # <<>> /\ Changing(Top) /\ Top.sig = s THEN Top.found.act ELSE handler[s]]

Faithful == \A i \in DOMAIN stack : stack[i].found.act = Proper[stack[i].sig]

(* A call that is before its first or after its last step has the mask it  *)
(* found, or gets it back from what runs above it.                         *)
MaskChain ==
  \A i \in DOMAIN stack : stack[i].is = "raise" /\ stack[i].pc \in {"block", "return"} =>
    stack[i].found.mask = IF i = Len(stack) THEN mask ELSE stack[i + 1].found.mask

(* The window in which only one signal, and only by default, comes through.*)
Window ==
  stack # <<>> /\ Top.is = "raise" =>
    /\ Top.pc \in {"default", "raise", "unblock"} => mask = Sigs
    /\ Top.pc = "unblocked" => mask = Sigs \ {Top.sig}
    /\ Top.pc = "restore" => Sigs \ {Top.sig} \subseteq mask
    /\ Changing(Top) => handler[Top.sig] = "SIG_DFL"
    /\ Top.pc = "unblock" => Top.sig \in pending
    /\ Top.pc = "unblocked" => Top.sig \in pending \/ Top.dfl

SignalInv ==
  /\ SignalTypeOK
  /\ \A i \in DOMAIN stack : PutAside(stack[i])
  /\ Covered
  /\ Faithful
  /\ MaskChain
  /\ Window
-----------------------------------------------------------------------------
LEMMA TopFacts ==
  ASSUME SignalTypeOK, stack # <<>>
  PROVE  /\ Len(stack) \in Nat /\ Len(stack) > 0 /\ DOMAIN stack = 1..Len(stack)
         /\ Len(stack) \in DOMAIN stack
         /\ Top \in Frames
  BY DEF SignalTypeOK, Top

LEMMA GotoStack ==
  ASSUME SignalTypeOK, stack # <<>>, NEW f \in Frames, Goto(f)
  PROVE  /\ stack' \in Seq(Frames) /\ stack' # <<>>
         /\ Len(stack') = Len(stack) /\ DOMAIN stack' = DOMAIN stack
         /\ Top' = f
         /\ \A i \in DOMAIN stack : stack'[i] = IF i = Len(stack) THEN f ELSE stack[i]
  <1>1. Len(stack) \in DOMAIN stack /\ DOMAIN stack = 1..Len(stack) /\ Len(stack) \in Nat
    BY TopFacts
  <1>2. stack' \in Seq(Frames) /\ Len(stack') = Len(stack)
    BY <1>1 DEF Goto, SignalTypeOK
  <1> QED
    BY <1>1, <1>2 DEF Goto, Top

(* A step of the function that is at the top.                              *)
LEMMA GotoKeeps ==
  ASSUME SignalInv, stack # <<>>, Top.is = "raise",
         NEW f \in Frames, Goto(f), f.is = "raise", f.sig = Top.sig, f.found = Top.found,
         PutAside(f),
         handler' \in [Sigs -> Acts], mask' \in SUBSET Sigs, pending' \in SUBSET Sigs,
         \A s \in Sigs : Proper[s] = IF Changing(f) /\ f.sig = s THEN f.found.act ELSE handler'[s],
         f.pc \in {"block", "return"} => mask' = f.found.mask,
         Window'
  PROVE  SignalInv'
  <1> USE DEF SignalInv
  <1>1. /\ stack' \in Seq(Frames) /\ stack' # <<>>
        /\ Len(stack') = Len(stack) /\ DOMAIN stack' = DOMAIN stack
        /\ Top' = f
        /\ \A i \in DOMAIN stack : stack'[i] = IF i = Len(stack) THEN f ELSE stack[i]
    BY GotoStack
  <1>2. Len(stack) \in Nat /\ DOMAIN stack = 1..Len(stack) /\ Len(stack) \in DOMAIN stack
    BY TopFacts
  <1>3. SignalTypeOK'
    BY <1>1 DEF SignalTypeOK
  <1>4. \A i \in DOMAIN stack' : PutAside(stack'[i])
    BY <1>1
  <1>5. Covered'
    BY <1>1, <1>2 DEF Covered
  <1>6. Proper' = Proper
    BY <1>1 DEF Proper
  <1>7. Faithful'
    <2> SUFFICES ASSUME NEW i \in DOMAIN stack
                 PROVE  stack'[i].found.act = Proper[stack'[i].sig]
      BY <1>1, <1>6 DEF Faithful
    <2> QED
      BY <1>1 DEF Faithful, Top
  <1>8. MaskChain'
    <2> SUFFICES ASSUME NEW i \in DOMAIN stack,
                        stack'[i].is = "raise", stack'[i].pc \in {"block", "return"}
                 PROVE  stack'[i].found.mask = IF i = Len(stack) THEN mask' ELSE stack'[i + 1].found.mask
      BY <1>1 DEF MaskChain
    <2>1. CASE i = Len(stack)
      BY <2>1, <1>1
    <2>2. CASE i # Len(stack)
      <3>1. i + 1 \in DOMAIN stack /\ stack'[i] = stack[i]
        BY <2>2, <1>1, <1>2
      <3>2. stack'[i + 1].found = stack[i + 1].found
        BY <3>1, <1>1 DEF Top
      <3> QED
        BY <2>2, <3>1, <3>2 DEF MaskChain
    <2> QED
      BY <2>1, <2>2
  <1> QED
    BY <1>3, <1>4, <1>5, <1>7, <1>8

(* A signal whose default is done is noted in every call for it.           *)
LEMMA DefaultKeeps ==
  ASSUME SignalInv, NEW s \in Sigs, Deliver(s), handler[s] # "own"
  PROVE  SignalInv'
  <1> USE DEF SignalInv
  <1>1. /\ stack' = [i \in DOMAIN stack |-> [stack[i] EXCEPT !.dfl = @ \/ stack[i].sig = s]]
        /\ pending' = pending \ {s} /\ s \in pending /\ s \notin mask
        /\ UNCHANGED <<handler, mask>>
    BY DEF Deliver
  <1>2. \A i \in DOMAIN stack : stack[i] \in Frames
    BY DEF SignalTypeOK
  <1>3. /\ DOMAIN stack' = DOMAIN stack /\ Len(stack) \in Nat /\ DOMAIN stack = 1..Len(stack)
        /\ stack' \in Seq(Frames) /\ Len(stack') = Len(stack)
    <2>1. \A i \in DOMAIN stack : [stack[i] EXCEPT !.dfl = @ \/ stack[i].sig = s] \in Frames
      BY <1>2 DEF Frames
    <2>2. Len(stack) \in Nat /\ DOMAIN stack = 1..Len(stack)
      BY DEF SignalTypeOK
    <2>3. stack' \in [1..Len(stack) -> Frames]
      BY <2>1, <2>2, <1>1
    <2> QED
      BY <2>2, <2>3, <1>1
  <1>4. \A i \in DOMAIN stack :
          /\ stack'[i].is = stack[i].is /\ stack'[i].sig = stack[i].sig /\ stack'[i].pc = stack[i].pc
          /\ stack'[i].origmask = stack[i].origmask /\ stack'[i].origact = stack[i].origact
          /\ stack'[i].retval = stack[i].retval /\ stack'[i].found = stack[i].found
          /\ stack'[i].dfl = (stack[i].dfl \/ stack[i].sig = s)
    BY <1>1, <1>2 DEF Frames
  <1>5. SignalTypeOK'
    BY <1>1, <1>3 DEF SignalTypeOK
  <1>6. \A i \in DOMAIN stack' : PutAside(stack'[i])
    <2> SUFFICES ASSUME NEW i \in DOMAIN stack PROVE PutAside(stack'[i])
      BY <1>3
    <2>1. PutAside(stack[i])
      OBVIOUS
    <2> QED
      BY <2>1, <1>4 DEF PutAside, Changing
  <1>7. Covered'
    BY <1>3, <1>4 DEF Covered, Blocking
  <1>8. (stack' # <<>>) = (stack # <<>>)
    BY <1>3 DEF SignalTypeOK
  <1>9. stack # <<>> => Len(stack) \in DOMAIN stack /\ Top' = stack'[Len(stack)]
    BY <1>3, TopFacts DEF Top
  <1>10. Faithful'
    <2>1. stack # <<>> => /\ Top'.sig = Top.sig /\ Top'.found = Top.found
                          /\ Changing(Top') = Changing(Top)
      BY <1>4, <1>9 DEF Changing, Top
    <2>2. Proper' = Proper
      BY <1>1, <1>8, <2>1 DEF Proper
    <2> QED
      BY <1>3, <1>4, <2>2 DEF Faithful
  <1>11. MaskChain'
    <2> SUFFICES ASSUME NEW i \in DOMAIN stack',
                        stack'[i].is = "raise", stack'[i].pc \in {"block", "return"}
                 PROVE  stack'[i].found.mask
                          = IF i = Len(stack') THEN mask' ELSE stack'[i + 1].found.mask
      BY DEF MaskChain
    <2>1. i # Len(stack) => i + 1 \in DOMAIN stack
      BY <1>3
    <2>2. stack[i].found.mask = IF i = Len(stack) THEN mask ELSE stack[i + 1].found.mask
      BY <1>3, <1>4 DEF MaskChain
    <2>3. stack'[i].found = stack[i].found
      BY <1>3, <1>4
    <2>4. i # Len(stack) => stack'[i + 1].found = stack[i + 1].found
      BY <2>1, <1>4
    <2> QED
      BY <2>2, <2>3, <2>4, <1>1, <1>3
  <1>12. Window'
    <2> SUFFICES ASSUME stack # <<>> PROVE Window'
      BY <1>8 DEF Window
    <2>1. /\ Top'.is = Top.is /\ Top'.sig = Top.sig /\ Top'.pc = Top.pc
          /\ Top'.dfl = (Top.dfl \/ Top.sig = s)
      BY <1>4, <1>9 DEF Top
    <2> QED
      BY <2>1, <1>1 DEF Window, Changing
  <1> QED
    BY <1>5, <1>6, <1>7, <1>10, <1>11, <1>12

(* A frame is put on top of one that has nothing blocked.                  *)
LEMMA PushKeeps ==
  ASSUME SignalInv, NEW f \in Frames, NEW old \in Seq(Frames),
         stack' = Append(old, f), Len(old) = Len(stack),
         \A i \in DOMAIN stack :
           /\ old[i].is = stack[i].is /\ old[i].sig = stack[i].sig /\ old[i].found = stack[i].found
           /\ stack[i].is = "raise" => old[i] = stack[i],
         stack # <<>> => ~Blocking(Top),
         stack # <<>> /\ Top.is = "raise" /\ Top.pc \in {"block", "return"} => f.found.mask = mask,
         PutAside(f), f.pc \in {"block", "run"}, f.found.act = handler[f.sig],
         f.pc = "block" => f.found.mask = mask',
         UNCHANGED handler, mask' \in SUBSET Sigs, pending' \in SUBSET Sigs
  PROVE  SignalInv'
  <1> USE DEF SignalInv
  <1>1. /\ Len(stack) \in Nat /\ DOMAIN stack = 1..Len(stack) /\ DOMAIN old = DOMAIN stack
        /\ \A i \in DOMAIN stack : stack[i] \in Frames
    BY DEF SignalTypeOK
  <1>2. /\ stack' \in Seq(Frames) /\ stack' # <<>> /\ Len(stack') = Len(stack) + 1
        /\ DOMAIN stack' = 1..(Len(stack) + 1)
        /\ stack'[Len(stack) + 1] = f /\ Top' = f
        /\ \A i \in DOMAIN stack : stack'[i] = old[i]
    BY <1>1 DEF Top
  <1>3. SignalTypeOK'
    BY <1>2 DEF SignalTypeOK
  <1>4. \A i \in DOMAIN stack' : PutAside(stack'[i])
    <2> SUFFICES ASSUME NEW i \in DOMAIN stack PROVE PutAside(old[i])
      BY <1>1, <1>2
    <2> QED
      BY DEF PutAside
  <1>5. \A i \in DOMAIN stack : ~Blocking(stack[i])
    BY <1>1 DEF Covered, Top
  <1>6. Covered'
    <2> SUFFICES ASSUME NEW i \in DOMAIN stack PROVE ~Blocking(old[i])
      BY <1>1, <1>2 DEF Covered
    <2> QED
      BY <1>5 DEF Blocking
  <1>7. stack # <<>> => ~Changing(Top)
    BY DEF Blocking, Changing
  <1>8. \A s \in Sigs : Proper[s] = handler[s] /\ Proper'[s] = handler[s]
    <2>1. ~Changing(f)
      BY DEF Changing
    <2> QED
      BY <1>2, <1>7, <2>1 DEF Proper
  <1>9. Faithful'
    <2>1. \A i \in DOMAIN stack' : stack'[i].sig \in Sigs
      BY <1>1, <1>2 DEF Frames
    <2> SUFFICES ASSUME NEW i \in DOMAIN stack' PROVE stack'[i].found.act = handler[stack'[i].sig]
      BY <1>8, <2>1 DEF Faithful
    <2>2. CASE i \in DOMAIN stack
      <3>1. stack[i].sig \in Sigs /\ stack'[i].sig = stack[i].sig /\ stack'[i].found = stack[i].found
        BY <2>2, <1>1, <1>2 DEF Frames
      <3> QED
        BY <3>1, <2>2, <1>8 DEF Faithful
    <2>3. CASE i = Len(stack) + 1
      BY <2>3, <1>2
    <2> QED
      BY <2>2, <2>3, <1>1, <1>2
  <1>10. MaskChain'
    <2> SUFFICES ASSUME NEW i \in DOMAIN stack',
                        stack'[i].is = "raise", stack'[i].pc \in {"block", "return"}
                 PROVE  stack'[i].found.mask
                          = IF i = Len(stack) + 1 THEN mask' ELSE stack'[i + 1].found.mask
      BY <1>2 DEF MaskChain
    <2>1. CASE i = Len(stack) + 1
      BY <2>1, <1>2
    <2>2. CASE i = Len(stack)
      <3>1. i \in DOMAIN stack /\ Top = stack[i] /\ stack # <<>>
        <4>3. i \in 1..(Len(stack) + 1)
          BY <1>2
        <4>4. Len(stack) \in Nat
          BY <1>1
        <4>1. i \in 1..Len(stack)
          BY ONLY <4>3, <4>4, <2>2
        <4>2. Top = stack[i]
          BY <2>2 DEF Top
        <4> QED
          BY <4>1, <4>2, <1>1
      <3>4. stack[i] = stack'[i]
        BY <3>1, <1>2
      <3>2. stack[i].found.mask = mask
        BY <3>1, <3>4, <2>2 DEF MaskChain
      <3> QED
        BY <3>1, <3>2, <3>4, <2>2, <1>1, <1>2
    <2>3. CASE i < Len(stack)
      <3>1. i \in DOMAIN stack /\ i + 1 \in DOMAIN stack /\ stack[i] = stack'[i]
        BY <2>3, <1>1, <1>2
      <3>2. stack'[i + 1].found = stack[i + 1].found
        BY <3>1, <1>2
      <3> QED
        BY <3>1, <3>2, <2>3, <1>1 DEF MaskChain
    <2> QED
      BY <2>1, <2>2, <2>3, <1>1, <1>2
  <1>11. Window'
    BY <1>2 DEF Window, Changing
  <1> QED
    BY <1>3, <1>4, <1>6, <1>9, <1>10, <1>11

(* What is at the top ends, and leaves the mask it found.                  *)
LEMMA PopKeeps ==
  ASSUME SignalInv, stack # <<>>, ~Blocking(Top),
         stack' = Popped, mask' = Top.found.mask, UNCHANGED <<handler, pending>>
  PROVE  SignalInv'
  <1> USE DEF SignalInv
  <1>1. /\ Len(stack) \in Nat /\ Len(stack) > 0 /\ DOMAIN stack = 1..Len(stack)
        /\ \A i \in DOMAIN stack : stack[i] \in Frames
        /\ Len(stack) \in DOMAIN stack /\ Top = stack[Len(stack)]
    BY DEF SignalTypeOK, Top
  <1>2. /\ stack' \in Seq(Frames) /\ Len(stack') = Len(stack) - 1
        /\ DOMAIN stack' = 1..(Len(stack) - 1)
        /\ \A i \in DOMAIN stack' : stack'[i] = stack[i] /\ i \in DOMAIN stack
    BY <1>1 DEF Popped, SignalTypeOK
  <1>3. mask' \in SUBSET Sigs
    BY <1>1 DEF Frames
  <1>4. SignalTypeOK'
    BY <1>2, <1>3 DEF SignalTypeOK
  <1>5. \A i \in DOMAIN stack' : PutAside(stack'[i])
    BY <1>2
  <1>6. \A i \in DOMAIN stack' : ~Blocking(stack'[i])
    BY <1>1, <1>2 DEF Covered
  <1>7. Covered'
    BY <1>6 DEF Covered
  <1>8. stack' # <<>> => Len(stack') \in DOMAIN stack' /\ Top' = stack'[Len(stack')]
    BY <1>2 DEF Top
  <1>9. \A s \in Sigs : Proper[s] = handler[s] /\ Proper'[s] = handler[s]
    BY <1>6, <1>8 DEF Proper, Blocking, Changing
  <1>10. Faithful'
    <2> SUFFICES ASSUME NEW i \in DOMAIN stack'
                 PROVE  stack'[i].found.act = Proper'[stack'[i].sig]
      BY DEF Faithful
    <2>1. stack[i].sig \in Sigs /\ i \in DOMAIN stack /\ stack'[i] = stack[i]
      BY <1>1, <1>2 DEF Frames
    <2> QED
      BY <2>1, <1>9 DEF Faithful
  <1>11. MaskChain'
    <2> SUFFICES ASSUME NEW i \in DOMAIN stack',
                        stack[i].is = "raise", stack[i].pc \in {"block", "return"}
                 PROVE  stack[i].found.mask
                          = IF i = Len(stack) - 1 THEN mask' ELSE stack'[i + 1].found.mask
      BY <1>2 DEF MaskChain
    <2>1. i \in DOMAIN stack /\ i # Len(stack) /\ stack[i].found.mask = stack[i + 1].found.mask
      BY <1>1, <1>2 DEF MaskChain
    <2>2. CASE i = Len(stack) - 1
      <3>1. i + 1 = Len(stack)
        BY <2>2, <1>1
      <3> QED
        BY <2>1, <2>2, <3>1, <1>1
    <2>3. CASE i # Len(stack) - 1
      BY <2>1, <2>3, <1>1, <1>2
    <2> QED
      BY <2>2, <2>3
  <1>12. Window'
    <2> SUFFICES ASSUME stack' # <<>> PROVE ~Blocking(Top')
      BY DEF Window, Blocking, Changing
    <2> QED
      BY <1>6, <1>8
  <1> QED
    BY <1>4, <1>5, <1>7, <1>10, <1>11, <1>12

(***************************************************************************)
(* The actions.                                                            *)
(***************************************************************************)
LEMMA InitSignals == SignalInit => SignalInv
  <1> SUFFICES ASSUME SignalInit PROVE SignalInv
    OBVIOUS
  <1>1. stack = <<>> /\ DOMAIN stack = {}
    BY DEF SignalInit
  <1>2. SignalTypeOK
    BY DEF SignalInit, SignalTypeOK, Acts
  <1> QED
    BY <1>1, <1>2 DEF SignalInv, Covered, Faithful, MaskChain, Window

LEMMA SameStack ==
  ASSUME SignalInv, UNCHANGED <<handler, mask, stack>>,
         pending' \in SUBSET Sigs, pending \subseteq pending'
  PROVE  SignalInv'
  <1> USE DEF SignalInv
  <1>1. SignalTypeOK'
    BY DEF SignalTypeOK
  <1>2. \A i \in DOMAIN stack' : PutAside(stack'[i])
    OBVIOUS
  <1>3. Covered' /\ MaskChain'
    BY DEF Covered, MaskChain
  <1>4. Top' = Top
    BY DEF Top
  <1>5. Proper' = Proper
    BY <1>4 DEF Proper
  <1>6. Faithful'
    BY <1>5 DEF Faithful
  <1>7. Window'
    BY <1>4 DEF Window
  <1> QED
    BY <1>1, <1>2, <1>3, <1>6, <1>7

LEMMA CallFrame ==
  ASSUME SignalTypeOK, NEW s \in Sigs
  PROVE  Call(s) \in Frames /\ Handler(s) \in Frames
  BY DEF SignalTypeOK, Call, Handler, Frames, PCs, Acts

LEMMA DeliverKeeps ==
  ASSUME SignalInv, NEW s \in Sigs, Deliver(s)
  PROVE  SignalInv'
  <1>1. CASE handler[s] # "own"
    BY <1>1, DefaultKeeps
  <1>2. CASE handler[s] = "own"
    <2> DEFINE f == Handler(s)
    <2>1. /\ s \in pending \ mask /\ stack' = Append(stack, f) /\ mask' = mask \cup {s}
          /\ pending' = pending \ {s} /\ UNCHANGED handler
      BY <1>2 DEF Deliver
    <2>2. f \in Frames /\ stack \in Seq(Frames)
      BY CallFrame DEF SignalInv, SignalTypeOK
    <2>3. /\ f.is = "handler" /\ f.sig = s /\ f.pc = "run"
          /\ f.found.mask = mask /\ f.found.act = handler[s]
      BY DEF Handler, Call
    <2>4. PutAside(f)
      BY <2>3 DEF PutAside
    <2>5. stack # <<>> => ~Blocking(Top)
      <3> SUFFICES ASSUME stack # <<>>, Blocking(Top) PROVE FALSE
        OBVIOUS
      <3>1. Top.pc \in {"default", "raise", "unblock"} \/ Top.pc \in {"unblocked", "restore"}
        BY DEF Blocking
      <3>2. CASE Top.pc \in {"default", "raise", "unblock"}
        BY <3>2, <2>1 DEF SignalInv, Window, Blocking
      <3>3. CASE Top.pc \in {"unblocked", "restore"}
        <4>1. s = Top.sig
          BY <3>3, <2>1 DEF SignalInv, Window, Blocking
        <4>2. Changing(Top)
          BY <3>3 DEF Changing, Blocking
        <4>3. handler[Top.sig] = "SIG_DFL"
          BY <4>2 DEF SignalInv, Window, Changing
        <4> QED
          BY <4>1, <4>3, <1>2
      <3> QED
        BY <3>1, <3>2, <3>3
    <2>6. mask' \in SUBSET Sigs /\ pending' \in SUBSET Sigs
      BY <2>1 DEF SignalInv, SignalTypeOK
    <2> HIDE DEF f
    <2> QED
      BY <2>1, <2>2, <2>3, <2>4, <2>5, <2>6, PushKeeps
  <1> QED
    BY <1>1, <1>2

(* The handler that calls the function waits for it.                       *)
LEMMA CalledStack ==
  ASSUME SignalInv, stack # <<>> => Top.is = "handler",
         NEW old, old = IF stack = <<>> THEN stack ELSE [stack EXCEPT ![Len(stack)].pc = "called"]
  PROVE  /\ old \in Seq(Frames) /\ Len(old) = Len(stack)
         /\ \A i \in DOMAIN stack :
              /\ old[i].is = stack[i].is /\ old[i].sig = stack[i].sig /\ old[i].found = stack[i].found
              /\ stack[i].is = "raise" => old[i] = stack[i]
  <1>1. CASE stack = <<>>
    BY <1>1 DEF SignalInv, SignalTypeOK
  <1>2. CASE stack # <<>>
    <2>1. /\ Len(stack) \in DOMAIN stack /\ DOMAIN stack = 1..Len(stack) /\ Len(stack) \in Nat
          /\ Top \in Frames /\ Top = stack[Len(stack)] /\ Top.is = "handler"
      BY <1>2, TopFacts DEF SignalInv, Top
    <2> DEFINE g == [Top EXCEPT !.pc = "called"]
    <2>2. /\ g \in Frames /\ g.is = Top.is /\ g.sig = Top.sig /\ g.found = Top.found
      BY <2>1 DEF Frames, PCs
    <2>3. old = [stack EXCEPT ![Len(stack)] = g]
      BY <1>2, <2>1
    <2> HIDE DEF g
    <2>4. stack \in Seq(Frames)
      BY DEF SignalInv, SignalTypeOK
    <2>5. old \in Seq(Frames) /\ Len(old) = Len(stack)
      BY <2>1, <2>2, <2>3, <2>4
    <2>6. \A i \in DOMAIN stack : old[i] = IF i = Len(stack) THEN g ELSE stack[i]
      BY <2>1, <2>3
    <2> QED
      BY <2>1, <2>2, <2>5, <2>6
  <1> QED
    BY <1>1, <1>2

LEMMA CallKeeps ==
  ASSUME SignalInv, NEW s \in Sigs, CallRaise(s)
  PROVE  SignalInv'
  <1> DEFINE f == Call(s)
             old == IF stack = <<>> THEN stack ELSE [stack EXCEPT ![Len(stack)].pc = "called"]
  <1>1. /\ stack' = Append(old, f) /\ UNCHANGED <<handler, mask, pending>>
        /\ stack # <<>> => Top.is = "handler"
    BY DEF CallRaise
  <1>2. f \in Frames
    BY CallFrame DEF SignalInv
  <1>3. /\ f.is = "raise" /\ f.sig = s /\ f.pc = "block" /\ f.retval = -1
        /\ f.found.mask = mask /\ f.found.act = handler[s]
    BY DEF Call
  <1>4. PutAside(f)
    BY <1>3 DEF PutAside, Changing
  <1>5. /\ old \in Seq(Frames) /\ Len(old) = Len(stack)
        /\ \A i \in DOMAIN stack :
             /\ old[i].is = stack[i].is /\ old[i].sig = stack[i].sig /\ old[i].found = stack[i].found
             /\ stack[i].is = "raise" => old[i] = stack[i]
    BY <1>1, CalledStack
  <1>6. stack # <<>> => ~Blocking(Top)
    BY <1>1 DEF Blocking
  <1>7. mask' \in SUBSET Sigs /\ pending' \in SUBSET Sigs
    BY <1>1 DEF SignalInv, SignalTypeOK
  <1> HIDE DEF f, old
  <1> QED
    BY <1>1, <1>2, <1>3, <1>4, <1>5, <1>6, <1>7, PushKeeps

LEMMA EndMask ==
  ASSUME SignalInv, HandlerReturns \/ Return
  PROVE  /\ stack # <<>> /\ ~Blocking(Top) /\ stack' = Popped /\ UNCHANGED <<handler, pending>>
         /\ mask' = Top.found.mask
  <1>1. stack # <<>> /\ ~Blocking(Top) /\ stack' = Popped /\ UNCHANGED <<handler, pending>>
    BY DEF HandlerReturns, Return, Within, Blocking
  <1>2. mask' = Top.found.mask
    <2>1. CASE HandlerReturns
      BY <2>1 DEF HandlerReturns
    <2>2. CASE Return
      <3>1. Len(stack) \in DOMAIN stack
        BY <1>1, TopFacts DEF SignalInv
      <3> QED
        BY <2>2, <3>1 DEF Return, Within, SignalInv, MaskChain, Top
    <2> QED
      BY <2>1, <2>2
  <1> QED
    BY <1>1, <1>2

LEMMA EndKeeps ==
  ASSUME SignalInv, HandlerReturns \/ Return
  PROVE  SignalInv'
  BY EndMask, PopKeeps

(* The steps of the function. What each changes is looked at by itself.    *)
LEMMA Running ==
  ASSUME SignalInv, NEW pc, Within(pc)
  PROVE  /\ stack # <<>> /\ Top.is = "raise" /\ Top.pc = pc
         /\ Top \in Frames /\ PutAside(Top) /\ Top.sig \in Sigs
         /\ \A s \in Sigs : Proper[s] = IF Changing(Top) /\ Top.sig = s THEN Top.found.act ELSE handler[s]
         /\ handler \in [Sigs -> Acts] /\ mask \in SUBSET Sigs /\ pending \in SUBSET Sigs
  <1>1. stack # <<>> /\ Top.is = "raise" /\ Top.pc = pc
    BY DEF Within
  <1>2. Len(stack) \in DOMAIN stack /\ Top \in Frames
    BY <1>1, TopFacts DEF SignalInv
  <1>3. PutAside(Top)
    BY <1>2 DEF SignalInv, Top
  <1>4. Top.sig \in Sigs
    BY <1>2 DEF Frames
  <1>5. \A s \in Sigs : Proper[s] = IF Changing(Top) /\ Top.sig = s THEN Top.found.act ELSE handler[s]
    BY <1>1 DEF Proper
  <1> QED
    BY <1>1, <1>2, <1>3, <1>4, <1>5 DEF SignalInv, SignalTypeOK

LEMMA GotoTop ==
  ASSUME SignalInv, stack # <<>>, NEW f \in Frames, Goto(f)
  PROVE  Top' = f /\ stack' # <<>>
  BY GotoStack DEF SignalInv

LEMMA BlockKeeps == ASSUME SignalInv, Block PROVE SignalInv'
  <1>1. Within("block") /\ UNCHANGED <<handler, pending>>
    BY DEF Block
  <1>2. /\ stack # <<>> /\ Top.is = "raise" /\ Top.pc = "block"
        /\ Top \in Frames /\ PutAside(Top) /\ Top.sig \in Sigs
        /\ handler \in [Sigs -> Acts] /\ mask \in SUBSET Sigs /\ pending \in SUBSET Sigs
    BY <1>1, Running
  <1>3. ~Changing(Top)
    BY <1>2 DEF Changing
  <1>4. \A s \in Sigs : Proper[s] = handler[s]
    BY <1>1, <1>3, Running
  <1>5. mask = Top.found.mask
    BY <1>2, TopFacts DEF SignalInv, MaskChain, Top
  <1>6. CASE mask' = Sigs /\ Goto([Top EXCEPT !.pc = "default", !.origmask = mask])
    <2> DEFINE f == [Top EXCEPT !.pc = "default", !.origmask = mask]
    <2>1. /\ f \in Frames /\ f.is = "raise" /\ f.sig = Top.sig /\ f.found = Top.found
          /\ f.pc = "default" /\ f.origmask = mask /\ f.retval = Top.retval /\ f.dfl = Top.dfl
      BY <1>2 DEF Frames, PCs
    <2>2. Goto(f)
      BY <1>6
    <2> HIDE DEF f
    <2>3. PutAside(f) /\ ~Changing(f)
      BY <2>1, <1>2, <1>5 DEF PutAside, Changing
    <2>4. Top' = f
      BY <2>1, <2>2, <1>2, GotoTop
    <2>5. Window'
      BY <2>1, <2>3, <2>4, <1>6 DEF Window
    <2> QED
      BY <2>1, <2>2, <2>3, <2>5, <1>1, <1>2, <1>4, <1>6, GotoKeeps
  <1>7. CASE UNCHANGED mask /\ Goto([Top EXCEPT !.pc = "return"])
    <2> DEFINE f == [Top EXCEPT !.pc = "return"]
    <2>1. /\ f \in Frames /\ f.is = "raise" /\ f.sig = Top.sig /\ f.found = Top.found
          /\ f.pc = "return" /\ f.retval = Top.retval /\ f.dfl = Top.dfl
      BY <1>2 DEF Frames, PCs
    <2>2. Goto(f)
      BY <1>7
    <2> HIDE DEF f
    <2>3. PutAside(f) /\ ~Changing(f)
      BY <2>1, <1>2 DEF PutAside, Changing
    <2>4. Top' = f
      BY <2>1, <2>2, <1>2, GotoTop
    <2>5. Window'
      BY <2>1, <2>3, <2>4 DEF Window
    <2> QED
      BY <2>1, <2>2, <2>3, <2>5, <1>1, <1>2, <1>4, <1>5, <1>7, GotoKeeps
  <1> QED
    BY <1>6, <1>7 DEF Block

LEMMA DefaultSet == ASSUME SignalInv, Default PROVE SignalInv'
  <1>1. Within("default") /\ UNCHANGED <<mask, pending>>
    BY DEF Default
  <1>2. /\ stack # <<>> /\ Top.is = "raise" /\ Top.pc = "default"
        /\ Top \in Frames /\ PutAside(Top) /\ Top.sig \in Sigs
        /\ handler \in [Sigs -> Acts] /\ mask \in SUBSET Sigs /\ pending \in SUBSET Sigs
    BY <1>1, Running
  <1>3. ~Changing(Top)
    BY <1>2 DEF Changing
  <1>4. \A s \in Sigs : Proper[s] = handler[s]
    BY <1>1, <1>3, Running
  <1>5. mask = Sigs
    BY <1>2 DEF SignalInv, Window
  <1>6. CASE /\ handler' = [handler EXCEPT ![Top.sig] = "SIG_DFL"]
             /\ Goto([Top EXCEPT !.pc = "raise", !.origact = handler[Top.sig]])
    <2> DEFINE f == [Top EXCEPT !.pc = "raise", !.origact = handler[Top.sig]]
    <2>1. /\ f \in Frames /\ f.is = "raise" /\ f.sig = Top.sig /\ f.found = Top.found
          /\ f.pc = "raise" /\ f.origact = handler[Top.sig] /\ f.origmask = Top.origmask
          /\ f.retval = Top.retval /\ f.dfl = Top.dfl
      BY <1>2 DEF Frames, PCs
    <2>2. Goto(f)
      BY <1>6
    <2> HIDE DEF f
    <2>3. Top.found.act = handler[Top.sig]
      BY <1>2, <1>4, TopFacts DEF SignalInv, Faithful, Top
    <2>4. PutAside(f) /\ Changing(f)
      BY <2>1, <2>3, <1>2 DEF PutAside, Changing
    <2>5. handler' \in [Sigs -> Acts] /\ handler'[f.sig] = "SIG_DFL"
      BY <2>1, <1>2, <1>6 DEF Acts
    <2>6. \A s \in Sigs : Proper[s] = IF Changing(f) /\ f.sig = s THEN f.found.act ELSE handler'[s]
      BY <2>1, <2>3, <2>4, <1>2, <1>4, <1>6
    <2>7. Top' = f
      BY <2>1, <2>2, <1>2, GotoTop
    <2>8. Window'
      BY <2>1, <2>5, <2>7, <1>1, <1>5 DEF Window
    <2> QED
      BY <2>1, <2>2, <2>4, <2>5, <2>6, <2>8, <1>1, <1>2, GotoKeeps
  <1>7. CASE UNCHANGED handler /\ Goto([Top EXCEPT !.pc = "setmask"])
    <2> DEFINE f == [Top EXCEPT !.pc = "setmask"]
    <2>1. /\ f \in Frames /\ f.is = "raise" /\ f.sig = Top.sig /\ f.found = Top.found
          /\ f.pc = "setmask" /\ f.origmask = Top.origmask /\ f.retval = Top.retval /\ f.dfl = Top.dfl
      BY <1>2 DEF Frames, PCs
    <2>2. Goto(f)
      BY <1>7
    <2> HIDE DEF f
    <2>3. PutAside(f) /\ ~Changing(f)
      BY <2>1, <1>2 DEF PutAside, Changing
    <2>4. Top' = f
      BY <2>1, <2>2, <1>2, GotoTop
    <2>5. Window'
      BY <2>1, <2>3, <2>4 DEF Window
    <2> QED
      BY <2>1, <2>2, <2>3, <2>5, <1>1, <1>2, <1>4, <1>7, GotoKeeps
  <1> QED
    BY <1>6, <1>7 DEF Default

(* A step between the two that change the handler.                         *)
LEMMA ChangingKeeps ==
  ASSUME SignalInv, NEW pc \in {"raise", "unblock", "unblocked"}, Within(pc),
         NEW f \in Frames, Goto(f), f.is = "raise", f.sig = Top.sig, f.found = Top.found,
         f.origmask = Top.origmask, f.origact = Top.origact, f.dfl = Top.dfl, f.retval = 0 => f.dfl,
         f.pc \in {"unblock", "unblocked", "restore"},
         UNCHANGED handler, mask' \in SUBSET Sigs, pending' \in SUBSET Sigs,
         f.pc = "unblock" => mask' = Sigs /\ f.sig \in pending',
         Sigs \ {f.sig} \subseteq mask',
         f.pc = "unblocked" => mask' = Sigs \ {f.sig},
         f.pc = "unblocked" => f.sig \in pending' \/ f.dfl
  PROVE  SignalInv'
  <1>1. /\ stack # <<>> /\ Top.is = "raise" /\ Top.pc = pc
        /\ PutAside(Top) /\ handler \in [Sigs -> Acts]
    BY Running
  <1>2. Changing(Top) /\ Changing(f)
    BY <1>1 DEF Changing
  <1>3. \A s \in Sigs : Proper[s] = IF Changing(f) /\ f.sig = s THEN f.found.act ELSE handler'[s]
    BY <1>2, Running
  <1>4. PutAside(f)
    BY <1>1, <1>2 DEF PutAside, Changing
  <1>5. Top' = f
    BY <1>1, GotoTop
  <1>6. handler[f.sig] = "SIG_DFL"
    BY <1>1, <1>2 DEF SignalInv, Window
  <1>7. Window'
    BY <1>5, <1>6 DEF Window
  <1> QED
    BY <1>1, <1>3, <1>4, <1>7, GotoKeeps

LEMMA RaiseKeeps == ASSUME SignalInv, Raise PROVE SignalInv'
  <1>1. Within("raise") /\ UNCHANGED <<handler, mask>>
    BY DEF Raise
  <1>2. /\ stack # <<>> /\ Top.is = "raise" /\ Top.pc = "raise"
        /\ Top \in Frames /\ PutAside(Top) /\ Top.sig \in Sigs
        /\ mask \in SUBSET Sigs /\ pending \in SUBSET Sigs
    BY <1>1, Running
  <1>3. mask = Sigs
    BY <1>2 DEF SignalInv, Window
  <1>4. CASE pending' = pending \cup {Top.sig} /\ Goto([Top EXCEPT !.pc = "unblock"])
    <2> DEFINE f == [Top EXCEPT !.pc = "unblock"]
    <2>1. /\ f \in Frames /\ f.is = "raise" /\ f.sig = Top.sig /\ f.found = Top.found
          /\ f.pc = "unblock" /\ f.origmask = Top.origmask /\ f.origact = Top.origact
          /\ f.retval = Top.retval /\ f.dfl = Top.dfl
      BY <1>2 DEF Frames, PCs
    <2>2. f.retval = 0 => f.dfl
      BY <2>1, <1>2 DEF PutAside
    <2>3. Goto(f)
      BY <1>4
    <2> HIDE DEF f
    <2> QED
      BY <2>1, <2>2, <2>3, <1>1, <1>2, <1>3, <1>4, ChangingKeeps
  <1>5. CASE UNCHANGED pending /\ Goto([Top EXCEPT !.pc = "restore"])
    <2> DEFINE f == [Top EXCEPT !.pc = "restore"]
    <2>1. /\ f \in Frames /\ f.is = "raise" /\ f.sig = Top.sig /\ f.found = Top.found
          /\ f.pc = "restore" /\ f.origmask = Top.origmask /\ f.origact = Top.origact
          /\ f.retval = Top.retval /\ f.dfl = Top.dfl
      BY <1>2 DEF Frames, PCs
    <2>2. f.retval = 0 => f.dfl
      BY <2>1, <1>2 DEF PutAside
    <2>3. Goto(f)
      BY <1>5
    <2> HIDE DEF f
    <2> QED
      BY <2>1, <2>2, <2>3, <1>1, <1>2, <1>3, <1>5, ChangingKeeps
  <1> QED
    BY <1>4, <1>5 DEF Raise

LEMMA UnblockKeeps == ASSUME SignalInv, Unblock PROVE SignalInv'
  <1>1. Within("unblock") /\ UNCHANGED <<handler, pending>>
    BY DEF Unblock
  <1>2. /\ stack # <<>> /\ Top.is = "raise" /\ Top.pc = "unblock"
        /\ Top \in Frames /\ PutAside(Top) /\ Top.sig \in Sigs
        /\ mask \in SUBSET Sigs /\ pending \in SUBSET Sigs
    BY <1>1, Running
  <1>3. mask = Sigs /\ Top.sig \in pending
    BY <1>2 DEF SignalInv, Window
  <1>4. CASE mask' = mask \ {Top.sig} /\ Goto([Top EXCEPT !.pc = "unblocked"])
    <2> DEFINE f == [Top EXCEPT !.pc = "unblocked"]
    <2>1. /\ f \in Frames /\ f.is = "raise" /\ f.sig = Top.sig /\ f.found = Top.found
          /\ f.pc = "unblocked" /\ f.origmask = Top.origmask /\ f.origact = Top.origact
          /\ f.retval = Top.retval /\ f.dfl = Top.dfl
      BY <1>2 DEF Frames, PCs
    <2>2. f.retval = 0 => f.dfl
      BY <2>1, <1>2 DEF PutAside
    <2>3. Goto(f)
      BY <1>4
    <2> HIDE DEF f
    <2> QED
      BY <2>1, <2>2, <2>3, <1>1, <1>2, <1>3, <1>4, ChangingKeeps
  <1>5. CASE UNCHANGED mask /\ Goto([Top EXCEPT !.pc = "restore"])
    <2> DEFINE f == [Top EXCEPT !.pc = "restore"]
    <2>1. /\ f \in Frames /\ f.is = "raise" /\ f.sig = Top.sig /\ f.found = Top.found
          /\ f.pc = "restore" /\ f.origmask = Top.origmask /\ f.origact = Top.origact
          /\ f.retval = Top.retval /\ f.dfl = Top.dfl
      BY <1>2 DEF Frames, PCs
    <2>2. f.retval = 0 => f.dfl
      BY <2>1, <1>2 DEF PutAside
    <2>3. Goto(f)
      BY <1>5
    <2> HIDE DEF f
    <2> QED
      BY <2>1, <2>2, <2>3, <1>1, <1>2, <1>3, <1>5, ChangingKeeps
  <1> QED
    BY <1>4, <1>5 DEF Unblock

(* sigprocmask has returned: what was raised is no longer pending, so it   *)
(* has been delivered.                                                     *)
LEMMA UnblockedKeeps == ASSUME SignalInv, Unblocked PROVE SignalInv'
  <1> DEFINE f == [Top EXCEPT !.pc = "restore", !.retval = 0]
  <1>1. /\ Within("unblocked") /\ UNCHANGED <<handler, mask, pending>>
        /\ pending \subseteq mask /\ Goto(f)
    BY DEF Unblocked
  <1>2. /\ stack # <<>> /\ Top.is = "raise" /\ Top.pc = "unblocked"
        /\ Top \in Frames /\ Top.sig \in Sigs
        /\ mask \in SUBSET Sigs /\ pending \in SUBSET Sigs
    BY <1>1, Running
  <1>3. /\ f \in Frames /\ f.is = "raise" /\ f.sig = Top.sig /\ f.found = Top.found
        /\ f.pc = "restore" /\ f.origmask = Top.origmask /\ f.origact = Top.origact
        /\ f.dfl = Top.dfl
    BY <1>2 DEF Frames, PCs
  <1>4. mask = Sigs \ {Top.sig} /\ (Top.sig \in pending \/ Top.dfl)
    BY <1>2 DEF SignalInv, Window
  <1> HIDE DEF f
  <1>5. Top.dfl
    BY <1>1, <1>4
  <1> QED
    BY <1>1, <1>2, <1>3, <1>4, <1>5, ChangingKeeps

LEMMA RestoreActKeeps == ASSUME SignalInv, RestoreAct PROVE SignalInv'
  <1> DEFINE f == [Top EXCEPT !.pc = "setmask"]
  <1>1. /\ Within("restore") /\ UNCHANGED <<mask, pending>> /\ Goto(f)
        /\ handler' = [handler EXCEPT ![Top.sig] = Top.origact]
    BY DEF RestoreAct
  <1>2. /\ stack # <<>> /\ Top.is = "raise" /\ Top.pc = "restore"
        /\ Top \in Frames /\ PutAside(Top) /\ Top.sig \in Sigs
        /\ handler \in [Sigs -> Acts] /\ mask \in SUBSET Sigs /\ pending \in SUBSET Sigs
    BY <1>1, Running
  <1>3. /\ f \in Frames /\ f.is = "raise" /\ f.sig = Top.sig /\ f.found = Top.found
        /\ f.pc = "setmask" /\ f.origmask = Top.origmask
        /\ f.retval = Top.retval /\ f.dfl = Top.dfl
    BY <1>2 DEF Frames, PCs
  <1> HIDE DEF f
  <1>4. Changing(Top) /\ Top.origact = Top.found.act
    BY <1>2 DEF PutAside, Changing
  <1>5. handler' \in [Sigs -> Acts] /\ \A s \in Sigs : Proper[s] = handler'[s]
    <2>1. \A s \in Sigs : Proper[s] = IF Top.sig = s THEN Top.found.act ELSE handler[s]
      BY <1>1, <1>4, Running
    <2>2. Top.origact \in Acts
      BY <1>2 DEF Frames
    <2> QED
      BY <2>1, <2>2, <1>1, <1>2, <1>4
  <1>6. PutAside(f) /\ ~Changing(f)
    BY <1>2, <1>3 DEF PutAside, Changing
  <1>7. Top' = f
    BY <1>1, <1>2, <1>3, GotoTop
  <1>8. Window'
    BY <1>3, <1>6, <1>7 DEF Window
  <1> QED
    BY <1>1, <1>2, <1>3, <1>5, <1>6, <1>8, GotoKeeps

LEMMA RestoreMaskKeeps == ASSUME SignalInv, RestoreMask PROVE SignalInv'
  <1> DEFINE f == [Top EXCEPT !.pc = "return"]
  <1>1. /\ Within("setmask") /\ UNCHANGED <<handler, pending>> /\ Goto(f)
        /\ mask' = Top.origmask
    BY DEF RestoreMask
  <1>2. /\ stack # <<>> /\ Top.is = "raise" /\ Top.pc = "setmask"
        /\ Top \in Frames /\ PutAside(Top) /\ Top.sig \in Sigs
        /\ handler \in [Sigs -> Acts] /\ pending \in SUBSET Sigs
    BY <1>1, Running
  <1>3. /\ f \in Frames /\ f.is = "raise" /\ f.sig = Top.sig /\ f.found = Top.found
        /\ f.pc = "return" /\ f.retval = Top.retval /\ f.dfl = Top.dfl
    BY <1>2 DEF Frames, PCs
  <1> HIDE DEF f
  <1>4. mask' = f.found.mask /\ mask' \in SUBSET Sigs
    <2>1. Top.origmask = Top.found.mask
      BY <1>2 DEF PutAside
    <2>2. Top.origmask \in SUBSET Sigs
      BY <1>2 DEF Frames
    <2> QED
      BY <2>1, <2>2, <1>1, <1>3
  <1>5. PutAside(f) /\ ~Changing(f) /\ ~Changing(Top)
    BY <1>2, <1>3 DEF PutAside, Changing
  <1>6. \A s \in Sigs : Proper[s] = handler[s]
    BY <1>1, <1>5, Running
  <1>7. Top' = f
    BY <1>1, <1>2, <1>3, GotoTop
  <1>8. Window'
    BY <1>3, <1>5, <1>7 DEF Window
  <1> QED
    BY <1>1, <1>2, <1>3, <1>4, <1>5, <1>6, <1>8, GotoKeeps

LEMMA SignalStep == SignalInv /\ [SignalNext]_signalVars => SignalInv'
  <1> SUFFICES ASSUME SignalInv, [SignalNext]_signalVars PROVE SignalInv'
    OBVIOUS
  <1>1. ASSUME NEW s \in Sigs, Arrive(s) PROVE SignalInv'
    <2>1. pending \in SUBSET Sigs
      BY DEF SignalInv, SignalTypeOK
    <2> QED
      BY <1>1, <2>1, SameStack DEF Arrive
  <1>2. CASE UNCHANGED signalVars
    <2>1. pending \in SUBSET Sigs
      BY DEF SignalInv, SignalTypeOK
    <2> QED
      BY <1>2, <2>1, SameStack DEF signalVars
  <1>3. CASE SignalNext
    BY <1>3, <1>1, DeliverKeeps, CallKeeps, EndKeeps, BlockKeeps, DefaultSet, RaiseKeeps, UnblockKeeps,
       UnblockedKeeps, RestoreActKeeps, RestoreMaskKeeps DEF SignalNext
  <1> QED
    BY <1>2, <1>3

(***************************************************************************)
(* Between sigaction and the last sigprocmask of a call that has succeeded *)
(* its signal is unblocked and its handler is back: handlers may run above *)
(* the call, and calls they make. All of them are for its signal, and all  *)
(* of them give back a mask that blocks the others.                        *)
(***************************************************************************)
Open(f) == f.is = "raise" /\ f.pc = "setmask"
ButOne(s) == Sigs \ {s}

Closing ==
  stack # <<>> /\ Top.is = "raise" /\ Top.pc \in {"restore", "setmask"} =>
    ButOne(Top.sig) \subseteq mask /\ (Top.retval = 0 \/ mask = Sigs)

Beneath ==
  \A i \in DOMAIN stack : i < Len(stack) /\ Open(stack[i]) =>
    /\ stack[i].retval = 0 /\ ButOne(stack[i].sig) \subseteq mask
    /\ \A j \in DOMAIN stack : i < j =>
         stack[j].sig = stack[i].sig /\ ButOne(stack[i].sig) \subseteq stack[j].found.mask

ShutInv == SignalInv /\ Closing /\ Beneath

(* A step of the function, which may unblock its own signal or give back   *)
(* the mask it found.                                                      *)
LEMMA GotoShut ==
  ASSUME ShutInv, stack # <<>>,
         NEW f \in Frames, Goto(f), f.sig = Top.sig, f.found = Top.found,
         \/ \A s \in mask : s = Top.sig \/ s \in mask'
         \/ Top.found.mask \subseteq mask',
         f.pc \in {"restore", "setmask"} =>
           ButOne(f.sig) \subseteq mask' /\ (f.retval = 0 \/ mask' = Sigs)
  PROVE  Closing' /\ Beneath'
  <1>1. /\ stack' # <<>> /\ Len(stack') = Len(stack) /\ DOMAIN stack' = DOMAIN stack
        /\ Top' = f
        /\ \A i \in DOMAIN stack : stack'[i] = IF i = Len(stack) THEN f ELSE stack[i]
    BY GotoStack DEF ShutInv, SignalInv
  <1>2. Len(stack) \in DOMAIN stack /\ DOMAIN stack = 1..Len(stack) /\ Len(stack) \in Nat
        /\ Top = stack[Len(stack)]
    BY TopFacts DEF ShutInv, SignalInv, Top
  <1>3. Closing'
    BY <1>1 DEF Closing, ButOne
  <1>4. ASSUME NEW i \in DOMAIN stack, i < Len(stack), Open(stack'[i])
        PROVE  /\ stack'[i].retval = 0 /\ ButOne(stack'[i].sig) \subseteq mask'
               /\ \A j \in DOMAIN stack : i < j =>
                    /\ stack'[j].sig = stack'[i].sig
                    /\ ButOne(stack'[i].sig) \subseteq stack'[j].found.mask
    <2>1. stack'[i] = stack[i]
      BY <1>1, <1>2, <1>4
    <2>2. /\ stack[i].retval = 0 /\ ButOne(stack[i].sig) \subseteq mask
          /\ \A j \in DOMAIN stack : i < j =>
               stack[j].sig = stack[i].sig /\ ButOne(stack[i].sig) \subseteq stack[j].found.mask
      BY <1>4, <2>1 DEF ShutInv, Beneath
    <2>3. Top.sig = stack[i].sig /\ ButOne(stack[i].sig) \subseteq Top.found.mask
      BY <1>2, <1>4, <2>2
    <2>4. ButOne(stack[i].sig) \subseteq mask'
      BY <2>2, <2>3 DEF ButOne
    <2>5. \A j \in DOMAIN stack : stack'[j].sig = stack[j].sig /\ stack'[j].found = stack[j].found
      BY <1>1, <1>2
    <2> QED BY <2>1, <2>2, <2>4, <2>5
  <1> QED BY <1>1, <1>3, <1>4 DEF Beneath

(* A frame is put on top, for the signal of every call that is open.       *)
LEMMA PushShut ==
  ASSUME ShutInv, NEW f \in Frames, NEW old \in Seq(Frames),
         stack' = Append(old, f), Len(old) = Len(stack),
         \A i \in DOMAIN stack :
           /\ old[i].is = stack[i].is /\ old[i].sig = stack[i].sig /\ old[i].found = stack[i].found
           /\ stack[i].is = "raise" => old[i] = stack[i],
         f.pc \in {"block", "run"}, f.found.mask = mask, mask \subseteq mask',
         \A i \in DOMAIN stack : Open(stack[i]) =>
           stack[i].retval = 0 /\ f.sig = stack[i].sig /\ ButOne(f.sig) \subseteq mask
  PROVE  Closing' /\ Beneath'
  <1>1. /\ Len(stack) \in Nat /\ DOMAIN stack = 1..Len(stack) /\ DOMAIN old = DOMAIN stack
    BY DEF ShutInv, SignalInv, SignalTypeOK
  <1>2. /\ stack' # <<>> /\ Len(stack') = Len(stack) + 1
        /\ DOMAIN stack' = 1..(Len(stack) + 1)
        /\ stack'[Len(stack) + 1] = f /\ Top' = f
        /\ \A i \in DOMAIN stack : stack'[i] = old[i]
    BY <1>1 DEF Top
  <1>3. Closing'
    BY <1>2 DEF Closing
  <1>4. ASSUME NEW i \in DOMAIN stack, Open(stack'[i])
        PROVE  /\ stack'[i].retval = 0 /\ ButOne(stack'[i].sig) \subseteq mask'
               /\ \A j \in DOMAIN stack' : i < j =>
                    /\ stack'[j].sig = stack'[i].sig
                    /\ ButOne(stack'[i].sig) \subseteq stack'[j].found.mask
    <2>1. stack'[i] = stack[i] /\ Open(stack[i])
      BY <1>2, <1>4 DEF Open
    <2>2. stack[i].retval = 0 /\ f.sig = stack[i].sig /\ ButOne(stack[i].sig) \subseteq mask
      BY <2>1
    <2>3. ASSUME NEW j \in DOMAIN stack, i < j
          PROVE  stack'[j].sig = stack[i].sig /\ ButOne(stack[i].sig) \subseteq stack'[j].found.mask
      <3>1. i < Len(stack)
        BY <1>1, <2>3
      <3>2. stack[j].sig = stack[i].sig /\ ButOne(stack[i].sig) \subseteq stack[j].found.mask
        BY <2>1, <2>3, <3>1 DEF ShutInv, Beneath
      <3> QED BY <1>2, <2>3, <3>2
    <2>4. \A j \in DOMAIN stack' : j \in DOMAIN stack \/ j = Len(stack) + 1
      BY <1>1, <1>2
    <2> QED BY <1>2, <2>1, <2>2, <2>3, <2>4
  <1>5. \A i \in DOMAIN stack' : i < Len(stack') => i \in DOMAIN stack
    BY <1>1, <1>2
  <1> QED BY <1>3, <1>4, <1>5 DEF Beneath

(* What is at the top ends, and the calls beneath have what they need.     *)
LEMMA PopShut ==
  ASSUME ShutInv, stack # <<>>, stack' = Popped, mask' = Top.found.mask
  PROVE  Closing' /\ Beneath'
  <1>1. /\ Len(stack) \in Nat /\ Len(stack) > 0 /\ DOMAIN stack = 1..Len(stack)
        /\ Len(stack) \in DOMAIN stack /\ Top = stack[Len(stack)]
    BY DEF ShutInv, SignalInv, SignalTypeOK, Top
  <1>2. /\ Len(stack') = Len(stack) - 1 /\ DOMAIN stack' = 1..(Len(stack) - 1)
        /\ \A i \in DOMAIN stack' : stack'[i] = stack[i] /\ i \in DOMAIN stack /\ i < Len(stack)
    BY <1>1 DEF Popped, ShutInv, SignalInv, SignalTypeOK
  <1>3. ASSUME NEW i \in DOMAIN stack', Open(stack'[i])
        PROVE  /\ stack'[i].retval = 0 /\ ButOne(stack'[i].sig) \subseteq mask'
               /\ \A j \in DOMAIN stack' : i < j =>
                    /\ stack'[j].sig = stack'[i].sig
                    /\ ButOne(stack'[i].sig) \subseteq stack'[j].found.mask
    <2>1. i \in DOMAIN stack /\ i < Len(stack) /\ stack'[i] = stack[i]
      BY <1>2
    <2>2. /\ stack[i].retval = 0
          /\ \A j \in DOMAIN stack : i < j =>
               stack[j].sig = stack[i].sig /\ ButOne(stack[i].sig) \subseteq stack[j].found.mask
      BY <1>3, <2>1 DEF ShutInv, Beneath
    <2>3. ButOne(stack[i].sig) \subseteq mask'
      BY <1>1, <2>1, <2>2
    <2> QED BY <1>2, <2>1, <2>2, <2>3
  <1>4. Beneath'
    BY <1>3 DEF Beneath
  <1>5. Closing'
    <2> SUFFICES ASSUME stack' # <<>>, Top'.is = "raise", Top'.pc \in {"restore", "setmask"}
                 PROVE  ButOne(Top'.sig) \subseteq mask' /\ Top'.retval = 0
      BY DEF Closing
    <2>1. Len(stack') \in DOMAIN stack' /\ Top' = stack'[Len(stack')]
      BY <1>1, <1>2 DEF Top
    <2>2. ~Blocking(Top')
      BY <1>2, <2>1 DEF ShutInv, SignalInv, Covered
    <2>3. Open(Top')
      BY <2>2 DEF Open, Blocking
    <2> QED BY <1>3, <2>1, <2>3
  <1> QED BY <1>4, <1>5

(* A signal that is not blocked is that of every call that is open, and    *)
(* the call has succeeded.                                                 *)
LEMMA OnlyIts ==
  ASSUME ShutInv, NEW s \in Sigs, s \notin mask, NEW i \in DOMAIN stack, Open(stack[i])
  PROVE  s = stack[i].sig /\ stack[i].retval = 0 /\ ButOne(s) \subseteq mask
  <1>1. stack # <<>> /\ i \in 1..Len(stack) /\ Len(stack) \in Nat
    BY DEF ShutInv, SignalInv, SignalTypeOK
  <1>2. ButOne(stack[i].sig) \subseteq mask /\ stack[i].retval = 0
    <2>1. CASE i < Len(stack)
      BY <2>1 DEF ShutInv, Beneath
    <2>2. CASE i = Len(stack)
      <3>1. Top = stack[i]
        BY <2>2 DEF Top
      <3> QED BY <1>1, <3>1 DEF ShutInv, Closing, Open
    <2> QED BY <1>1, <2>1, <2>2
  <1> QED BY <1>2 DEF ButOne

LEMMA DeliverShut ==
  ASSUME ShutInv, NEW s \in Sigs, Deliver(s)
  PROVE  Closing' /\ Beneath'
  <1>1. s \notin mask
    BY DEF Deliver
  <1>2. CASE handler[s] = "own"
    <2> DEFINE f == Handler(s)
    <2>1. f \in Frames /\ stack \in Seq(Frames)
      BY CallFrame DEF ShutInv, SignalInv, SignalTypeOK
    <2>2. f.sig = s /\ f.pc = "run" /\ f.found.mask = mask
      BY DEF Handler, Call
    <2>3. stack' = Append(stack, f) /\ mask \subseteq mask'
      BY <1>2 DEF Deliver
    <2> HIDE DEF f
    <2>4. \A i \in DOMAIN stack : Open(stack[i]) =>
            stack[i].retval = 0 /\ f.sig = stack[i].sig /\ ButOne(f.sig) \subseteq mask
      BY <1>1, <2>2, OnlyIts
    <2> QED BY <2>1, <2>2, <2>3, <2>4, PushShut
  <1>3. CASE handler[s] # "own"
    <2>1. /\ stack' = [i \in DOMAIN stack |-> [stack[i] EXCEPT !.dfl = @ \/ stack[i].sig = s]]
          /\ mask' = mask
      BY <1>3 DEF Deliver
    <2>2. stack \in Seq(Frames) /\ \A i \in DOMAIN stack : stack[i] \in Frames
      BY DEF ShutInv, SignalInv, SignalTypeOK
    <2>3. \A i \in DOMAIN stack :
            /\ stack'[i].is = stack[i].is /\ stack'[i].sig = stack[i].sig /\ stack'[i].pc = stack[i].pc
            /\ stack'[i].retval = stack[i].retval /\ stack'[i].found = stack[i].found
      BY <2>1, <2>2 DEF Frames
    <2>4. DOMAIN stack' = DOMAIN stack /\ DOMAIN stack = 1..Len(stack) /\ Len(stack) \in Nat
      BY <2>1, <2>2
    <2>5. Len(stack') = Len(stack)
      BY DeliverKeeps, <2>4 DEF ShutInv, SignalInv, SignalTypeOK
    <2>6. Beneath'
      BY <2>1, <2>3, <2>4, <2>5 DEF ShutInv, Beneath, Open
    <2>7. stack' # <<>> => stack # <<>> /\ Top' = stack'[Len(stack)] /\ Top = stack[Len(stack)]
                           /\ Len(stack) \in DOMAIN stack
      BY <2>4, <2>5, DeliverKeeps DEF Top, ShutInv, SignalInv, SignalTypeOK
    <2>8. Closing'
      BY <2>1, <2>3, <2>7 DEF ShutInv, Closing
    <2> QED BY <2>6, <2>8
  <1> QED BY <1>2, <1>3

LEMMA CallShut ==
  ASSUME ShutInv, NEW s \in Sigs, CallRaise(s)
  PROVE  Closing' /\ Beneath'
  <1> DEFINE f == Call(s)
             old == IF stack = <<>> THEN stack ELSE [stack EXCEPT ![Len(stack)].pc = "called"]
  <1>1. /\ stack' = Append(old, f) /\ mask' = mask
        /\ stack # <<>> => Top.is = "handler" /\ Top.sig = s
    BY DEF CallRaise
  <1>2. f \in Frames
    BY CallFrame DEF ShutInv, SignalInv
  <1>3. f.sig = s /\ f.pc = "block" /\ f.found.mask = mask
    BY DEF Call
  <1>4. /\ old \in Seq(Frames) /\ Len(old) = Len(stack)
        /\ \A i \in DOMAIN stack :
             /\ old[i].is = stack[i].is /\ old[i].sig = stack[i].sig /\ old[i].found = stack[i].found
             /\ stack[i].is = "raise" => old[i] = stack[i]
    BY <1>1, CalledStack DEF ShutInv
  <1> HIDE DEF f, old
  <1>5. ASSUME NEW i \in DOMAIN stack, Open(stack[i])
        PROVE  stack[i].retval = 0 /\ s = stack[i].sig /\ ButOne(s) \subseteq mask
    <2>1. /\ Len(stack) \in DOMAIN stack /\ DOMAIN stack = 1..Len(stack) /\ Len(stack) \in Nat
          /\ Top = stack[Len(stack)] /\ stack # <<>>
      BY DEF ShutInv, SignalInv, SignalTypeOK, Top
    <2>2. i # Len(stack)
      BY <1>1, <1>5, <2>1 DEF Open
    <2>3. i < Len(stack)
      BY <2>1, <2>2
    <2>4. Top.sig = stack[i].sig /\ stack[i].retval = 0 /\ ButOne(stack[i].sig) \subseteq mask
      BY <1>5, <2>1, <2>3 DEF ShutInv, Beneath
    <2> QED BY <1>1, <2>1, <2>4
  <1> QED BY <1>1, <1>2, <1>3, <1>4, <1>5, PushShut

(* The function's own steps.                                               *)
LEMMA FunctionShut ==
  ASSUME ShutInv,
         Block \/ Default \/ Raise \/ Unblock \/ Unblocked \/ RestoreAct \/ RestoreMask
  PROVE  Closing' /\ Beneath'
  <1> USE DEF ShutInv
  <1>1. PICK pc \in PCs : Within(pc)
    BY DEF Block, Default, Raise, Unblock, Unblocked, RestoreAct, RestoreMask, PCs
  <1>2. /\ stack # <<>> /\ Top.is = "raise" /\ Top \in Frames /\ PutAside(Top)
        /\ mask \in SUBSET Sigs
    BY <1>1, Running
  <1>3. ASSUME NEW f \in Frames, Goto(f), f.sig = Top.sig, f.found = Top.found,
               mask' = mask \/ mask' = Sigs \/ mask' = mask \ {Top.sig} \/ mask' = Top.found.mask,
               f.pc \in {"restore", "setmask"} =>
                 ButOne(f.sig) \subseteq mask' /\ (f.retval = 0 \/ mask' = Sigs)
        PROVE  Closing' /\ Beneath'
    BY <1>2, <1>3, GotoShut
  <1>4. CASE Block
    <2>1. \A f : f = [Top EXCEPT !.pc = "default", !.origmask = mask] \/ f = [Top EXCEPT !.pc = "return"] =>
            f \in Frames /\ f.sig = Top.sig /\ f.found = Top.found /\ f.pc \in {"default", "return"}
      BY <1>2 DEF Frames, PCs
    <2>2. CASE mask' = Sigs /\ Goto([Top EXCEPT !.pc = "default", !.origmask = mask])
      BY <2>1, <2>2, <1>3
    <2>3. CASE UNCHANGED mask /\ Goto([Top EXCEPT !.pc = "return"])
      BY <2>1, <2>3, <1>3
    <2> QED BY <1>4, <2>2, <2>3 DEF Block
  <1>5. CASE Default
    <2>1. Top.pc = "default" /\ mask' = mask /\ mask = Sigs
      BY <1>5 DEF Default, Within, SignalInv, Window
    <2>2. CASE Goto([Top EXCEPT !.pc = "raise", !.origact = handler[Top.sig]])
      <3> DEFINE f == [Top EXCEPT !.pc = "raise", !.origact = handler[Top.sig]]
      <3>1. handler[Top.sig] \in Acts
        BY <1>2 DEF SignalInv, SignalTypeOK, Frames
      <3>2. f \in Frames /\ f.sig = Top.sig /\ f.found = Top.found /\ f.pc = "raise"
        BY <1>2, <3>1 DEF Frames, PCs
      <3>3. Goto(f)
        BY <2>2
      <3> HIDE DEF f
      <3> QED BY <2>1, <3>2, <3>3, <1>3
    <2>3. CASE Goto([Top EXCEPT !.pc = "setmask"])
      <3> DEFINE f == [Top EXCEPT !.pc = "setmask"]
      <3>1. f \in Frames /\ f.sig = Top.sig /\ f.found = Top.found /\ f.pc = "setmask"
        BY <1>2 DEF Frames, PCs
      <3>2. Goto(f)
        BY <2>3
      <3> HIDE DEF f
      <3> QED BY <2>1, <3>1, <3>2, <1>3 DEF ButOne
    <2> QED BY <1>5, <2>2, <2>3 DEF Default
  <1>6. CASE Raise \/ Unblock
    <2>1. Top.pc \in {"raise", "unblock"} /\ mask = Sigs
      BY <1>6 DEF Raise, Unblock, Within, SignalInv, Window
    <2>2. ASSUME NEW p \in {"unblock", "unblocked"}, Goto([Top EXCEPT !.pc = p]),
                 mask' = mask \/ mask' = mask \ {Top.sig}
          PROVE  Closing' /\ Beneath'
      <3> DEFINE f == [Top EXCEPT !.pc = p]
      <3>1. f \in Frames /\ f.sig = Top.sig /\ f.found = Top.found /\ f.pc = p
        BY <1>2 DEF Frames, PCs
      <3>2. Goto(f)
        BY <2>2
      <3> HIDE DEF f
      <3> QED BY <2>2, <3>1, <3>2, <1>3
    <2>3. ASSUME Goto([Top EXCEPT !.pc = "restore"]), mask' = mask
          PROVE  Closing' /\ Beneath'
      <3> DEFINE f == [Top EXCEPT !.pc = "restore"]
      <3>1. f \in Frames /\ f.sig = Top.sig /\ f.found = Top.found /\ f.pc = "restore"
        BY <1>2 DEF Frames, PCs
      <3>2. Goto(f)
        BY <2>3
      <3> HIDE DEF f
      <3> QED BY <2>1, <2>3, <3>1, <3>2, <1>3 DEF ButOne
    <2>4. CASE Raise
      BY <2>2, <2>3, <2>4 DEF Raise
    <2>5. CASE Unblock
      BY <2>2, <2>3, <2>5 DEF Unblock
    <2> QED BY <1>6, <2>4, <2>5
  <1>7. CASE Unblocked
    <2> DEFINE f == [Top EXCEPT !.pc = "restore", !.retval = 0]
    <2>1. Top.pc = "unblocked" /\ mask' = mask /\ Goto(f)
      BY <1>7 DEF Unblocked, Within
    <2>2. f \in Frames /\ f.sig = Top.sig /\ f.found = Top.found /\ f.retval = 0
      BY <1>2 DEF Frames, PCs
    <2> HIDE DEF f
    <2>3. mask = ButOne(Top.sig)
      BY <1>2, <2>1 DEF SignalInv, Window, ButOne
    <2> QED BY <2>1, <2>2, <2>3, <1>3
  <1>8. CASE RestoreAct
    <2> DEFINE f == [Top EXCEPT !.pc = "setmask"]
    <2>1. Top.pc = "restore" /\ mask' = mask /\ Goto(f)
      BY <1>8 DEF RestoreAct, Within
    <2>2. f \in Frames /\ f.sig = Top.sig /\ f.found = Top.found /\ f.retval = Top.retval
      BY <1>2 DEF Frames, PCs
    <2> HIDE DEF f
    <2>3. ButOne(Top.sig) \subseteq mask /\ (Top.retval = 0 \/ mask = Sigs)
      BY <1>2, <2>1 DEF Closing
    <2> QED BY <2>1, <2>2, <2>3, <1>3
  <1>9. CASE RestoreMask
    <2> DEFINE f == [Top EXCEPT !.pc = "return"]
    <2>1. Top.pc = "setmask" /\ mask' = Top.origmask /\ Goto(f)
      BY <1>9 DEF RestoreMask, Within
    <2>2. f \in Frames /\ f.sig = Top.sig /\ f.found = Top.found /\ f.pc = "return"
      BY <1>2 DEF Frames, PCs
    <2> HIDE DEF f
    <2>3. Top.origmask = Top.found.mask
      BY <1>2, <2>1 DEF PutAside
    <2> QED BY <2>1, <2>2, <2>3, <1>3
  <1> QED BY <1>4, <1>5, <1>6, <1>7, <1>8, <1>9

LEMMA InitShut == SignalInit => ShutInv
  <1> SUFFICES ASSUME SignalInit PROVE Closing /\ Beneath
    BY InitSignals DEF ShutInv
  <1> QED BY DEF SignalInit, Closing, Beneath

LEMMA ShutStep == ShutInv /\ [SignalNext]_signalVars => ShutInv'
  <1> SUFFICES ASSUME ShutInv, [SignalNext]_signalVars PROVE Closing' /\ Beneath'
    BY SignalStep DEF ShutInv
  <1>1. ASSUME UNCHANGED <<mask, stack>> PROVE Closing' /\ Beneath'
    <2>1. Top' = Top
      BY <1>1 DEF Top
    <2> QED BY <1>1, <2>1 DEF ShutInv, Closing, Beneath
  <1>2. CASE UNCHANGED signalVars
    BY <1>1, <1>2 DEF signalVars
  <1>3. CASE SignalNext
    <2>1. ASSUME NEW s \in Sigs, Arrive(s) PROVE Closing' /\ Beneath'
      BY <1>1, <2>1 DEF Arrive
    <2>2. CASE HandlerReturns \/ Return
      BY <2>2, EndMask, PopShut DEF ShutInv
    <2> QED BY <1>3, <2>1, <2>2, DeliverShut, CallShut, FunctionShut DEF SignalNext
  <1> QED BY <1>2, <1>3

(* What DefaultRaised says of a step.                                      *)
LEMMA StepReturns ==
  ASSUME SignalInv, Return
  PROVE  /\ mask = Top.found.mask /\ handler[Top.sig] = Top.found.act
         /\ Top.retval = 0 => Top.dfl
  <1>1. Within("return")
    BY DEF Return
  <1>2. /\ stack # <<>> /\ Top.is = "raise" /\ Top.pc = "return" /\ PutAside(Top) /\ Top.sig \in Sigs
    BY <1>1, Running
  <1>3. Len(stack) \in DOMAIN stack
    BY <1>2, TopFacts DEF SignalInv
  <1>4. ~Changing(Top)
    BY <1>2 DEF Changing
  <1>5. mask = Top.found.mask
    BY <1>2, <1>3 DEF SignalInv, MaskChain, Top
  <1>6. Proper[Top.sig] = handler[Top.sig]
    BY <1>1, <1>2, <1>4, Running
  <1>7. Top.found.act = Proper[Top.sig]
    BY <1>3 DEF SignalInv, Faithful, Top
  <1> QED
    BY <1>2, <1>5, <1>6, <1>7 DEF PutAside

LEMMA StepDelivers ==
  ASSUME ShutInv, NEW s \in Sigs, Deliver(s), NEW i \in DOMAIN stack, Inside(stack[i])
  PROVE  /\ s = stack[i].sig
         /\ stack[i].pc # "setmask" => handler[s] = "SIG_DFL"
         /\ stack[i].pc = "setmask" =>
              /\ stack[i].retval = 0
              /\ i = Len(stack) => handler[s] = stack[i].found.act
  <1>1. s \notin mask
    BY DEF Deliver
  <1>2. stack # <<>> /\ i \in 1..Len(stack) /\ Len(stack) \in Nat
    BY DEF ShutInv, SignalInv, SignalTypeOK
  <1>3. CASE stack[i].pc = "setmask"
    <2>1. Open(stack[i])
      BY <1>3 DEF Open, Inside
    <2>2. s = stack[i].sig /\ stack[i].retval = 0
      BY <1>1, <2>1, OnlyIts
    <2>3. ASSUME i = Len(stack) PROVE handler[s] = stack[i].found.act
      <3>1. Top = stack[i] /\ ~Changing(Top)
        BY <1>3, <2>3 DEF Top, Changing
      <3>2. Proper[s] = handler[s]
        BY <3>1 DEF Proper
      <3> QED BY <2>2, <3>2 DEF ShutInv, SignalInv, Faithful
    <2> QED BY <1>3, <2>2, <2>3
  <1>4. CASE stack[i].pc # "setmask"
    <2>1. Blocking(stack[i])
      BY <1>4 DEF Blocking, Inside
    <2>2. i = Len(stack)
      BY <1>2, <2>1 DEF ShutInv, SignalInv, Covered
    <2>3. Top = stack[i]
      BY <2>2 DEF Top
    <2>4. Top.pc \in {"unblocked", "restore"}
      BY <1>1, <1>2, <2>1, <2>3 DEF ShutInv, SignalInv, Window, Blocking
    <2>5. s = Top.sig
      BY <1>1, <1>2, <2>1, <2>3, <2>4 DEF ShutInv, SignalInv, Window, Blocking
    <2>6. Changing(Top)
      BY <2>1, <2>3, <2>4 DEF Changing, Blocking
    <2>7. handler[Top.sig] = "SIG_DFL"
      BY <1>2, <2>6 DEF ShutInv, SignalInv, Window, Changing
    <2> QED BY <1>4, <2>3, <2>5, <2>7
  <1> QED BY <1>3, <1>4

(***************************************************************************)
(* raise_default_signal returns with the mask and the handler it found,    *)
(* and 0 only after the default was done. From its first sigprocmask to    *)
(* its last nothing is delivered but its signal: by default until the      *)
(* handler is put back, from there on to that handler, and only if the     *)
(* call has succeeded. This holds whichever of its calls fail, whatever    *)
(* arrives, and however deep handlers call it again.                       *)
(***************************************************************************)
THEOREM DefaultRaisedCorrect == SignalSpec => DefaultRaised
  <1>1. ShutInv => RaisedStep
    BY StepReturns, StepDelivers DEF RaisedStep, ShutInv
  <1> QED
    BY InitShut, ShutStep, <1>1, PTL DEF SignalSpec, DefaultRaised
=============================================================================
