------------------------------- MODULE Queues -------------------------------
(***************************************************************************)
(* A program that keeps elements in lists of one of the six kinds of       *)
(* SysQueue, and changes the lists while it goes through one of them. An   *)
(* element it has removed it frees: others write over its fields.          *)
(***************************************************************************)
EXTENDS Integers, Sequences, SysQueue
Seqs == INSTANCE SequencesExt

CONSTANT Kinds

VARIABLES
  kind,         \* which of the macros the program uses
  mem,
  owner,        \* the head of the list an element is in, or NULL
  content,      \* the lists as the program has asked for them
  loop          \* the loop it is in, if any

queueVars == <<kind, mem, owner, content, loop>>

AllKinds == {"LIST", "SLIST", "STAILQ", "SIMPLEQ", "TAILQ", "CIRCLEQ"}

ASSUME KindsAssumption == Kinds \subseteq AllKinds

End(head) == IF kind = "CIRCLEQ" THEN head ELSE NULL

FirstOf(m, head) ==
  CASE kind = "LIST" -> LIST_FIRST(m, head)       [] kind = "SLIST" -> SLIST_FIRST(m, head)
    [] kind = "STAILQ" -> STAILQ_FIRST(m, head)   [] kind = "SIMPLEQ" -> SIMPLEQ_FIRST(m, head)
    [] kind = "TAILQ" -> TAILQ_FIRST(m, head)     [] kind = "CIRCLEQ" -> CIRCLEQ_FIRST(m, head)
Succ(m, elm) ==
  CASE kind = "LIST" -> LIST_NEXT(m, elm)         [] kind = "SLIST" -> SLIST_NEXT(m, elm)
    [] kind = "STAILQ" -> STAILQ_NEXT(m, elm)     [] kind = "SIMPLEQ" -> SIMPLEQ_NEXT(m, elm)
    [] kind = "TAILQ" -> TAILQ_NEXT(m, elm)       [] kind = "CIRCLEQ" -> CIRCLEQ_NEXT(m, elm)
LastOf(m, head) ==
  CASE kind = "STAILQ" -> STAILQ_LAST(m, head)    [] kind = "SIMPLEQ" -> SIMPLEQ_LAST(m, head)
    [] kind = "TAILQ" -> TAILQ_LAST(m, head)      [] kind = "CIRCLEQ" -> CIRCLEQ_LAST(m, head)
Pred(m, elm) ==
  CASE kind = "TAILQ" -> TAILQ_PREV(m, elm)       [] kind = "CIRCLEQ" -> CIRCLEQ_PREV(m, elm)

Initialised(m, head) ==
  CASE kind = "LIST" -> LIST_INIT(m, head)       [] kind = "SLIST" -> SLIST_INIT(m, head)
    [] kind = "STAILQ" -> STAILQ_INIT(m, head)   [] kind = "SIMPLEQ" -> SIMPLEQ_INIT(m, head)
    [] kind = "TAILQ" -> TAILQ_INIT(m, head)     [] kind = "CIRCLEQ" -> CIRCLEQ_INIT(m, head)

NoLoop == [head |-> NULL, reverse |-> FALSE, safe |-> FALSE, var |-> NULL, next |-> NULL,
           due |-> {}, seen |-> {}]

QueueInit ==
  /\ kind \in Kinds
  /\ mem = [next |-> [x \in Objects |-> IF x \in Heads THEN Initialised(Fresh, x).next[x] ELSE Junk],
            prev |-> [x \in Objects |-> IF x \in Heads THEN Initialised(Fresh, x).prev[x] ELSE Junk]]
  /\ owner = [e \in Nodes |-> NULL]
  /\ content = [h \in Heads |-> <<>>]
  /\ loop = NoLoop
-----------------------------------------------------------------------------
(* What the program asks for: elm is put at a place in a list.             *)
Put(elm, head, place) ==
  /\ owner[elm] = NULL
  /\ owner' = [owner EXCEPT ![elm] = head]
  /\ content' = [content EXCEPT ![head] = Seqs!InsertAt(@, place, elm)]
  /\ UNCHANGED <<kind, loop>>

Place(elm) == CHOOSE i \in DOMAIN content[owner[elm]] : content[owner[elm]][i] = elm

InsertHead(head, elm) ==
  /\ Put(elm, head, 1)
  /\ \/ kind = "LIST" /\ mem' = LIST_INSERT_HEAD(mem, head, elm)
     \/ kind = "SLIST" /\ mem' = SLIST_INSERT_HEAD(mem, head, elm)
     \/ kind = "STAILQ" /\ mem' = STAILQ_INSERT_HEAD(mem, head, elm)
     \/ kind = "SIMPLEQ" /\ mem' = SIMPLEQ_INSERT_HEAD(mem, head, elm)
     \/ kind = "TAILQ" /\ mem' = TAILQ_INSERT_HEAD(mem, head, elm)
     \/ kind = "CIRCLEQ" /\ mem' = CIRCLEQ_INSERT_HEAD(mem, head, elm)

InsertTail(head, elm) ==
  /\ Put(elm, head, Len(content[head]) + 1)
  /\ \/ kind = "STAILQ" /\ mem' = STAILQ_INSERT_TAIL(mem, head, elm)
     \/ kind = "SIMPLEQ" /\ mem' = SIMPLEQ_INSERT_TAIL(mem, head, elm)
     \/ kind = "TAILQ" /\ mem' = TAILQ_INSERT_TAIL(mem, head, elm)
     \/ kind = "CIRCLEQ" /\ mem' = CIRCLEQ_INSERT_TAIL(mem, head, elm)

InsertAfter(listelm, elm) ==
  LET head == owner[listelm] IN
  /\ head # NULL
  /\ Put(elm, head, Place(listelm) + 1)
  /\ \/ kind = "LIST" /\ mem' = LIST_INSERT_AFTER(mem, listelm, elm)
     \/ kind = "SLIST" /\ mem' = SLIST_INSERT_AFTER(mem, listelm, elm)
     \/ kind = "STAILQ" /\ mem' = STAILQ_INSERT_AFTER(mem, head, listelm, elm)
     \/ kind = "SIMPLEQ" /\ mem' = SIMPLEQ_INSERT_AFTER(mem, head, listelm, elm)
     \/ kind = "TAILQ" /\ mem' = TAILQ_INSERT_AFTER(mem, head, listelm, elm)
     \/ kind = "CIRCLEQ" /\ mem' = CIRCLEQ_INSERT_AFTER(mem, head, listelm, elm)

InsertBefore(listelm, elm) ==
  LET head == owner[listelm] IN
  /\ head # NULL
  /\ Put(elm, head, Place(listelm))
  /\ \/ kind = "LIST" /\ mem' = LIST_INSERT_BEFORE(mem, listelm, elm)
     \/ kind = "TAILQ" /\ mem' = TAILQ_INSERT_BEFORE(mem, listelm, elm)
     \/ kind = "CIRCLEQ" /\ mem' = CIRCLEQ_INSERT_BEFORE(mem, head, listelm, elm)
-----------------------------------------------------------------------------
(* In a loop the program takes out what the loop does not need any more:   *)
(* _SAFE has read the next element before the body runs.                   *)
Take(elm, memory) ==
  /\ owner[elm] # NULL
  /\ IF loop.safe THEN elm # loop.next ELSE elm # loop.var
  /\ mem' = POSTREMOVE(memory, elm)
  /\ owner' = [owner EXCEPT ![elm] = NULL]
  /\ content' = [content EXCEPT ![owner[elm]] = Seqs!RemoveAt(@, Place(elm))]
  /\ loop' = [loop EXCEPT !.due = @ \ {elm}, !.seen = @ \ {elm}]
  /\ UNCHANGED kind

RemoveElm(elm) ==
  LET head == owner[elm] IN
  \/ kind = "LIST" /\ Take(elm, LIST_REMOVE(mem, elm))
  \/ kind = "SLIST" /\ Take(elm, SLIST_REMOVE(mem, head, elm))
  \/ kind = "STAILQ" /\ Take(elm, STAILQ_REMOVE(mem, head, elm))
  \/ kind = "SIMPLEQ" /\ Take(elm, SIMPLEQ_REMOVE(mem, head, elm))
  \/ kind = "TAILQ" /\ Take(elm, TAILQ_REMOVE(mem, head, elm))
  \/ kind = "CIRCLEQ" /\ Take(elm, CIRCLEQ_REMOVE(mem, head, elm))

RemoveHead(head) ==
  /\ content[head] # <<>>
  /\ LET elm == FirstOf(mem, head) IN
     \/ kind = "SLIST" /\ Take(elm, SLIST_REMOVE_HEAD(mem, head))
     \/ kind = "STAILQ" /\ Take(elm, STAILQ_REMOVE_HEAD(mem, head))
     \/ kind = "SIMPLEQ" /\ Take(elm, SIMPLEQ_REMOVE_HEAD(mem, head))

RemoveAfter(listelm) ==
  /\ kind = "SLIST" /\ owner[listelm] # NULL
  /\ Succ(mem, listelm) # NULL
  /\ Take(Succ(mem, listelm), SLIST_REMOVE_AFTER(mem, listelm))

(* The list the program goes through is not emptied into another.          *)
Concat(head1, head2) ==
  /\ head1 # head2 /\ loop.head # head2
  /\ \/ kind = "STAILQ" /\ mem' = STAILQ_CONCAT(mem, head1, head2)
     \/ kind = "SIMPLEQ" /\ mem' = SIMPLEQ_CONCAT(mem, head1, head2)
     \/ kind = "TAILQ" /\ mem' = TAILQ_CONCAT(mem, head1, head2)
  /\ owner' = [e \in Nodes |-> IF owner[e] = head2 THEN head1 ELSE owner[e]]
  /\ content' = [content EXCEPT ![head1] = @ \o content[head2], ![head2] = <<>>]
  /\ UNCHANGED <<kind, loop>>
-----------------------------------------------------------------------------
(* The loops: FOREACH, and _REVERSE, _SAFE, _REVERSE_SAFE where they are.  *)
StepFrom(reverse, elm) == IF reverse THEN Pred(mem, elm) ELSE Succ(mem, elm)

(* What _SAFE puts into its second variable before the body runs.          *)
Saved(reverse, safe, var) == IF safe THEN StepFrom(reverse, var) ELSE NULL

LoopStart(head, reverse, safe) ==
  /\ loop = NoLoop /\ content[head] # <<>>
  /\ reverse => kind \in {"TAILQ", "CIRCLEQ"}
  /\ safe => kind # "CIRCLEQ"
  /\ LET var == IF reverse THEN LastOf(mem, head) ELSE FirstOf(mem, head) IN
     loop' = [head |-> head, reverse |-> reverse, safe |-> safe, var |-> var,
              next |-> Saved(reverse, safe, var), due |-> Seqs!ToSet(content[head]), seen |-> {var}]
  /\ UNCHANGED <<kind, mem, owner, content>>

Following == IF loop.safe THEN loop.next ELSE StepFrom(loop.reverse, loop.var)

LoopNext ==
  /\ loop # NoLoop /\ Following # End(loop.head)
  /\ loop' = [loop EXCEPT !.var = Following, !.next = Saved(loop.reverse, loop.safe, Following),
                          !.seen = @ \cup {Following}]
  /\ UNCHANGED <<kind, mem, owner, content>>

LoopEnd ==
  /\ loop # NoLoop /\ Following = End(loop.head)
  /\ loop' = NoLoop
  /\ UNCHANGED <<kind, mem, owner, content>>

QueueNext ==
  \/ \E head \in Heads, elm \in Nodes : InsertHead(head, elm) \/ InsertTail(head, elm)
  \/ \E listelm, elm \in Nodes : InsertAfter(listelm, elm) \/ InsertBefore(listelm, elm)
  \/ \E elm \in Nodes : RemoveElm(elm) \/ RemoveAfter(elm)
  \/ \E head \in Heads : RemoveHead(head)
  \/ \E head1, head2 \in Heads : Concat(head1, head2)
  \/ \E head \in Heads, reverse, safe \in BOOLEAN : LoopStart(head, reverse, safe)
  \/ LoopNext \/ LoopEnd

QueueSpec == QueueInit /\ [][QueueNext]_queueVars
-----------------------------------------------------------------------------
QueueTypeOK ==
  /\ kind \in Kinds
  /\ mem \in Memory
  /\ owner \in [Nodes -> Heads \cup {NULL}]
  /\ content \in [Heads -> Seq(Nodes)]

(***************************************************************************)
(* Each list, followed from its head, is what the program has put there,   *)
(* in that order, and nothing else; followed from its end, where that can  *)
(* be done, it is the same list backwards.                                 *)
(***************************************************************************)
Chained ==
  \A h \in Heads :
    LET c == content[h] \o <<End(h)>>
        r == Seqs!Reverse(content[h]) \o <<End(h)>> IN
    /\ FirstOf(mem, h) = c[1]
    /\ \A i \in 1..Len(content[h]) : Succ(mem, c[i]) = c[i + 1]
    /\ kind \in {"STAILQ", "SIMPLEQ", "TAILQ", "CIRCLEQ"} => LastOf(mem, h) = r[1]
    /\ kind \in {"TAILQ", "CIRCLEQ"} => \A i \in 1..Len(content[h]) : Pred(mem, r[i]) = r[i + 1]
    /\ kind = "CIRCLEQ" => \A i \in 1..Len(content[h]) :
         /\ CIRCLEQ_LOOP_NEXT(mem, h, c[i]) = c[(i % Len(content[h])) + 1]
         /\ CIRCLEQ_LOOP_PREV(mem, h, r[i]) = r[(i % Len(content[h])) + 1]

(* The checks of QUEUEDEBUG, for any head and any element in a list: none  *)
(* of the kernel's panics is ever met.                                     *)
Checked ==
  /\ kind = "LIST" =>
       /\ \A h \in Heads : QUEUEDEBUG_LIST_INSERT_HEAD(mem, h)
       /\ \A e \in Nodes : owner[e] # NULL => QUEUEDEBUG_LIST_OP(mem, e)
  /\ kind = "TAILQ" =>
       /\ \A h \in Heads : QUEUEDEBUG_TAILQ_INSERT_HEAD(mem, h) /\ QUEUEDEBUG_TAILQ_INSERT_TAIL(mem, h)
       /\ \A e \in Nodes : owner[e] # NULL =>
            QUEUEDEBUG_TAILQ_OP(mem, e) /\ QUEUEDEBUG_TAILQ_PREREMOVE(mem, owner[e], e)
  /\ kind = "CIRCLEQ" =>
       /\ \A h \in Heads : QUEUEDEBUG_CIRCLEQ_HEAD(mem, h)
       /\ \A e \in Nodes : owner[e] # NULL => QUEUEDEBUG_CIRCLEQ_ELM(mem, owner[e], e)

(***************************************************************************)
(* A loop whose body changes the lists comes to every element that was     *)
(* there at its start and is not taken out before, to none twice unless it *)
(* is put back, and to none that is not in a list.                         *)
(***************************************************************************)
Visited ==
  [][/\ LoopEnd => loop.due \subseteq loop.seen
     /\ LoopNext => Following \in Nodes \ loop.seen /\ owner[Following] # NULL]_queueVars
=============================================================================
