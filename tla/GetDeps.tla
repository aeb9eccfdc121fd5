------------------------------ MODULE GetDeps -------------------------------
(***************************************************************************)
(* mkc_get_deps (scripts/mkc_get_deps.in): the libraries a project is to   *)
(* be linked with, found by a depth-first walk over LIBDEPS. The recursion *)
(* of print_all_deps is a stack here; the order of a project's             *)
(* dependencies is the order of LIBDEPS, any order here.                   *)
(***************************************************************************)
EXTENDS Naturals, Sequences

CONSTANTS
  Projects,
  Asked,        \* those that may ask for their libraries
  Graphs        \* what LIBDEPS may be: project |-> its dependencies

ASSUME GraphsAssumption ==
  Asked \subseteq Projects /\ Graphs \subseteq [Projects -> SUBSET Projects]

VARIABLES
  graph, topprj,
  processed,
  todo,         \* project |-> its dependencies that the loop has still to visit
  stack,        \* the calls of print_all_deps that go on, the last one first
  result

vars == <<graph, topprj, processed, todo, stack, result>>

Init ==
  /\ graph \in Graphs
  /\ topprj \in Asked
  /\ processed = {topprj}
  /\ todo = graph
  /\ stack = <<topprj>>
  /\ result = <<>>

Top == Head(stack)
Done == stack = <<>>

(* Mutant: processed is not looked at.                                     *)
VisitAgain(p) ==
  /\ ~Done /\ p \in todo[Top]
  /\ todo' = [todo EXCEPT ![Top] = @ \ {p}]
  /\ processed' = processed \cup {p}
  /\ stack' = <<p>> \o stack
  /\ UNCHANGED <<graph, topprj, result>>

(* Mutant: a project that is processed ends the loop.                      *)
VisitUntilProcessed(p) ==
  /\ ~Done /\ p \in todo[Top]
  /\ processed' = processed \cup {p}
  /\ IF p \in processed THEN todo' = [todo EXCEPT ![Top] = {}] /\ UNCHANGED stack
                        ELSE todo' = [todo EXCEPT ![Top] = @ \ {p}] /\ stack' = <<p>> \o stack
  /\ UNCHANGED <<graph, topprj, result>>

(* Mutant: ++i is left out for a project that is processed.                *)
VisitForever(p) ==
  /\ ~Done /\ p \in todo[Top]
  /\ processed' = processed \cup {p}
  /\ IF p \in processed THEN UNCHANGED <<todo, stack>>
                        ELSE todo' = [todo EXCEPT ![Top] = @ \ {p}] /\ stack' = <<p>> \o stack
  /\ UNCHANGED <<graph, topprj, result>>

(* print_all_deps(next_prj), which returns at once if it was processed.    *)
Visit(p) ==
  /\ ~Done /\ p \in todo[Top]
  /\ todo' = [todo EXCEPT ![Top] = @ \ {p}]
  /\ processed' = processed \cup {p}
  /\ stack' = IF p \in processed THEN stack ELSE <<p>> \o stack
  /\ UNCHANGED <<graph, topprj, result>>

(* Mutant: topprj is printed.                                              *)
ReturnAll ==
  /\ ~Done /\ todo[Top] = {}
  /\ result' = Append(result, Top)
  /\ stack' = Tail(stack)
  /\ UNCHANGED <<graph, topprj, processed, todo>>

(* Mutant: the result is printed from its beginning.                       *)
ReturnForwards ==
  /\ ~Done /\ todo[Top] = {}
  /\ result' = IF Top = topprj THEN result ELSE <<Top>> \o result
  /\ stack' = Tail(stack)
  /\ UNCHANGED <<graph, topprj, processed, todo>>

(* The loop has ended.                                                     *)
Return ==
  /\ ~Done /\ todo[Top] = {}
  /\ result' = IF Top = topprj THEN result ELSE Append(result, Top)
  /\ stack' = Tail(stack)
  /\ UNCHANGED <<graph, topprj, processed, todo>>

Next == Return \/ \E p \in Projects : Visit(p)

Spec == Init /\ [][Next]_vars
FairSpec == Spec /\ WF_vars(Next)
-----------------------------------------------------------------------------
Elements(s) == {s[n] : n \in DOMAIN s}

(* What p depends on, itself included: what is in every closed set with p. *)
Closed(S) == \A p \in S : graph[p] \subseteq S
DependsOn(p) == {q \in Projects : \A S \in SUBSET Projects : p \in S /\ Closed(S) => q \in S}

Acyclic == \A p \in Projects : \A q \in graph[p] : p \notin DependsOn(q)

TypeOK ==
  /\ graph \in Graphs /\ topprj \in Asked
  /\ processed \subseteq Projects
  /\ todo \in [Projects -> SUBSET Projects]
  /\ stack \in Seq(Projects) /\ result \in Seq(Projects \ {topprj})

(***************************************************************************)
(* A linker that reads libraries from left to right wants each before the  *)
(* ones it depends on. The result is printed backwards: in it, everything  *)
(* a library depends on comes first (unless LIBDEPS has a cycle).          *)
(***************************************************************************)
LinkOrder ==
  Acyclic => \A n \in DOMAIN result : graph[result[n]] \subseteq {result[m] : m \in 1..(n - 1)}

(* No library is printed twice, cycles or not.                             *)
Once == \A n, m \in DOMAIN result : result[n] = result[m] => n = m

(* What is printed is what the project depends on, through however many    *)
(* libraries, cycles or not.                                               *)
Complete == Done => Elements(result) = DependsOn(topprj) \ {topprj}

(* The walk ends, though LIBDEPS may have cycles.                          *)
Ends == <>Done
=============================================================================
