--------------------------- MODULE GetDepsProofs ----------------------------
(* Proofs about GetDeps for any graph over any projects.                   *)
EXTENDS GetDeps, SequenceTheorems, TLAPS

Calls == 1..Len(stack)
Results == 1..Len(result)

(* A project is at one place: a call that goes on, or a result.            *)
Apart ==
  /\ \A n, m \in Calls : stack[n] = stack[m] => n = m
  /\ \A n, m \in Results : result[n] = result[m] => n = m
  /\ \A n \in Calls, m \in Results : stack[n] # result[m]

Accounted ==
  \A p \in Projects :
    p \in processed <=> \/ p = topprj
                        \/ \E n \in Calls : stack[n] = p
                        \/ \E m \in Results : result[m] = p

TopIsLast == ~Done => stack[Len(stack)] = topprj

(* What the loop of a project has visited is processed.                    *)
Visited ==
  /\ \A p \in Projects : todo[p] \subseteq graph[p]
  /\ \A p \in processed : graph[p] \ todo[p] \subseteq processed
  /\ \A p \in Projects \ processed : todo[p] = graph[p]
  /\ \A m \in Results : todo[result[m]] = {}
  /\ Done => todo[topprj] = {}

Needed == \A S \in SUBSET Projects : topprj \in S /\ Closed(S) => processed \subseteq S

(* Who is called by another is something the other depends on.             *)
Chain == \A n, m \in Calls : n <= m => stack[n] \in DependsOn(stack[m])

Ordered ==
  Acyclic => \A n \in Results : graph[result[n]] \subseteq {result[m] : m \in 1..(n - 1)}

IInv == TypeOK /\ Apart /\ Accounted /\ TopIsLast /\ Visited /\ Needed /\ Chain /\ Ordered
-----------------------------------------------------------------------------
(* A call is put before the others.                                        *)
LEMMA PushFacts ==
  ASSUME NEW S, NEW s \in Seq(S), NEW e \in S
  PROVE  /\ <<e>> \o s \in Seq(S) /\ <<e>> \o s # <<>>
         /\ Len(<<e>> \o s) = Len(s) + 1
         /\ \A n \in 1..(Len(s) + 1) : (<<e>> \o s)[n] = IF n = 1 THEN e ELSE s[n - 1]
<1>1. <<e>> \in Seq(S) /\ Len(<<e>>) = 1 /\ <<e>>[1] = e
  OBVIOUS
<1>2. Len(s) \in Nat
  BY LenProperties
<1>3. /\ <<e>> \o s \in Seq(S)
      /\ Len(<<e>> \o s) = 1 + Len(s)
      /\ \A n \in 1..(1 + Len(s)) : (<<e>> \o s)[n] = IF n <= 1 THEN <<e>>[n] ELSE s[n - 1]
  BY <1>1, ConcatProperties
<1>4. \A n \in 1..(1 + Len(s)) : (<<e>> \o s)[n] = IF n = 1 THEN e ELSE s[n - 1]
  BY <1>1, <1>2, <1>3
<1>5. <<e>> \o s # <<>>
  BY <1>2, <1>3, EmptySeq
<1> QED BY <1>2, <1>3, <1>4, <1>5

LEMMA AppendFacts ==
  ASSUME NEW S, NEW s \in Seq(S), NEW e \in S
  PROVE  /\ Append(s, e) \in Seq(S)
         /\ Len(Append(s, e)) = Len(s) + 1
         /\ \A n \in 1..(Len(s) + 1) :
              Append(s, e)[n] = IF n = Len(s) + 1 THEN e ELSE s[n]
OBVIOUS

LEMMA TopFacts ==
  ASSUME TypeOK, ~Done
  PROVE  /\ Top \in Projects /\ Top = stack[1] /\ Len(stack) \in Nat \ {0} /\ 1 \in Calls
         /\ Tail(stack) \in Seq(Projects) /\ Len(Tail(stack)) = Len(stack) - 1
         /\ \A n \in 1..(Len(stack) - 1) : Tail(stack)[n] = stack[n + 1]
<1>1. stack \in Seq(Projects) /\ stack # <<>>
  BY DEF TypeOK, Done
<1>2. Len(stack) \in Nat \ {0}
  BY <1>1, EmptySeq
<1>3. Head(stack) = stack[1]
  BY <1>1
<1> QED BY <1>1, <1>2, <1>3, HeadTailProperties DEF Top, Calls

LEMMA SameGraph ==
  ASSUME graph' = graph
  PROVE  /\ \A p : DependsOn(p)' = DependsOn(p)
         /\ \A S : Closed(S)' = Closed(S)
         /\ Acyclic' <=> Acyclic
<1>1. \A S : Closed(S)' = Closed(S)
  BY DEF Closed
<1>2. \A p : DependsOn(p)' = DependsOn(p)
  BY DEF DependsOn, Closed
<1>3. Acyclic' <=> Acyclic
  BY DEF Acyclic, DependsOn, Closed
<1> QED BY <1>1, <1>2, <1>3

LEMMA DependsStep ==
  ASSUME NEW p \in Projects, NEW q \in DependsOn(p), NEW r \in graph[q], r \in Projects
  PROVE  r \in DependsOn(p)
BY DEF DependsOn, Closed

LEMMA DependsSelf == \A p \in Projects : p \in DependsOn(p)
BY DEF DependsOn
-----------------------------------------------------------------------------
LEMMA InitIInv == Init => IInv
<1> SUFFICES ASSUME Init PROVE IInv
  OBVIOUS
<1>1. TypeOK /\ topprj \in Projects
  BY GraphsAssumption DEF Init, TypeOK, GraphsAssumption
<1>2. stack = <<topprj>> /\ Calls = {1} /\ stack[1] = topprj /\ Len(stack) = 1 /\ ~Done
  BY DEF Init, Calls, Done
<1>3. Results = {}
  BY DEF Init, Results
<1>4. Apart /\ Accounted /\ TopIsLast
  BY <1>1, <1>2, <1>3 DEF Init, Apart, Accounted, TopIsLast
<1>5. Visited /\ Needed
  BY <1>2, <1>3 DEF Init, Visited, Needed
<1>6. Chain
  BY <1>1, <1>2, DependsSelf DEF Chain
<1>7. Ordered
  BY <1>3 DEF Ordered
<1> QED BY <1>1, <1>4, <1>5, <1>6, <1>7 DEF IInv

LEMMA VisitType == ASSUME TypeOK, NEW p \in Projects, Visit(p) PROVE TypeOK'
<1>1. stack' \in Seq(Projects)
  BY PushFacts DEF TypeOK, Visit
<1>2. todo' \in [Projects -> SUBSET Projects] /\ processed' \subseteq Projects
  BY DEF TypeOK, Visit
<1> QED BY <1>1, <1>2 DEF TypeOK, Visit

LEMMA ReturnType == ASSUME TypeOK, Return PROVE TypeOK'
<1>1. Top \in Projects /\ Tail(stack) \in Seq(Projects)
  BY TopFacts DEF Return
<1>2. result' \in Seq(Projects \ {topprj})
  <2>1. CASE Top = topprj
    BY <2>1 DEF Return, TypeOK
  <2>2. CASE Top # topprj
    <3>1. result' = Append(result, Top) /\ Top \in Projects \ {topprj}
      BY <1>1, <2>2 DEF Return
    <3> QED BY <3>1, AppendFacts DEF TypeOK
  <2> QED BY <2>1, <2>2
<1> QED BY <1>1, <1>2 DEF TypeOK, Return
-----------------------------------------------------------------------------
LEMMA VisitInv == ASSUME IInv, NEW p \in Projects, Visit(p) PROVE IInv'
<1>1. /\ TypeOK /\ TypeOK' /\ ~Done /\ p \in todo[Top]
      /\ graph' = graph /\ topprj' = topprj /\ result' = result
      /\ processed' = processed \cup {p} /\ todo' = [todo EXCEPT ![Top] = @ \ {p}]
  BY VisitType DEF IInv, Visit
<1>2. /\ Top \in Projects /\ Top = stack[1] /\ Len(stack) \in Nat \ {0} /\ 1 \in Calls
      /\ Len(result) \in Nat
  BY <1>1, TopFacts, LenProperties DEF TypeOK
<1>3. Top \in processed /\ p \in graph[Top] /\ graph \in [Projects -> SUBSET Projects]
  <2>1. Top \in processed
    BY <1>2 DEF IInv, Accounted
  <2>2. p \in graph[Top]
    BY <1>1, <1>2 DEF IInv, Visited
  <2>3. graph \in [Projects -> SUBSET Projects]
    BY <1>1, GraphsAssumption DEF TypeOK, GraphsAssumption
  <2> QED BY <2>1, <2>2, <2>3
<1>4. Results' = Results
  BY <1>1 DEF Results
<1>5. Visited'
  <2>1. \A q \in Projects : todo'[q] = IF q = Top THEN todo[q] \ {p} ELSE todo[q]
    BY <1>1 DEF TypeOK
  <2>2. \A q \in Projects : todo'[q] \subseteq graph'[q]
    BY <1>1, <2>1 DEF IInv, Visited
  <2>3. ASSUME NEW q \in processed' PROVE graph'[q] \ todo'[q] \subseteq processed'
    <3>1. CASE q \in processed
      BY <1>1, <2>1, <3>1 DEF IInv, Visited, TypeOK
    <3>2. CASE q \notin processed
      <4>1. q = p /\ q # Top
        BY <1>1, <1>3, <3>2
      <4>2. todo'[q] = todo[q] /\ todo[q] = graph[q]
        BY <2>1, <3>2, <4>1 DEF IInv, Visited
      <4> QED BY <1>1, <4>2
    <3> QED BY <3>1, <3>2
  <2>4. \A m \in Results' : todo'[result'[m]] = {}
    BY <1>1, <1>4, <2>1, LenProperties DEF IInv, Visited, TypeOK, Results
  <2>5. ~Done'
    BY <1>1, PushFacts DEF Visit, Done, TypeOK
  <2>6. \A q \in Projects \ processed' : todo'[q] = graph'[q]
    BY <1>1, <1>3, <2>1 DEF IInv, Visited
  <2> QED BY <2>2, <2>3, <2>4, <2>5, <2>6 DEF Visited
<1>6. Needed'
  <2>1. ASSUME NEW S \in SUBSET Projects, topprj \in S, Closed(S) PROVE processed' \subseteq S
    <3>1. processed \subseteq S
      BY <2>1 DEF IInv, Needed
    <3>2. p \in S
      BY <1>2, <1>3, <2>1, <3>1 DEF Closed
    <3> QED BY <1>1, <3>1, <3>2
  <2> QED BY <1>1, <2>1, SameGraph DEF Needed
<1>7. Ordered'
  <2>1. Acyclic' => Acyclic
    BY <1>1, SameGraph
  <2> QED BY <1>1, <1>4, <2>1 DEF IInv, Ordered
<1>8. CASE p \in processed
  <2>1. stack' = stack /\ Calls' = Calls /\ processed' = processed
    BY <1>1, <1>8 DEF Visit, Calls
  <2>2. Apart' /\ Accounted' /\ TopIsLast'
    BY <1>1, <1>4, <2>1 DEF IInv, Apart, Accounted, TopIsLast, Done
  <2>3. Chain'
    BY <1>1, <2>1, SameGraph DEF IInv, Chain
  <2> QED BY <1>1, <1>5, <1>6, <1>7, <2>2, <2>3 DEF IInv
<1>9. CASE p \notin processed
  <2>1. stack' = <<p>> \o stack
    BY <1>9 DEF Visit
  <2>2. /\ Len(stack') = Len(stack) + 1 /\ Calls' = 1..(Len(stack) + 1)
        /\ \A n \in 1..(Len(stack) + 1) : stack'[n] = IF n = 1 THEN p ELSE stack[n - 1]
    BY <1>1, <2>1, PushFacts DEF Calls, TypeOK
  <2>3. \A n \in Calls' : n # 1 => n - 1 \in Calls /\ stack'[n] = stack[n - 1]
    BY <1>2, <2>2 DEF Calls
  <2>4. stack'[1] = p /\ 1 \in Calls'
    BY <1>2, <2>2
  <2>5. (\A n \in Calls : stack[n] # p) /\ (\A m \in Results : result[m] # p) /\ p # topprj
    BY <1>9 DEF IInv, Accounted
  <2>6. Apart'
    <3>1. \A n, m \in Calls' : stack'[n] = stack'[m] => n = m
      BY <1>2, <2>2, <2>3, <2>4, <2>5 DEF IInv, Apart, Calls
    <3>2. \A n, m \in Results' : result'[n] = result'[m] => n = m
      BY <1>1, <1>4 DEF IInv, Apart
    <3>3. \A n \in Calls', m \in Results' : stack'[n] # result'[m]
      BY <1>1, <1>4, <2>3, <2>4, <2>5 DEF IInv, Apart
    <3> QED BY <3>1, <3>2, <3>3 DEF Apart
  <2>7. Accounted'
    <3>1. \A n \in Calls : n + 1 \in Calls' /\ stack'[n + 1] = stack[n]
      BY <1>2, <2>2 DEF Calls
    <3>2. \A q : (\E n \in Calls' : stack'[n] = q) <=> q = p \/ \E n \in Calls : stack[n] = q
      BY <2>3, <2>4, <3>1
    <3> QED BY <1>1, <1>4, <3>2 DEF IInv, Accounted
  <2>8. TopIsLast'
    <3>1. stack'[Len(stack')] = stack[Len(stack)]
      BY <1>2, <2>2
    <3> QED BY <1>1, <3>1 DEF IInv, TopIsLast
  <2>9. Chain'
    <3>1. ASSUME NEW n \in Calls', NEW m \in Calls', n <= m
          PROVE  stack'[n] \in DependsOn(stack'[m])
      <4>1. CASE n = 1 /\ m = 1
        BY <2>4, <4>1, DependsSelf
      <4>2. CASE n = 1 /\ m # 1
        <5>1. stack'[m] = stack[m - 1] /\ m - 1 \in Calls /\ 1 <= m - 1
          BY <1>2, <2>2, <2>3, <4>2 DEF Calls
        <5>2. stack[1] \in DependsOn(stack[m - 1])
          BY <1>2, <5>1 DEF IInv, Chain
        <5>3. stack[m - 1] \in Projects
          BY <5>1, <1>1, ElementOfSeq DEF Calls, TypeOK
        <5>4. p \in DependsOn(stack[m - 1])
          BY <1>2, <1>3, <5>2, <5>3, DependsStep
        <5> QED BY <2>4, <4>2, <5>1, <5>4
      <4>3. CASE n # 1
        <5>1. m # 1 /\ n - 1 <= m - 1
          BY <1>2, <2>2, <3>1, <4>3 
        <5> QED BY <2>3, <4>3, <5>1 DEF IInv, Chain
      <4> QED BY <4>1, <4>2, <4>3
    <3> QED BY <1>1, <3>1, SameGraph DEF Chain
  <2> QED BY <1>1, <1>5, <1>6, <1>7, <2>6, <2>7, <2>8, <2>9 DEF IInv
<1> QED BY <1>8, <1>9

(* What a project that returns has visited is in the result already.       *)
LEMMA ReturnOrdered ==
  ASSUME IInv, ~Done, todo[Top] = {}, Acyclic
  PROVE  graph[Top] \subseteq {result[m] : m \in Results}
<1>1. /\ Top \in Projects /\ Top = stack[1] /\ 1 \in Calls /\ Len(stack) \in Nat \ {0}
      /\ graph \in [Projects -> SUBSET Projects]
  BY TopFacts, GraphsAssumption DEF IInv, TypeOK, GraphsAssumption
<1>2. Top \in processed
  BY <1>1 DEF IInv, Accounted
<1> SUFFICES ASSUME NEW q \in graph[Top] PROVE \E m \in Results : result[m] = q
  OBVIOUS
<1>3. q \in processed /\ q \in Projects
  BY <1>1, <1>2 DEF IInv, Visited
<1>4. Top \notin DependsOn(q)
  BY <1>1 DEF Acyclic
<1>5. \A n \in Calls : stack[n] # q
  BY <1>1, <1>4 DEF IInv, Chain, Calls
<1>6. q # topprj
  BY <1>1, <1>5 DEF IInv, TopIsLast, Calls
<1> QED BY <1>3, <1>5, <1>6 DEF IInv, Accounted

LEMMA ReturnInv == ASSUME IInv, Return PROVE IInv'
<1>1. /\ TypeOK /\ TypeOK' /\ ~Done /\ todo[Top] = {}
      /\ graph' = graph /\ topprj' = topprj /\ processed' = processed /\ todo' = todo
      /\ stack' = Tail(stack)
  BY ReturnType DEF IInv, Return
<1>2. /\ Top \in Projects /\ Top = stack[1] /\ Len(stack) \in Nat \ {0} /\ 1 \in Calls
      /\ Len(result) \in Nat
      /\ graph \in [Projects -> SUBSET Projects]
  BY <1>1, TopFacts, LenProperties, GraphsAssumption DEF TypeOK, GraphsAssumption
<1>3. /\ Len(stack') = Len(stack) - 1 /\ Calls' = 1..(Len(stack) - 1)
      /\ \A n \in Calls' : n + 1 \in Calls /\ n + 1 # 1 /\ stack'[n] = stack[n + 1]
  BY <1>1, <1>2, TopFacts DEF Calls
<1>4. Done' <=> Len(stack) = 1
  <2>1. stack' \in Seq(Projects)
    BY <1>1 DEF TypeOK
  <2>2. stack' = <<>> <=> Len(stack') = 0
    BY <2>1, EmptySeq
  <2>3. Done' <=> stack' = <<>>
    BY DEF Done
  <2> QED BY <1>2, <1>3, <2>2, <2>3
<1>5. Top = topprj <=> Len(stack) = 1
  <2>1. stack[Len(stack)] = topprj /\ Len(stack) \in Calls
    BY <1>1, <1>2 DEF IInv, TopIsLast, Calls
  <2>2. stack[1] = stack[Len(stack)] <=> 1 = Len(stack)
    BY <1>2, <2>1 DEF IInv, Apart
  <2> QED BY <1>2, <2>1, <2>2
<1>6. Needed'
  <2>1. \A S : Closed(S)' = Closed(S)
    BY <1>1, SameGraph
  <2> QED BY <1>1, <2>1 DEF IInv, Needed
<1>7. Chain'
  <2>1. \A n, m \in Calls' : n <= m => n + 1 <= m + 1
    BY <1>3
  <2>2. \A x : DependsOn(x)' = DependsOn(x)
    BY <1>1, SameGraph
  <2> QED BY <1>3, <2>1, <2>2 DEF IInv, Chain
<1>8. TopIsLast'
  <2>1. CASE Len(stack) = 1
    BY <1>4, <2>1 DEF TopIsLast
  <2>2. CASE Len(stack) # 1
    <3>1. Len(stack) - 1 \in Calls' /\ stack'[Len(stack')] = stack[Len(stack)]
      BY <1>2, <1>3, <2>2
    <3> QED BY <1>1, <3>1 DEF IInv, TopIsLast
  <2> QED BY <2>1, <2>2
<1>9. \A n \in Calls : n = 1 \/ (n - 1 \in Calls' /\ stack[n] = stack'[n - 1])
  <2> SUFFICES ASSUME NEW n \in Calls, n # 1 PROVE n - 1 \in Calls' /\ stack[n] = stack'[n - 1]
    OBVIOUS
  <2>1. n - 1 \in Calls' /\ (n - 1) + 1 = n
    BY <1>2, <1>3 DEF Calls
  <2> QED BY <1>3, <2>1
<1>10. \A x : (\E n \in Calls : stack[n] = x) <=> x = Top \/ \E n \in Calls' : stack'[n] = x
  BY <1>2, <1>3, <1>9
<1>11. \A n \in Calls' : stack'[n] # Top
  BY <1>2, <1>3 DEF IInv, Apart
<1>12. \A n, m \in Calls' : stack'[n] = stack'[m] => n = m
  <2> SUFFICES ASSUME NEW n \in Calls', NEW m \in Calls', stack'[n] = stack'[m] PROVE n = m
    OBVIOUS
  <2>1. n + 1 = m + 1
    BY <1>3 DEF IInv, Apart
  <2> QED BY <1>2, <1>3, <2>1
<1>13. CASE Top = topprj
  <2>1. result' = result /\ Results' = Results
    BY <1>13 DEF Return, Results
  <2>2. Apart'
    BY <1>3, <1>12, <2>1 DEF IInv, Apart
  <2>3. Accounted'
    BY <1>1, <1>10, <1>13, <2>1 DEF IInv, Accounted
  <2>4. Visited'
    BY <1>1, <1>13, <2>1 DEF IInv, Visited
  <2>5. Ordered'
    <3>1. Acyclic' => Acyclic
      BY <1>1, SameGraph
    <3> QED BY <1>1, <2>1, <3>1 DEF IInv, Ordered
  <2> QED BY <1>1, <1>6, <1>7, <1>8, <2>2, <2>3, <2>4, <2>5 DEF IInv
<1>14. CASE Top # topprj
  <2>1. result' = Append(result, Top) /\ Top \in Projects \ {topprj} /\ result \in Seq(Projects \ {topprj})
    BY <1>1, <1>2, <1>14 DEF Return, TypeOK
  <2>2. /\ Len(result') = Len(result) + 1 /\ Results' = 1..(Len(result) + 1)
        /\ \A n \in 1..(Len(result) + 1) : result'[n] = IF n = Len(result) + 1 THEN Top ELSE result[n]
    BY <2>1, AppendFacts DEF Results
  <2>3. \A n \in Results' : n = Len(result) + 1 \/ (n \in Results /\ result'[n] = result[n])
    BY <1>2, <2>2 DEF Results
  <2>4. Len(result) + 1 \in Results' /\ result'[Len(result) + 1] = Top
    BY <1>2, <2>2
  <2>5. \A n \in Results : n \in Results' /\ result'[n] = result[n] /\ result[n] # Top
    <3>1. \A n \in Results : n \in Results' /\ result'[n] = result[n]
      BY <1>2, <2>2 DEF Results
    <3>2. \A n \in Results : result[n] # Top
      BY <1>2 DEF IInv, Apart
    <3> QED BY <3>1, <3>2
  <2>6. Apart'
    <3>1. \A n, m \in Results' : result'[n] = result'[m] => n = m
      BY <2>3, <2>4, <2>5 DEF IInv, Apart
    <3>2. \A n \in Calls', m \in Results' : stack'[n] # result'[m]
      BY <1>3, <1>11, <2>3, <2>4 DEF IInv, Apart
    <3> QED BY <1>12, <3>1, <3>2 DEF Apart
  <2>7. Accounted'
    <3>1. \A x : (\E m \in Results' : result'[m] = x) <=> x = Top \/ \E m \in Results : result[m] = x
      BY <2>3, <2>4, <2>5
    <3> QED BY <1>1, <1>10, <3>1 DEF IInv, Accounted
  <2>8. Visited'
    <3>1. \A m \in Results' : todo'[result'[m]] = {}
      BY <1>1, <2>3, <2>4 DEF IInv, Visited
    <3>2. ~Done'
      BY <1>4, <1>5, <1>14
    <3> QED BY <1>1, <3>1, <3>2 DEF IInv, Visited
  <2>9. Ordered'
    <3>1. SUFFICES ASSUME Acyclic, NEW n \in Results'
                   PROVE  graph[result'[n]] \subseteq {result'[m] : m \in 1..(n - 1)}
      <4>1. Acyclic' => Acyclic
        BY <1>1, SameGraph
      <4> QED BY <1>1, <4>1 DEF Ordered
    <3>2. CASE n \in Results /\ result'[n] = result[n]
      <4>1. graph[result[n]] \subseteq {result[m] : m \in 1..(n - 1)}
        BY <3>1, <3>2 DEF IInv, Ordered
      <4>2. \A m \in 1..(n - 1) : result'[m] = result[m]
        BY <1>2, <2>5, <3>2 DEF Results
      <4> QED BY <3>2, <4>1, <4>2
    <3>3. CASE n = Len(result) + 1
      <4>1. graph[Top] \subseteq {result[m] : m \in Results}
        BY <1>1, <3>1, ReturnOrdered
      <4>2. 1..(n - 1) = Results
        BY <1>2, <3>3 DEF Results
      <4> QED BY <2>4, <2>5, <3>3, <4>1, <4>2
    <3> QED BY <2>3, <3>2, <3>3
  <2> QED BY <1>1, <1>6, <1>7, <1>8, <2>6, <2>7, <2>8, <2>9 DEF IInv
<1> QED BY <1>13, <1>14

LEMMA InductiveInvariant == Spec => []IInv
<1>1. Init => IInv
  BY InitIInv
<1>2. IInv /\ [Next]_vars => IInv'
  <2> SUFFICES ASSUME IInv, [Next]_vars PROVE IInv'
    OBVIOUS
  <2>1. CASE Return
    BY <2>1, ReturnInv
  <2>2. ASSUME NEW p \in Projects, Visit(p) PROVE IInv'
    BY <2>2, VisitInv
  <2>3. CASE UNCHANGED vars
    <3>1. /\ graph' = graph /\ topprj' = topprj /\ processed' = processed /\ todo' = todo
          /\ stack' = stack /\ result' = result
      BY <2>3 DEF vars
    <3>2. /\ Calls' = Calls /\ Results' = Results /\ (Done' <=> Done)
      BY <3>1 DEF Calls, Results, Done
    <3>3. TypeOK' /\ Apart' /\ Accounted' /\ TopIsLast' /\ Visited'
      BY <3>1, <3>2 DEF IInv, TypeOK, Apart, Accounted, TopIsLast, Visited
    <3>4. Needed' /\ Chain'
      BY <3>1, <3>2, SameGraph DEF IInv, Needed, Chain
    <3>5. Ordered'
      <4>1. Acyclic' => Acyclic
        BY <3>1, SameGraph
      <4> QED BY <3>1, <3>2, <4>1 DEF IInv, Ordered
    <3> QED BY <3>3, <3>4, <3>5 DEF IInv
  <2> QED BY <2>1, <2>2, <2>3 DEF Next
<1> QED BY <1>1, <1>2, PTL DEF Spec

(* Types; what is printed is never the project itself (mkc_get_deps.in:19).*)
THEOREM TypeCorrect == Spec => []TypeOK
<1>1. IInv => TypeOK
  BY DEF IInv
<1> QED BY <1>1, InductiveInvariant, PTL

LEMMA ResultDomain == IInv => DOMAIN result = Results
<1>1. IInv => result \in Seq(Projects \ {topprj})
  BY DEF IInv, TypeOK
<1> QED BY <1>1, LenProperties DEF Results

(* No library is printed twice, whatever LIBDEPS is (mkc_get_deps.in:9).   *)
THEOREM OnceCorrect == Spec => []Once
<1>1. IInv => Once
  BY ResultDomain DEF IInv, Apart, Once
<1> QED BY <1>1, InductiveInvariant, PTL

(* Read backwards, as it is printed, the result has every library before   *)
(* those it depends on (mkc_get_deps.in:14-20, 40).                        *)
THEOREM LinkOrderCorrect == Spec => []LinkOrder
<1>1. IInv => LinkOrder
  BY ResultDomain DEF IInv, Ordered, LinkOrder
<1> QED BY <1>1, InductiveInvariant, PTL

(* What is printed is all the project depends on, and nothing else.        *)
THEOREM CompleteCorrect == Spec => []Complete
<1>1. IInv => Complete
  <2> SUFFICES ASSUME IInv, Done PROVE Elements(result) = DependsOn(topprj) \ {topprj}
    BY DEF Complete
  <2>1. Calls = {}
    BY DEF Done, Calls
  <2>2. /\ topprj \in processed /\ processed \subseteq Projects
    BY GraphsAssumption DEF IInv, Accounted, TypeOK, GraphsAssumption
  <2>3. Elements(result) = processed \ {topprj}
    <3>1. \A m \in Results : result[m] \in Projects \ {topprj}
      BY ElementOfSeq DEF IInv, TypeOK, Results
    <3> QED BY <2>1, <2>2, <3>1, ResultDomain DEF IInv, Accounted, Elements
  <2>4. Closed(processed)
    <3>1. \A p \in processed : todo[p] = {}
      BY <2>1, <2>2 DEF IInv, Visited, Accounted
    <3> QED BY <3>1 DEF IInv, Visited, Closed
  <2>5. DependsOn(topprj) \subseteq processed
    BY <2>2, <2>4 DEF DependsOn
  <2>6. processed \subseteq DependsOn(topprj)
    BY <2>2 DEF IInv, Needed, DependsOn
  <2> QED BY <2>3, <2>5, <2>6
<1> QED BY <1>1, InductiveInvariant, PTL
=============================================================================
