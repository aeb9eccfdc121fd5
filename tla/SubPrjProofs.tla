---------------------------- MODULE SubPrjProofs ----------------------------
(***************************************************************************)
(* Proofs about SubPrj, for any projects, graphs, patterns and number of   *)
(* jobs.                                                                   *)
(***************************************************************************)
EXTENDS SubPrj, NaturalsLemmas, FiniteSetTheorems, TLAPS

States == {"unmade", "making", "made", "error"}
Begun == {"making", "made", "error"}

(* What has begun was wanted, and all its sources are made.                *)
Local ==
  \A n \in Nodes : state[n] \in Begun =>
    n \in wanted /\ \A m \in Prerequisites(n) : m \in Nodes /\ state[m] = "made"

(* No edge leads to what is left out.                                      *)
Uninvited ==
  goal # None => \A t \in Targets, d \in Dirs : Dep(t, d) \in wanted => goal = Dep(t, d) \/ ~LeftOut(t, d)

IInv == TypeOK /\ IsFiniteSet(In("making")) /\ Local /\ Uninvited

LEMMA DepNode ==
  ASSUME NEW t \in Targets, NEW d \in Dirs
  PROVE  Dep(t, d) \in Nodes
  BY DEF Dep, Nodes

LEMMA NoneNoNode == None \notin Nodes
  BY DEF None, Nodes, TargetOf, Project

(* The invariants hold at the start.                                       *)
LEMMA InitInv == Init => IInv
<1> SUFFICES ASSUME Init PROVE IInv  OBVIOUS
<1>1. In("making") = {}  BY DEF Init, In
<1>2. IsFiniteSet(In("making")) /\ Cardinality(In("making")) = 0  BY <1>1, FS_EmptySet
<1>3. TypeOK
  <2>1. Cardinality(In("making")) <= Jobs  BY <1>2, SubPrjAssumption
  <2>2. state \in [Nodes -> {"unmade", "making", "made", "error"}]  BY DEF Init
  <2> QED  BY <2>1, <2>2 DEF Init, TypeOK
<1>4. Local  BY DEF Init, Local, Begun
<1>5. Uninvited  BY DEF Init, Uninvited
<1> QED  BY <1>2, <1>3, <1>4, <1>5 DEF IInv

(* What is wanted is the goal or comes along an edge that is not cut.      *)
LEMMA WantedUninvited ==
  ASSUME NEW g \in Nodes
  PROVE  /\ Reached(g) \subseteq Nodes
         /\ \A t \in Targets, d \in Dirs : Dep(t, d) \in Reached(g) => g = Dep(t, d) \/ ~LeftOut(t, d)
<1>1. Reached(g) \subseteq Nodes  BY DEF Reached
<1>2. ASSUME NEW t \in Targets, NEW d \in Dirs, Dep(t, d) \in Reached(g), g # Dep(t, d)
      PROVE  ~LeftOut(t, d)
  <2>1. PICK n : Dep(t, d) \in Prerequisites(n)  BY <1>2 DEF Reached
  <2>2. ~Cut(Dep(t, d), n)  BY <2>1 DEF Prerequisites
  <2> QED  BY <2>2 DEF Cut, LeftOut, Dep
<1> QED  BY <1>1, <1>2

(* Once something is made, it stays so until the next goal; a step begins  *)
(* with one node.                                                          *)
LEMMA NodeStep ==
  ASSUME IInv, NEW n \in wanted, NEW s \in States,
         state[n] \in {"unmade", "making"}, s \in Begun,
         state' = [state EXCEPT ![n] = s],
         UNCHANGED <<pairs, goal, keepGoing, wanted>>,
         \A m \in Prerequisites(n) : m \in Nodes /\ state[m] = "made",
         Cardinality(In("making")') <= Jobs, IsFiniteSet(In("making")')
  PROVE  IInv'
<1>0. n \in Nodes  BY DEF IInv, TypeOK
<1>1. TypeOK'
  BY DEF IInv, TypeOK, States
<1>2. Local'
  <2>0. \A x : Prerequisites(x)' = Prerequisites(x)  BY DEF Prerequisites, Linked, Cut
  <2> SUFFICES ASSUME NEW x \in Nodes, state'[x] \in Begun
               PROVE  x \in wanted' /\ \A m \in Prerequisites(x) : m \in Nodes /\ state'[m] = "made"
    BY <2>0 DEF Local
  <2>1. \A m \in Nodes : state[m] = "made" => state'[m] = "made"  BY DEF IInv, TypeOK
  <2>2. CASE x = n  BY <2>1, <2>2
  <2>3. CASE x # n
    <3>1. state[x] \in Begun  BY <2>3 DEF IInv, TypeOK
    <3> QED  BY <3>1, <2>1 DEF IInv, Local
  <2> QED  BY <2>2, <2>3
<1>3. Uninvited'  BY DEF IInv, Uninvited, LeftOut, Listed
<1> QED  BY <1>1, <1>2, <1>3 DEF IInv

LEMMA AskInv == IInv /\ (\E g \in Goals : Ask(g)) => IInv'
<1> SUFFICES ASSUME IInv, NEW g \in Goals, Ask(g) PROVE IInv'  OBVIOUS
<1>0. g \in Nodes  BY SubPrjAssumption
<1>1. In("making")' = {}  BY <1>0, WantedUninvited DEF Ask, In
<1>2. IsFiniteSet(In("making")') /\ Cardinality(In("making")') = 0  BY <1>1, FS_EmptySet
<1>3. TypeOK'
  <2>1. Cardinality(In("making")') <= Jobs  BY <1>2, SubPrjAssumption
  <2>2. state' \in [Nodes -> {"unmade", "making", "made", "error"}]  BY DEF Ask
  <2>3. wanted' \subseteq Nodes  BY <1>0, WantedUninvited DEF Ask
  <2> QED  BY <2>1, <2>2, <2>3 DEF IInv, Ask, TypeOK
<1>4. Local'  BY DEF Ask, Local, Begun
<1>5. Uninvited'
  <2>1. \A t, d : LeftOut(t, d)' <=> LeftOut(t, d)  BY DEF LeftOut, Listed
  <2> QED  BY <1>0, <2>1, WantedUninvited DEF Ask, Uninvited
<1> QED  BY <1>2, <1>3, <1>4, <1>5 DEF IInv

(* What a node that can be made waits for is made.                         *)
LEMMA CanMakeFacts ==
  ASSUME IInv, NEW n \in wanted, CanMake(n)
  PROVE  state[n] = "unmade" /\ \A m \in Prerequisites(n) : m \in Nodes /\ state[m] = "made"
  BY DEF IInv, TypeOK, CanMake, In

LEMMA EnterInv == ASSUME IInv, NEW n \in wanted, Enter(n) PROVE IInv'
<1>1. n \in Nodes /\ state \in [Nodes -> States]  BY DEF IInv, TypeOK, States
<1>2. CanMake(n) /\ state' = [state EXCEPT ![n] = "making"] /\ UNCHANGED <<pairs, goal, keepGoing, wanted>>
  BY DEF Enter
<1>3. In("making")' = In("making") \cup {n}  BY <1>1, <1>2 DEF In
<1>4. state[n] = "unmade" /\ n \notin In("making")  BY <1>2, CanMakeFacts DEF In
<1>5. IsFiniteSet(In("making")') /\ Cardinality(In("making")') = Cardinality(In("making")) + 1
  BY <1>3, <1>4, FS_AddElement DEF IInv
<1>6. Cardinality(In("making")) \in Nat  BY FS_CardinalityType DEF IInv
<1>7. Cardinality(In("making")') <= Jobs  BY <1>5, <1>6, SubPrjAssumption DEF Enter
<1> QED  BY <1>2, <1>4, <1>5, <1>7, CanMakeFacts, NodeStep DEF States, Begun

LEMMA PassInv == ASSUME IInv, NEW n \in wanted, Pass(n) PROVE IInv'
<1>1. n \in Nodes /\ state \in [Nodes -> States]  BY DEF IInv, TypeOK, States
<1>2. CanMake(n) /\ state' = [state EXCEPT ![n] = "made"] /\ UNCHANGED <<pairs, goal, keepGoing, wanted>>
  BY DEF Pass
<1>3. state[n] = "unmade"  BY <1>2, CanMakeFacts
<1>4. In("making")' = In("making")  BY <1>1, <1>2, <1>3 DEF In
<1>5. IsFiniteSet(In("making")') /\ Cardinality(In("making")') <= Jobs  BY <1>4 DEF IInv, TypeOK
<1> QED  BY <1>2, <1>3, <1>5, CanMakeFacts, NodeStep DEF States, Begun

LEMMA LeaveInv == ASSUME IInv, NEW n \in wanted, Leave(n) PROVE IInv'
<1>1. n \in Nodes /\ state \in [Nodes -> States]  BY DEF IInv, TypeOK, States
<1>2. PICK s \in {"made", "error"} : state' = [state EXCEPT ![n] = s]  BY DEF Leave
<1>3. state[n] = "making" /\ UNCHANGED <<pairs, goal, keepGoing, wanted>>  BY DEF Leave, In
<1>4. In("making")' = In("making") \ {n}  BY <1>1, <1>2, <1>3 DEF In
<1>5. IsFiniteSet(In("making")')
  <2>1. IsFiniteSet(In("making"))  BY DEF IInv
  <2> QED  BY <1>4, <2>1, FS_RemoveElement
<1>6. Cardinality(In("making")') = Cardinality(In("making")) - 1
  <2>1. n \in In("making")  BY <1>3 DEF In
  <2>2. IsFiniteSet(In("making"))  BY DEF IInv
  <2> QED  BY <1>4, <2>1, <2>2, FS_RemoveElement
<1>7. Cardinality(In("making")') <= Jobs
  <2>1. Cardinality(In("making")) \in Nat  BY FS_CardinalityType DEF IInv
  <2> QED  BY <1>6, <2>1, SubPrjAssumption DEF IInv, TypeOK
<1>8. \A m \in Prerequisites(n) : m \in Nodes /\ state[m] = "made"
  BY <1>1, <1>3 DEF IInv, Local, Begun
<1> QED  BY <1>2, <1>3, <1>5, <1>7, <1>8, NodeStep DEF States, Begun

LEMMA QuitInv == IInv /\ (Quit \/ UNCHANGED vars) => IInv'
<1> SUFFICES ASSUME IInv, UNCHANGED <<pairs, keepGoing, wanted, state>>, goal' \in {goal, None} PROVE IInv'
  BY DEF Quit, vars
<1>1. In("making")' = In("making")  BY DEF In
<1>2. TypeOK' /\ IsFiniteSet(In("making")')  BY <1>1 DEF IInv, TypeOK
<1>3. Local'
  <2>1. \A n : Prerequisites(n)' = Prerequisites(n)  BY DEF Prerequisites, Linked, Cut
  <2> QED  BY <2>1 DEF IInv, Local
<1>4. Uninvited'  BY DEF IInv, Uninvited, LeftOut, Listed
<1> QED  BY <1>2, <1>3, <1>4 DEF IInv

(* Every step preserves the invariants.                                    *)
LEMMA StepInv == IInv /\ [Next]_vars => IInv'
  BY AskInv, EnterInv, PassInv, LeaveInv, QuitInv DEF Next, MakeStep

LEMMA SpecInv == Spec => []IInv
  BY InitInv, StepInv, PTL DEF Spec

(* The variables keep their types, and no more than Jobs makes run at once. *)
THEOREM TypeCorrect == Spec => []TypeOK
<1>1. IInv => TypeOK  BY DEF IInv
<1> QED  BY <1>1, SpecInv, PTL

(***************************************************************************)
(* What has begun has its direct sources made; so the made projects and d  *)
(* are a closed set, and all that d depends on is in it.                   *)
(***************************************************************************)
LEMMA InvOrdered == IInv => Ordered
<1> SUFFICES ASSUME IInv, NEW t \in Targets, NEW d \in Dirs, state[Dep(t, d)] \in Begun,
                    NEW e \in DependsOn(t, d) \ {d}
             PROVE  state[Dep(t, e)] = "made"
  BY DEF Ordered, Begun
<1> DEFINE D == {x \in Dirs : state[Dep(t, x)] = "made"} \cup {d}
<1>1. ASSUME NEW p \in pairs, p[2] \in D
      PROVE  \/ p[1] \in D \/ LeftOut(t, p[1]) \/ Listed(p[2], NoSubdir)
             \/ <<Dep(t, p[1]), Dep(t, p[2])>> \in NoDeps
  <2>1. p \in Dirs \X Dirs  BY SubPrjAssumption DEF IInv, TypeOK
  <2>2. p[1] \in Dirs /\ p[2] \in Dirs  BY <2>1
  <2>3. state[Dep(t, p[2])] \in Begun  BY <1>1 DEF Begun
  <2>4. Dep(t, p[1]) \in Linked(Dep(t, p[2]))  BY DEF Linked, Dep
  <2>5. SUFFICES ASSUME ~LeftOut(t, p[1]), ~Listed(p[2], NoSubdir), <<Dep(t, p[1]), Dep(t, p[2])>> \notin NoDeps
                 PROVE  p[1] \in D
    OBVIOUS
  <2>6. ~Cut(Dep(t, p[1]), Dep(t, p[2]))  BY <2>5 DEF Cut, LeftOut, Dep
  <2>7. state[Dep(t, p[1])] = "made"
    BY <2>2, <2>3, <2>4, <2>6, DepNode DEF Prerequisites, IInv, Local
  <2> QED  BY <2>2, <2>7
<1>2. Closed(t, D)  BY <1>1 DEF Closed
<1>3. e \in D  BY <1>2 DEF DependsOn
<1> QED  BY <1>3

(* A subproject is entered only when all it depends on has been made.      *)
THEOREM OrderedCorrect == Spec => []Ordered
  BY SpecInv, InvOrdered, PTL

(* What NOSUBDIR and INTERNALLIBS leave out is never made, unless it was   *)
(* asked for by name.                                                      *)
THEOREM ExcludedCorrect == Spec => []Excluded
<1>1. IInv => Excluded
  <2> SUFFICES ASSUME IInv, goal # None, NEW t \in Targets, NEW d \in Dirs, LeftOut(t, d),
                      state[Dep(t, d)] # "unmade"
               PROVE  goal = Dep(t, d)
    BY DEF Excluded
  <2>1. state[Dep(t, d)] \in Begun  BY DepNode DEF IInv, TypeOK, Begun
  <2>2. Dep(t, d) \in wanted  BY <2>1, DepNode DEF IInv, Local
  <2> QED  BY <2>2 DEF IInv, Uninvited
<1> QED  BY <1>1, SpecInv, PTL
-----------------------------------------------------------------------------
(* Complete: what is wanted is closed under prerequisites, so the one that *)
(* is first along the pairs and the .WAITs can always be made.             *)

LEMMA NodeShape ==
  ASSUME NEW n \in Nodes, n[1] = "dep"
  PROVE  n[2] \in Targets /\ n[3] \in Dirs /\ n = Dep(n[2], n[3])
<1>1. ASSUME NEW t \in Targets, n = TargetOf(t) PROVE FALSE
  BY <1>1 DEF TargetOf
<1>2. ASSUME NEW d \in Dirs, n = Project(d) PROVE FALSE
  BY <1>2 DEF Project
<1>3. n \in {"dep", "nodeps", "subdir"} \X Targets \X Dirs
  BY <1>1, <1>2 DEF Nodes
<1> QED BY <1>3 DEF Dep

(* All prerequisites are nodes ${targ}-${dir}.                             *)
LEMMA PrerequisiteType ==
  ASSUME TypeOK, "all" \in Targets, NEW n \in Nodes, NEW m \in Prerequisites(n)
  PROVE  m \in Nodes /\ \E t \in Targets, d \in Dirs : m = Dep(t, d)
<1>1. m \in Linked(n)
  BY DEF Prerequisites
<1>2. \A p \in pairs : p[1] \in Dirs /\ p[2] \in Dirs
  BY SubPrjAssumption DEF TypeOK
<1>3. CASE n[1] = "target"
  <2>1. PICK t \in Targets : n = TargetOf(t)
    <3>1. ASSUME NEW d \in Dirs, n = Project(d) PROVE FALSE
      BY <1>3, <3>1 DEF Project
    <3> QED BY <1>3, <3>1 DEF Nodes
  <2>2. n[2] = t
    BY <2>1 DEF TargetOf
  <2>3. PICK d \in Defaults : m = Dep(t, d)
    BY <1>1, <1>3, <2>2 DEF Linked
  <2>4. d \in Dirs
    BY SubPrjAssumption DEF Defaults
  <2> QED BY <2>3, <2>4, DepNode
<1>4. CASE n[1] = "dep"
  <2>1. n[2] \in Targets
    BY <1>4, NodeShape
  <2>2. PICK p \in pairs : m = Dep(n[2], p[1])
    BY <1>1, <1>4 DEF Linked
  <2> QED BY <1>2, <2>1, <2>2, DepNode
<1>5. CASE n[1] = "project"
  <2>1. PICK d \in Dirs : n = Project(d)
    <3>1. ASSUME NEW t \in Targets, n = TargetOf(t) PROVE FALSE
      BY <1>5, <3>1 DEF TargetOf
    <3> QED BY <1>5, <3>1 DEF Nodes
  <2>2. n[2] = d
    BY <2>1 DEF Project
  <2>3. m = Dep("all", d)
    BY <1>1, <1>5, <2>2 DEF Linked
  <2> QED BY <2>3, DepNode
<1>6. n[1] \in {"target", "dep", "project"}
  BY <1>1 DEF Linked
<1> QED BY <1>3, <1>4, <1>5, <1>6

(* The target that everything below a goal is made for.                    *)
Below(g) == IF g[1] = "project" THEN "all" ELSE g[2]
Around(g) == {g} \cup {Dep(Below(g), d) : d \in Dirs}

LEMMA PrerequisitesBelow ==
  ASSUME TypeOK, "all" \in Targets, NEW g \in Nodes, NEW n \in Around(g)
  PROVE  n \in Nodes /\ Prerequisites(n) \subseteq Around(g)
<1>1. CASE n = g
  <2>1. ASSUME NEW m \in Prerequisites(g) PROVE m \in Around(g)
    <3>1. PICK t \in Targets, d \in Dirs : m = Dep(t, d)
      BY <2>1, PrerequisiteType
    <3>2. m \in Linked(g) /\ m[2] = t /\ m[3] = d
      BY <2>1, <3>1 DEF Prerequisites, Dep
    <3>3. t = Below(g)
      BY <3>2 DEF Linked, Below, Dep
    <3> QED BY <3>1, <3>3 DEF Around
  <2> QED BY <1>1, <2>1
<1>2. CASE n # g
  <2>1. PICK d \in Dirs : n = Dep(Below(g), d)
    BY <1>2 DEF Around
  <2>0. n[1] = "dep" /\ n[2] = Below(g) /\ n[3] = d
    BY <2>1 DEF Dep
  <2>2. g[1] = "project" \/ g \notin {Project(e) : e \in Dirs}
    BY DEF Project
  <2>3. Below(g) \in Targets
    <3>1. CASE g[1] = "project"
      BY <3>1 DEF Below
    <3>2. CASE g[1] # "project"
      <4>1. \/ \E t \in Targets : g = TargetOf(t)
            \/ g \in {"dep", "nodeps", "subdir"} \X Targets \X Dirs
        BY <2>2, <3>2 DEF Nodes
      <4>2. g[2] \in Targets
        BY <4>1 DEF TargetOf
      <4> QED BY <3>2, <4>2 DEF Below
    <3> QED BY <3>1, <3>2
  <2>4. n \in Nodes
    BY <2>1, <2>3, DepNode
  <2>5. ASSUME NEW m \in Prerequisites(n) PROVE m \in Around(g)
    <3>1. PICK t \in Targets, e \in Dirs : m = Dep(t, e)
      BY <2>4, <2>5, PrerequisiteType
    <3>2. m \in Linked(n) /\ m[2] = t /\ m[3] = e
      BY <2>5, <3>1 DEF Prerequisites, Dep
    <3>3. t = Below(g)
      BY <2>0, <3>2 DEF Linked, Dep
    <3> QED BY <3>1, <3>3 DEF Around
  <2> QED BY <2>4, <2>5
<1> QED BY <1>1, <1>2

LEMMA AroundFinite ==
  ASSUME IsFiniteSet(Dirs), NEW g
  PROVE  IsFiniteSet(Around(g)) /\ Cardinality(Around(g)) <= Cardinality(Dirs) + 1
<1> DEFINE S == {Dep(Below(g), d) : d \in Dirs}
           f == [d \in Dirs |-> Dep(Below(g), d)]
<1>1. f \in Surjection(Dirs, S)
  BY DEF Surjection
<1>2. IsFiniteSet(S) /\ Cardinality(S) <= Cardinality(Dirs)
  BY <1>1, FS_Surjection
<1>3. Around(g) = S \cup {g}
  BY DEF Around
<1>4. Cardinality(S) \in Nat /\ Cardinality(Dirs) \in Nat
  BY <1>2, FS_CardinalityType
<1> HIDE DEF S
<1>5. /\ IsFiniteSet(S \cup {g})
      /\ Cardinality(S \cup {g}) = IF g \in S THEN Cardinality(S) ELSE Cardinality(S) + 1
  BY <1>2, FS_AddElement, Zenon
<1>6. Cardinality(S \cup {g}) <= Cardinality(Dirs) + 1
  BY ONLY <1>2, <1>4, <1>5
<1> QED BY <1>3, <1>5, <1>6

(* What make has found in each of its rounds; after as many rounds as there *)
(* are projects it has found everything.                                   *)
LEMMA ReachedClosed ==
  ASSUME TypeOK, "all" \in Targets, IsFiniteSet(Dirs), NEW g \in Nodes, NEW n \in Reached(g)
  PROVE  Prerequisites(n) \subseteq Reached(g)
<1> DEFINE N == Cardinality(Dirs)
           Step(X) == UNION {{x} \cup Prerequisites(x) : x \in X}
           step == [X \in SUBSET Nodes |-> Step(X)]
<1>1. N \in Nat
  BY FS_CardinalityType
<1>2. \A x \in Nodes : Prerequisites(x) \subseteq Nodes
  BY PrerequisiteType
<1>3. step \in [SUBSET Nodes -> SUBSET Nodes]
  BY <1>2
<1>4. {g} \in SUBSET Nodes
  OBVIOUS
<1> HIDE DEF step, N
<1>5. PICK f \in [0..N -> SUBSET Nodes] : f[0] = {g} /\ \A k \in 1..N : f[k] = step[f[k - 1]]
  <2> DEFINE S == SUBSET Nodes
             z == {g}
  <2>1. z \in S /\ step \in [S -> S]
    BY <1>3, <1>4
  <2> HIDE DEF S, z
  <2>2. \E f : Iterated(f, S, z, step, N)
    BY <1>1, <2>1, Iterates
  <2> QED BY <2>2 DEF Iterated, S, z
<1> USE DEF step
<1>6. f = [k \in 0..N |-> IF k = 0 THEN {g} ELSE UNION {{x} \cup Prerequisites(x) : x \in f[k - 1]}]
  <2>1. \A k \in 0..N : k # 0 => k \in 1..N /\ k - 1 \in 0..N
    BY <1>1
  <2>2. \A k \in 1..N : f[k] = Step(f[k - 1])
    <3>1. ASSUME NEW k \in 1..N PROVE step[f[k - 1]] = Step(f[k - 1])
      <4>1. f[k - 1] \in SUBSET Nodes
        BY <1>1, <1>5
      <4> QED BY <4>1
    <3> QED BY <1>5, <3>1
  <2>3. \A k \in 0..N : f[k] = IF k = 0 THEN {g} ELSE UNION {{x} \cup Prerequisites(x) : x \in f[k - 1]}
    BY <1>5, <2>1, <2>2
  <2> QED BY <1>5, <2>3
<1> DEFINE r == CHOOSE h : h = [k \in 0..N |-> IF k = 0 THEN {g} ELSE UNION {{x} \cup Prerequisites(x) : x \in h[k - 1]}]
<1>7. r = [k \in 0..N |-> IF k = 0 THEN {g} ELSE UNION {{x} \cup Prerequisites(x) : x \in r[k - 1]}]
  BY <1>6, Zenon
<1>8. Reached(g) = {g} \cup (Nodes \cap UNION {Prerequisites(x) : x \in r[N]})
  BY Zenon DEF Reached, N
<1> HIDE DEF r
<1>9. r[0] = {g} /\ \A k \in 0..N - 1 : r[k + 1] = Step(r[k])
  <2>1. 0 \in 0..N /\ \A k \in 0..N - 1 : k + 1 \in 0..N /\ k + 1 # 0 /\ k + 1 - 1 = k
    BY <1>1
  <2>2. \A k \in 0..N : r[k] = IF k = 0 THEN {g} ELSE UNION {{x} \cup Prerequisites(x) : x \in r[k - 1]}
    BY <1>7, Zenon
  <2>3. r[0] = {g}
    BY <2>1, <2>2
  <2>4. ASSUME NEW k \in 0..N - 1 PROVE r[k + 1] = Step(r[k])
    <3>1. k + 1 \in 0..N /\ k + 1 # 0 /\ k + 1 - 1 = k
      BY <2>1
    <3>2. \A j \in 0..N : j # 0 => r[j] = Step(r[j - 1])
      BY <2>2
    <3> HIDE DEF Step
    <3> QED BY <3>1, <3>2
  <2> QED BY <2>3, <2>4
<1> DEFINE Closing(X) == \A x \in X : Prerequisites(x) \subseteq X
           P == {k \in Nat : k <= N => /\ g \in r[k] /\ r[k] \subseteq Around(g)
                                       /\ Closing(r[k]) \/ Cardinality(r[k]) >= k + 1}
<1>10. 0 \in P
  <2>1. Cardinality(r[0]) = 1
    BY <1>9, FS_Singleton
  <2>2. g \in r[0] /\ r[0] \subseteq Around(g)
    BY <1>9 DEF Around
  <2>3. Cardinality(r[0]) >= 0 + 1
    BY <2>1
  <2> HIDE DEF Closing
  <2> QED BY <2>2, <2>3
<1>11. ASSUME NEW k \in Nat, k \in P PROVE k + 1 \in P
  <2> SUFFICES ASSUME k + 1 <= N
               PROVE  /\ g \in r[k + 1] /\ r[k + 1] \subseteq Around(g)
                      /\ Closing(r[k + 1]) \/ Cardinality(r[k + 1]) >= k + 2
    BY DEF P
  <2>1. /\ r[k + 1] = Step(r[k]) /\ g \in r[k] /\ r[k] \subseteq Around(g)
        /\ Closing(r[k]) \/ Cardinality(r[k]) >= k + 1
    BY <1>1, <1>9, <1>11
  <2>2. r[k] \subseteq r[k + 1] /\ r[k + 1] \subseteq Around(g)
    BY <2>1, PrerequisitesBelow
  <2>3. CASE Closing(r[k])
    <3>1. r[k + 1] = r[k]
      BY <2>1, <2>3
    <3> QED BY <2>1, <2>3, <3>1
  <2>4. CASE ~Closing(r[k]) /\ Cardinality(r[k]) >= k + 1
    <3>1. r[k + 1] # r[k]
      BY <2>1, <2>4
    <3>2. IsFiniteSet(r[k + 1])
      BY <2>2, AroundFinite, FS_Subset
    <3>3. IsFiniteSet(r[k]) /\ Cardinality(r[k]) <= Cardinality(r[k + 1]) /\ Cardinality(r[k + 1]) # Cardinality(r[k])
      BY <2>2, <3>1, <3>2, FS_Subset
    <3>4. Cardinality(r[k]) \in Nat /\ Cardinality(r[k + 1]) \in Nat
      BY <3>2, <3>3, FS_CardinalityType
    <3>5. Cardinality(r[k + 1]) >= k + 2
      BY <2>4, <3>3, <3>4
    <3> QED BY <2>1, <2>2, <3>5
  <2> QED BY <2>1, <2>3, <2>4
<1> HIDE DEF P
<1>12. N \in P
  BY <1>1, <1>10, <1>11, InductionOnSet, Zenon
<1>13. g \in r[N] /\ r[N] \subseteq Around(g) /\ (Closing(r[N]) \/ Cardinality(r[N]) >= N + 1)
  BY <1>1, <1>12 DEF P
<1>14. Closing(r[N])
  <2> SUFFICES ASSUME Cardinality(r[N]) >= N + 1 PROVE Closing(r[N])
    BY <1>13
  <2>1. Cardinality(r[N]) <= Cardinality(Around(g)) /\ IsFiniteSet(r[N])
    BY <1>13, AroundFinite, FS_Subset
  <2>2. Cardinality(r[N]) \in Nat /\ Cardinality(Around(g)) \in Nat
    BY <2>1, AroundFinite, FS_CardinalityType
  <2>3. Cardinality(r[N]) = Cardinality(Around(g))
    <3>1. Cardinality(Around(g)) <= N + 1
      BY AroundFinite DEF N
    <3> QED BY <1>1, <2>1, <2>2, <3>1
  <2>4. r[N] = Around(g)
    BY <1>13, <2>3, AroundFinite, FS_Subset
  <2> QED BY <2>4, PrerequisitesBelow
<1>15. n \in r[N]
  BY <1>8, <1>13, <1>14
<1>16. n \in Nodes
  BY <1>8
<1>17. Prerequisites(n) \subseteq Nodes
  BY <1>2, <1>16
<1> QED BY <1>8, <1>15, <1>17

(* The goal is wanted, with all that stands before what is wanted.         *)
Wanted ==
  /\ goal # None => goal \in wanted
  /\ \A n \in wanted : Prerequisites(n) \subseteq wanted

LEMMA WantedStep ==
  ASSUME "all" \in Targets, IsFiniteSet(Dirs), IInv, Wanted, [Next]_vars
  PROVE  Wanted'
<1>1. ASSUME NEW g \in Goals, Ask(g) PROVE Wanted'
  <2>1. g \in Nodes /\ TypeOK
    BY SubPrjAssumption DEF IInv
  <2>2. \A n \in Reached(g) : Prerequisites(n) \subseteq Reached(g)
    BY <2>1, ReachedClosed
  <2>3. \A n : Prerequisites(n)' = Prerequisites(n)
    BY <1>1 DEF Ask, Prerequisites, Linked, Cut
  <2>4. g \in Reached(g)
    BY DEF Reached
  <2> QED BY <1>1, <2>2, <2>3, <2>4 DEF Ask, Wanted
<1>2. ASSUME UNCHANGED <<pairs, wanted>>, goal' \in {goal, None} PROVE Wanted'
  <2>1. \A n : Prerequisites(n)' = Prerequisites(n)
    BY <1>2 DEF Prerequisites, Linked, Cut
  <2> QED BY <1>2, <2>1 DEF Wanted
<1>3. ASSUME NEW n \in wanted, Enter(n) \/ Pass(n) \/ Leave(n) PROVE Wanted'
  BY <1>2, <1>3 DEF Enter, Pass, Leave
<1>4. ASSUME Quit \/ UNCHANGED vars PROVE Wanted'
  BY <1>2, <1>4 DEF Quit, vars
<1> QED BY <1>1, <1>3, <1>4 DEF Next, MakeStep

LEMMA MadeInOrder ==
  ASSUME "all" \in Targets, IsFiniteSet(Dirs), Unwound, IInv, Wanted, Over, In("error") = {}
  PROVE  \A n \in wanted : state[n] = "made"
<1>0. TypeOK /\ wanted \subseteq Nodes /\ state \in [Nodes -> States] /\ goal # None /\ pairs \in Graphs
  BY DEF IInv, TypeOK, States, Over
<1>1. PICK rank \in [Dirs -> 1..Cardinality(Dirs)] :
        /\ \A p \in pairs : rank[p[1]] < rank[p[2]]
        /\ \A i, j \in DOMAIN Default : i < j =>
             \A d \in Default[i], e \in Default[j] : rank[d] < rank[e]
  BY <1>0 DEF Unwound
<1>2. \A n \in wanted : state[n] \in {"unmade", "made"}
  BY <1>0 DEF Over, In, States
<1>3. \A d \in Dirs : rank[d] \in Nat
  BY <1>1, FS_CardinalityType
<1>4. ASSUME NEW n \in wanted, state[n] = "unmade",
             \A m \in Prerequisites(n) : state[m] = "made",
             goal[1] = "target" => \A m \in Before(goal, n) \cap wanted : state[m] = "made"
      PROVE  FALSE
  <2>1. Prerequisites(n) \subseteq In("made")
    BY <1>4 DEF Wanted, In
  <2>2. goal[1] = "target" => Before(goal, n) \cap wanted \subseteq In("made")
    BY <1>4 DEF In
  <2>3. n \in In("unmade")
    BY <1>4 DEF In
  <2>4. CanMake(n)
    BY <1>0, <2>1, <2>2, <2>3 DEF CanMake
  <2> QED BY <2>4 DEF Over
<1>5. ASSUME NEW n \in wanted, n[1] = "dep" PROVE state[n] = "made"
  <2> DEFINE U == {m \in wanted : m[1] = "dep" /\ state[m] = "unmade"}
             T == {rank[m[3]] : m \in U}
  <2>1. SUFFICES ASSUME n \in U PROVE FALSE
    BY <1>2, <1>5
  <2>2. \A m \in U : m[2] \in Targets /\ m[3] \in Dirs /\ m = Dep(m[2], m[3]) /\ rank[m[3]] \in Nat
    BY <1>0, <1>3, NodeShape
  <2>3. T \subseteq Nat /\ T # {}
    BY <2>1, <2>2
  <2>4. PICK x \in U : \A m \in U : rank[x[3]] <= rank[m[3]]
    <3>1. PICK y \in T : \A z \in T : y <= z
      BY <2>3, LeastNatural
    <3> QED BY <3>1
  <2>5. ASSUME NEW m \in wanted, m[1] = "dep", m[3] \in Dirs, rank[m[3]] < rank[x[3]] PROVE state[m] = "made"
    <3>1. rank[m[3]] \in Nat /\ rank[x[3]] \in Nat
      BY <1>3, <2>2, <2>5
    <3>2. m \notin U
      BY <2>4, <2>5, <3>1
    <3> QED BY <1>2, <2>5, <3>2
  <2>6. ASSUME NEW m \in Prerequisites(x) PROVE state[m] = "made"
    <3>1. m \in wanted
      BY DEF Wanted
    <3>2. PICK p \in pairs : p[2] = x[3] /\ m = Dep(x[2], p[1])
      BY DEF Prerequisites, Linked
    <3>3. m[1] = "dep" /\ m[3] = p[1] /\ p[1] \in Dirs
      BY <1>0, <3>2, SubPrjAssumption DEF Dep
    <3> QED BY <1>1, <2>5, <3>1, <3>2, <3>3
  <2>7. ASSUME goal[1] = "target", NEW m \in Before(goal, x) \cap wanted PROVE state[m] = "made"
    <3>1. PICK i \in DOMAIN Default, j \in DOMAIN Default :
            /\ i < j
            /\ \E d \in Default[i] : m = Dep(x[2], d)
            /\ \E e \in Default[j] : x = Dep(goal[2], e)
      BY DEF Before
    <3>2. PICK d \in Default[i] : m = Dep(x[2], d)
      BY <3>1
    <3>3. PICK e \in Default[j] : x = Dep(goal[2], e)
      BY <3>1
    <3>4. m[1] = "dep" /\ m[3] = d /\ x[3] = e /\ d \in Dirs
      BY <3>2, <3>3, SubPrjAssumption DEF Dep
    <3>5. rank[d] < rank[e]
      BY <1>1, <3>1
    <3> QED BY <2>5, <3>4, <3>5
  <2> QED BY <1>4, <2>4, <2>6, <2>7
<1>6. ASSUME NEW n \in wanted, state[n] = "unmade", n[1] # "dep" PROVE FALSE
  <2>1. ASSUME NEW m \in Prerequisites(n) PROVE state[m] = "made"
    <3>1. m \in wanted
      BY DEF Wanted
    <3>2. m[1] = "dep"
      BY <1>0, PrerequisiteType DEF Dep
    <3> QED BY <1>5, <3>1, <3>2
  <2>2. Before(goal, n) = {}
    BY <1>6 DEF Before, Dep
  <2> QED BY <1>4, <1>6, <2>1, <2>2
<1> QED BY <1>2, <1>5, <1>6

LEMMA AskedWanted ==
  ASSUME Wanted, goal # None, NEW t \in Targets, NEW d \in Asked(t)
  PROVE  Dep(t, d) \in wanted
<1>1. CASE goal = Dep(t, d)
  BY <1>1 DEF Wanted
<1>2. CASE goal = Project(d) /\ t = "all" /\ ~Listed(d, NoSubdir) /\ <<Dep(t, d), goal>> \notin NoDeps
  <2>1. Dep(t, d) \in Linked(goal) /\ goal[1] = "project"
    BY <1>2 DEF Linked, Project
  <2>2. Dep(t, d)[2] = "all" /\ Dep(t, d)[3] = d
    BY <1>2 DEF Dep
  <2>3. ~Cut(Dep(t, d), goal)
    BY <1>2, <2>1, <2>2 DEF Cut, InstallTargets
  <2> QED BY <2>1, <2>3 DEF Prerequisites, Wanted
<1>3. CASE goal = TargetOf(t) /\ d \in Defaults /\ ~LeftOut(t, d) /\ <<Dep(t, d), goal>> \notin NoDeps
  <2>1. Dep(t, d) \in Linked(goal) /\ goal[1] = "target"
    BY <1>3 DEF Linked, TargetOf
  <2>2. Dep(t, d)[2] = t /\ Dep(t, d)[3] = d
    BY DEF Dep
  <2>3. ~Cut(Dep(t, d), goal)
    BY <1>3, <2>1, <2>2 DEF Cut, LeftOut
  <2> QED BY <2>1, <2>3 DEF Prerequisites, Wanted
<1> QED BY <1>1, <1>2, <1>3 DEF Asked

(* With a finite number of projects, and when neither the pairs nor the    *)
(* .WAITs lead round in a circle, a make that ends without an error has    *)
(* made its goal and everything that what was asked for depends on.        *)
THEOREM CompleteCorrect ==
  ASSUME IsFiniteSet(Dirs), "all" \in Targets, Unwound
  PROVE  Spec => []Complete
<1>1. Init => IInv /\ Wanted
  BY InitInv DEF Init, Wanted
<1>2. IInv /\ Wanted /\ [Next]_vars => IInv' /\ Wanted'
  BY StepInv, WantedStep
<1>3. IInv /\ Wanted => Complete
  <2> SUFFICES ASSUME IInv, Wanted, Over, In("error") = {}
               PROVE  /\ state[goal] = "made"
                      /\ \A t \in Targets : \A d \in Asked(t) : \A e \in DependsOn(t, d) : state[Dep(t, e)] = "made"
    BY DEF Complete
  <2>1. \A n \in wanted : state[n] = "made"
    BY MadeInOrder
  <2>2. state[goal] = "made"
    BY <2>1 DEF Over, Wanted
  <2>3. ASSUME NEW t \in Targets, NEW d \in Asked(t), NEW e \in DependsOn(t, d)
        PROVE  state[Dep(t, e)] = "made"
    <3>1. state[Dep(t, d)] = "made"
      BY <2>1, AskedWanted DEF Over
    <3>2. d \in Dirs
      BY DEF Asked
    <3>3. CASE e # d
      BY <3>1, <3>2, <3>3, InvOrdered DEF Ordered
    <3> QED BY <3>1, <3>3
  <2> QED BY <2>2, <2>3
<1> QED BY <1>1, <1>2, <1>3, PTL DEF Spec
=============================================================================
