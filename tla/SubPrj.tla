------------------------------- MODULE SubPrj -------------------------------
(***************************************************************************)
(* Subprojects (mk/mkc_imp.subprj.mk): the graph of targets that SUBPRJ,   *)
(* SUBPRJ_DFLT, NOSUBDIR, INTERNALLIBS and NODEPS describe, and a parallel *)
(* make that walks over it and runs a make in each subdirectory.           *)
(***************************************************************************)
EXTENDS Naturals, Sequences, FiniteSets

CONSTANTS
  Dirs,           \* the names in SUBPRJ
  Existing,       \* the directories with a Makefile; the others are virtual
  Tails,          \* directory |-> its trailing parts: a/b |-> {a/b, b}
  Graphs,         \* what the dep:prj pairs of SUBPRJ may be
  Default,        \* SUBPRJ_DFLT: the sets of directories between the .WAITs
  NoSubdir, InternalLibs,
  NoDeps,         \* edges <<dep, prj>> that NODEPS matches besides
  Targets,
  MkInstall,      \* MKINSTALL is not `no'
  Goals,          \* what make may be asked for
  Jobs            \* -j

InstallTargets == {"install", "uninstall", "installdirs"}

TargetOf(t) == <<"target", t>>         \* ${targ}
Dep(t, d) == <<"dep", t, d>>           \* ${targ}-${dir}
NoDep(t, d) == <<"nodeps", t, d>>      \* nodeps-${targ}-${dir}
SubDir(t, d) == <<"subdir", t, d>>     \* subdir-${targ}-${dir}
Project(d) == <<"project", d>>         \* ${dir}
Nodes == {TargetOf(t) : t \in Targets} \cup {Project(d) : d \in Dirs}
         \cup ({"dep", "nodeps", "subdir"} \X Targets \X Dirs)

None == <<"none">>

ASSUME SubPrjAssumption ==
  /\ Existing \subseteq Dirs /\ Graphs \subseteq SUBSET (Dirs \X Dirs)
  /\ Default \in Seq(SUBSET Dirs)
  /\ NoDeps \subseteq Nodes \X Nodes /\ Goals \subseteq Nodes
  /\ MkInstall \in BOOLEAN
  /\ Jobs \in Nat \ {0}

VARIABLES
  pairs,     \* the dep:prj of SUBPRJ
  goal,      \* what make was asked for
  keepGoing, \* -k
  wanted,    \* what it has to make for that
  state      \* node |-> whether it is made

vars == <<pairs, goal, keepGoing, wanted, state>>

Listed(d, names) == Tails[d] \cap names # {}

(* Mutant: NOSUBDIR adds nothing to NODEPS.                                *)
CutListed(m, n) ==
  \/ <<m, n>> \in NoDeps
  \/ m[2] \in InstallTargets /\ Listed(m[3], InternalLibs)

(* The patterns of NODEPS, with *-d:* and *:*-d for NOSUBDIR, install-d:*  *)
(* and so on for INTERNALLIBS. m is ${targ}-${dir}.                        *)
Cut(m, n) ==
  \/ <<m, n>> \in NoDeps
  \/ Listed(m[3], NoSubdir)
  \/ n[1] = "dep" /\ Listed(n[3], NoSubdir)
  \/ m[2] \in InstallTargets /\ Listed(m[3], InternalLibs)

Defaults == UNION {Default[i] : i \in DOMAIN Default}

(* Mutant: the list of default projects ends at the first .WAIT.           *)
LinkedToWait(n) ==
  CASE n[1] = "target"  -> {Dep(n[2], d) : d \in Default[1]}
    [] n[1] = "dep"     -> {Dep(n[2], p[1]) : p \in {q \in pairs : q[2] = n[3]}}
    [] n[1] = "project" -> {Dep("all", n[2])}
    [] OTHER            -> {}

(* Mutant: ${deptarg}: ${prjtarg}                                          *)
LinkedBackwards(n) ==
  CASE n[1] = "target"  -> {Dep(n[2], d) : d \in Defaults}
    [] n[1] = "dep"     -> {Dep(n[2], p[2]) : p \in {q \in pairs : q[1] = n[3]}}
    [] n[1] = "project" -> {Dep("all", n[2])}
    [] OTHER            -> {}

(* _SUBDIR_${targ} and _ALLTARGDEPS before NODEPS is applied.              *)
Linked(n) ==
  CASE n[1] = "target"  -> {Dep(n[2], d) : d \in Defaults}
    [] n[1] = "dep"     -> {Dep(n[2], p[1]) : p \in {q \in pairs : q[2] = n[3]}}
    [] n[1] = "project" -> {Dep("all", n[2])}
    [] OTHER            -> {}

Prerequisites(n) == {m \in Linked(n) : ~Cut(m, n)}

(* All that make has to look at for a goal: no path has more than Dirs.    *)
Reached(g) ==
  LET reach[k \in 0..Cardinality(Dirs)] ==
        IF k = 0 THEN {g} ELSE UNION {{n} \cup Prerequisites(n) : n \in reach[k - 1]}
  IN  {g} \cup (Nodes \cap UNION {Prerequisites(n) : n \in reach[Cardinality(Dirs)]})

(* What make waits for before it makes n as a source of g: a .WAIT n.      *)
Before(g, n) ==
  {Dep(n[2], d) : d \in UNION {Default[i] : i \in
     {j \in DOMAIN Default : \E k \in DOMAIN Default : j < k /\ n \in {Dep(g[2], e) : e \in Default[k]}}}}

(* __recurse enters a directory if it has a Makefile. It takes the target  *)
(* and the directory from the name of the node, and knows nodeps- only: of *)
(* subdir-all-d it makes the target subdir and the directory all-d.        *)
Enters(n) ==
  /\ n[1] \in {"dep", "nodeps"}
  /\ n[3] \in Existing \ NoSubdir
  /\ n[2] \in {"install", "installdirs"} => MkInstall

Init ==
  /\ pairs \in Graphs
  /\ goal = None
  /\ keepGoing = FALSE
  /\ wanted = {}
  /\ state = [n \in Nodes |-> "unmade"]

In(s) == {n \in wanted : state[n] = s}

Ask(g) ==
  /\ goal = None
  /\ goal' = g
  /\ keepGoing' \in BOOLEAN
  /\ wanted' = Reached(g)
  /\ state' = [n \in Nodes |-> "unmade"]
  /\ UNCHANGED pairs

CanMake(n) ==
  /\ goal # None /\ n \in In("unmade")
  /\ Prerequisites(n) \subseteq In("made")
  /\ goal[1] = "target" => Before(goal, n) \cap wanted \subseteq In("made")
  /\ In("error") # {} => keepGoing

(* Mutant: the token is taken after the job has been started.              *)
EnterFirst(n) ==
  /\ CanMake(n) /\ Enters(n)
  /\ Cardinality(In("making")) <= Jobs
  /\ state' = [state EXCEPT ![n] = "making"]
  /\ UNCHANGED <<pairs, goal, keepGoing, wanted>>

(* ${targ} ===> ${dir}                                                     *)
Enter(n) ==
  /\ CanMake(n) /\ Enters(n)
  /\ Cardinality(In("making")) < Jobs
  /\ state' = [state EXCEPT ![n] = "making"]
  /\ UNCHANGED <<pairs, goal, keepGoing, wanted>>

(* Nothing to run, or the recipe ends at once.                             *)
Pass(n) ==
  /\ CanMake(n) /\ ~Enters(n)
  /\ state' = [state EXCEPT ![n] = "made"]
  /\ UNCHANGED <<pairs, goal, keepGoing, wanted>>

(* Mutant: a job that failed is started again.                             *)
LeaveRetries(n) ==
  /\ n \in In("making")
  /\ \E s \in {"made", "unmade"} : state' = [state EXCEPT ![n] = s]
  /\ UNCHANGED <<pairs, goal, keepGoing, wanted>>

(* The make in the subdirectory ends, well or not (set -e).                *)
Leave(n) ==
  /\ n \in In("making")
  /\ \E s \in {"made", "error"} : state' = [state EXCEPT ![n] = s]
  /\ UNCHANGED <<pairs, goal, keepGoing, wanted>>

Over == goal # None /\ In("making") = {} /\ \A n \in wanted : ~CanMake(n)

Quit ==
  /\ Over
  /\ goal' = None
  /\ UNCHANGED <<pairs, keepGoing, wanted, state>>

MakeStep == Quit \/ \E n \in wanted : Enter(n) \/ Pass(n) \/ Leave(n)
Next == MakeStep \/ \E g \in Goals : Ask(g)

Spec == Init /\ [][Next]_vars
FairSpec == Spec /\ WF_vars(MakeStep)
-----------------------------------------------------------------------------
TypeOK ==
  /\ pairs \in Graphs
  /\ goal \in Goals \cup {None}
  /\ keepGoing \in BOOLEAN
  /\ wanted \subseteq Nodes
  /\ state \in [Nodes -> {"unmade", "making", "made", "error"}]
  /\ Cardinality(In("making")) <= Jobs

(* What is left out: excluded by NOSUBDIR, or an internal library that is  *)
(* not to be installed.                                                    *)
LeftOut(t, d) == Listed(d, NoSubdir) \/ (t \in InstallTargets /\ Listed(d, InternalLibs))

(* All that d depends on, through any number of projects that are not left *)
(* out or cut off by NODEPS: what is in every closed set with d.           *)
Closed(t, D) ==
  \A p \in pairs : p[2] \in D =>
    p[1] \in D \/ LeftOut(t, p[1]) \/ Listed(p[2], NoSubdir) \/ <<Dep(t, p[1]), Dep(t, p[2])>> \in NoDeps
DependsOn(t, d) == {e \in Dirs : \A D \in SUBSET Dirs : d \in D /\ Closed(t, D) => e \in D}

(***************************************************************************)
(* However many jobs run and whatever fails: a subproject is only entered  *)
(* when everything it depends on, directly or not, has been made.          *)
(***************************************************************************)
Ordered ==
  \A t \in Targets, d \in Dirs : state[Dep(t, d)] \in {"making", "made", "error"} =>
    \A e \in DependsOn(t, d) \ {d} : state[Dep(t, e)] = "made"

(* Nothing leads to a project that is left out, whichever projects depend  *)
(* on it: NOSUBDIR is never entered, and an internal library is installed  *)
(* only when somebody asks for just that.                                  *)
Excluded ==
  goal # None =>
    \A t \in Targets, d \in Dirs : LeftOut(t, d) /\ state[Dep(t, d)] # "unmade" => goal = Dep(t, d)

(* Neither the pairs nor the .WAITs of SUBPRJ_DFLT, nor both together, lead *)
(* round in a circle: the projects can be numbered along them.             *)
Unwound ==
  \A G \in Graphs : \E rank \in [Dirs -> 1..Cardinality(Dirs)] :
    /\ \A p \in G : rank[p[1]] < rank[p[2]]
    /\ \A i, j \in DOMAIN Default : i < j =>
         \A d \in Default[i], e \in Default[j] : rank[d] < rank[e]

(***************************************************************************)
(* A make that ends without an error has made everything that was asked    *)
(* for: the .WAITs, the pairs and the patterns never leave anything that   *)
(* waits for something that will not come.                                 *)
(***************************************************************************)
Asked(t) ==
  {d \in Dirs :
    \/ goal = Dep(t, d)
    \/ /\ goal = Project(d) /\ t = "all"
       /\ ~Listed(d, NoSubdir) /\ <<Dep(t, d), goal>> \notin NoDeps
    \/ /\ goal = TargetOf(t) /\ d \in Defaults
       /\ ~LeftOut(t, d) /\ <<Dep(t, d), goal>> \notin NoDeps}
Complete ==
  Over /\ In("error") = {} =>
    /\ state[goal] = "made"
    /\ \A t \in Targets : \A d \in Asked(t) : \A e \in DependsOn(t, d) : state[Dep(t, e)] = "made"

(* Every make ends, whatever fails.                                        *)
Ends == goal # None ~> goal = None
=============================================================================
