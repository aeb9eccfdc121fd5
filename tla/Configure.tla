----------------------------- MODULE Configure ------------------------------
(***************************************************************************)
(* Runs of `mkcmake configure' over the subprojects of a tree              *)
(* (mk/mkc.conf.mk and mk/mkc_imp.conf_*.mk): while it reads its makefile, *)
(* each project asks the feature tests about its MKC_CHECK_* and           *)
(* MKC_REQUIRE_* items; when a required one is missing its cached answer   *)
(* is deleted and the project's `configure' target fails. All projects use *)
(* one MKC_CACHEDIR, which outlives the runs.                              *)
(***************************************************************************)
EXTENDS Naturals

CONSTANTS
  Projects,     \* the subprojects
  Keys,         \* names of result files
  Vars,         \* names of HAVE_* variables
  Items,        \* items of the MKC_CHECK_* and MKC_REQUIRE_* lists
  CheckVars,    \* item |-> the variables it is judged by (funclibs: f:lib and f)
  Result,       \* item |-> variable |-> the result file its value comes from
  DeleteKeys,   \* item |-> the results deleted when it is missing
  Fragment,     \* item |-> the place of its conf_*.mk in mkc.conf.mk
  Inline,       \* items judged in the loop that checks them
  Guarded,      \* items whose fragment is left out once something is missing
  Paths,        \* results that hold the path of a program
  Checked,      \* project |-> its MKC_CHECK_* items
  Required,     \* project |-> its MKC_REQUIRE_* items
  Preset,       \* variable |-> its value given by the user, or None
  MayFail,      \* results of custom commands, which may fail
  None,
  MayKill       \* may a run be interrupted

Answers == {"0", "1", ""}

(* What the test behind a result may say; "" if its command fails.         *)
Says(k) == IF k \in MayFail THEN Answers ELSE {"0", "1"}

ASSUME ConfigureAssumption ==
  /\ CheckVars \in [Items -> SUBSET Vars] /\ DeleteKeys \in [Items -> SUBSET Keys]
  /\ \A i \in Items : \A v \in CheckVars[i] : Result[i][v] \in Keys
  /\ Fragment \in [Items -> Nat]
  /\ Guarded \subseteq Items
  /\ Checked \in [Projects -> SUBSET Items] /\ Required \in [Projects -> SUBSET Items]
  /\ Preset \in [Vars -> {"0", "1", None}]
  /\ MayKill \in BOOLEAN
  /\ None \notin Answers \cup Projects

VARIABLES
  fact,     \* key |-> what its test would say now
  cache,    \* key |-> the cached answer
  left,     \* projects the current run has yet to configure
  prj,      \* the project whose makefile is being read
  have,     \* variable |-> its value in that make, None if undefined
  judged,   \* required items this make is through with
  errs,     \* MKC_ERR_MSG: the items it found missing
  doomed,   \* results to be deleted by the -D calls that come next
  seen,     \* project |-> the values it was configured with by this run
  wronged   \* items blamed though present, with no change to them since

make == <<prj, have, judged, errs, doomed>>
vars == <<fact, cache, left, make, seen, wronged>>

Mine(p) == Checked[p] \cup Required[p]
CheckKeys(i) == {Result[i][v] : v \in CheckVars[i]}
Present(i) == \E k \in CheckKeys(i) : fact[k] = "1"
Unknown == [v \in Vars |-> None]

Init ==
  /\ fact \in [Keys -> Answers] /\ \A k \in Keys : fact[k] \in Says(k)
  /\ cache = [k \in Keys |-> None]
  /\ left = {} /\ prj = None
  /\ have = Unknown /\ judged = {} /\ errs = {} /\ doomed = {}
  /\ seen = [p \in Projects |-> Unknown]
  /\ wronged = {}

(* The user types `mkcmake configure'.                                     *)
StartRun ==
  /\ left = {} /\ prj = None
  /\ left' = Projects
  /\ seen' = [p \in Projects |-> Unknown]
  /\ UNCHANGED <<fact, cache, make, wronged>>

(* make starts a make in the directory of p.                               *)
Enter(p) ==
  /\ prj = None /\ p \in left
  /\ prj' = p
  /\ have' = Preset
  /\ judged' = {} /\ errs' = {} /\ doomed' = {}
  /\ UNCHANGED <<fact, cache, left, seen, wronged>>

(* mk/mkc_imp.mk tests MKC_ERR_MSG before it includes what pkg-config.mk    *)
(* asks, and pkg-config.mk needs HAVE_PROG.pkg-config; an error does not   *)
(* stop the loop it is found in.                                           *)
Included(i) == i \in Guarded => \A j \in errs : Fragment[j] >= Fragment[i]

(* All that is asked about an item is asked.                               *)
Done(i) ==
  /\ \A v \in CheckVars[i] : have[v] # None
  /\ i \in Required[prj] => i \in judged

(* The fragments are included one after the other.                         *)
Reached(i) ==
  /\ prj # None /\ i \in Mine(prj) /\ doomed = {} /\ Included(i)
  /\ \A j \in Mine(prj) : Fragment[j] < Fragment[i] => Done(j)

(* The value of a variable: what is cached, or a new answer. That a program *)
(* is still where it was found is looked at every time.                    *)
Value(k) ==
  IF cache[k] # None /\ ~(k \in Paths /\ cache[k] = "1") THEN cache[k] ELSE fact[k]

(* Mutant: every project has a cache of its own.                           *)
CheckUncached(i, v) ==
  /\ v \in CheckVars[i] /\ have[v] = None
  /\ Reached(i)
  /\ have' = [have EXCEPT ![v] = Value(Result[i][v])]
  /\ UNCHANGED <<fact, cache, left, prj, judged, errs, doomed, seen, wronged>>

(* Mutant: the failure of a command is cached like an answer.              *)
CheckCachesFailure(i, v) ==
  /\ v \in CheckVars[i] /\ have[v] = None
  /\ Reached(i)
  /\ have' = [have EXCEPT ![v] = Value(Result[i][v])]
  /\ cache' = [cache EXCEPT ![Result[i][v]] = IF @ = None THEN fact[Result[i][v]] ELSE @]
  /\ UNCHANGED <<fact, left, prj, judged, errs, doomed, seen, wronged>>

(* HAVE_... != mkc_check_...: the cached answer, or a new one; a command   *)
(* that fails leaves the variable empty and nothing in the cache.          *)
Check(i, v) ==
  /\ v \in CheckVars[i] /\ have[v] = None
  /\ Reached(i)
  /\ have' = [have EXCEPT ![v] = Value(Result[i][v])]
  /\ cache' = [cache EXCEPT ![Result[i][v]] =
                 IF @ = None /\ fact[Result[i][v]] # "" THEN fact[Result[i][v]] ELSE @]
  /\ UNCHANGED <<fact, left, prj, judged, errs, doomed, seen, wronged>>

(* The loop over MKC_REQUIRE_* follows the one that checks; some fragments *)
(* have one loop for both.                                                 *)
AllChecked(i) ==
  \A j \in Mine(prj) :
    j = i \/ (i \notin Inline /\ Fragment[j] = Fragment[i]) => \A v \in CheckVars[j] : have[v] # None

(* Mutant: the cached negative answer stays.                               *)
JudgeKeeps(i) ==
  /\ prj # None /\ i \in Required[prj] \ judged
  /\ Reached(i) /\ AllChecked(i)
  /\ judged' = judged \cup {i}
  /\ errs' = IF \E v \in CheckVars[i] : have[v] = "1" THEN errs ELSE errs \cup {i}
  /\ UNCHANGED <<fact, cache, left, prj, have, doomed, seen, wronged>>

(* One turn of the loop over MKC_REQUIRE_*.                                *)
Judge(i) ==
  /\ prj # None /\ i \in Required[prj] \ judged
  /\ Reached(i) /\ AllChecked(i)
  /\ judged' = judged \cup {i}
  /\ IF \E v \in CheckVars[i] : have[v] = "1"
     THEN UNCHANGED <<errs, doomed>>
     ELSE errs' = errs \cup {i} /\ doomed' = DeleteKeys[i]
  /\ UNCHANGED <<fact, cache, left, prj, have, seen, wronged>>

(* _fake != mkc_check_... -D                                               *)
Delete(k) ==
  /\ k \in doomed
  /\ doomed' = doomed \ {k}
  /\ cache' = [cache EXCEPT ![k] = None]
  /\ UNCHANGED <<fact, left, prj, have, judged, errs, seen, wronged>>

MakefileRead ==
  /\ prj # None /\ doomed = {}
  /\ \A i \in Mine(prj) : Included(i) => Done(i)

(* The targets: check_mkc_err_msg fails if there were errors, which ends   *)
(* the run; otherwise the project is configured (and could be built).      *)
Target ==
  /\ MakefileRead
  /\ IF errs = {}
     THEN left' = left \ {prj} /\ seen' = [seen EXCEPT ![prj] = have]
     ELSE left' = {} /\ UNCHANGED seen
  /\ wronged' = wronged \cup {i \in errs : Present(i)}
  /\ prj' = None
  /\ have' = Unknown /\ judged' = {} /\ errs' = {} /\ doomed' = {}
  /\ UNCHANGED <<fact, cache>>

(* Interrupted: make and the script it runs are gone.                      *)
Kill ==
  /\ MayKill /\ prj # None
  /\ left' = {} /\ prj' = None
  /\ have' = Unknown /\ judged' = {} /\ errs' = {} /\ doomed' = {}
  /\ UNCHANGED <<fact, cache, seen, wronged>>

(* Something is installed or removed, at any time.                         *)
Change(k, a) ==
  /\ a \in Says(k) \ {fact[k]}
  /\ fact' = [fact EXCEPT ![k] = a]
  /\ wronged' = {i \in wronged : k \notin CheckKeys(i)}
  /\ UNCHANGED <<cache, left, make, seen>>

RunStep ==
  \/ StartRun
  \/ \E p \in Projects : Enter(p)
  \/ \E i \in Items : Judge(i) \/ \E v \in CheckVars[i] : Check(i, v)
  \/ \E k \in Keys : Delete(k)
  \/ Target

Next == RunStep \/ Kill \/ \E k \in Keys, a \in Answers : Change(k, a)

Spec == Init /\ [][Next]_vars

(* Someone who wants the project configured tries again when a run ends.   *)
FairSpec == Spec /\ WF_vars(RunStep)
-----------------------------------------------------------------------------
TypeOK ==
  /\ fact \in [Keys -> Answers]
  /\ cache \in [Keys -> {"0", "1", None}]
  /\ left \subseteq Projects
  /\ prj \in Projects \cup {None}
  /\ have \in [Vars -> Answers \cup {None}]
  /\ judged \subseteq Items /\ errs \subseteq Items
  /\ doomed \subseteq Keys
  /\ seen \in [Projects -> [Vars -> Answers \cup {None}]]
  /\ wronged \subseteq Items

(***************************************************************************)
(* doc/NEWS:886, "negative results for MKC_REQUIRE_* are not cached": when *)
(* `configure' reports a missing item, no negative answer about it is left *)
(* in the cache, whatever was cached before by projects that only check it.*)
(***************************************************************************)
NegativesNotCached ==
  MakefileRead => \A i \in errs : \A k \in CheckKeys(i) : cache[k] # "0"

(***************************************************************************)
(* A cached answer may be old, so a required item may be reported missing  *)
(* though it has been installed; but not twice: whatever runs, interrupted *)
(* ones and other projects' checks lie between, the next report is true.   *)
(***************************************************************************)
Suspects(i) == i \in errs /\ \A v \in CheckVars[i] : Preset[v] = None
BlamedOnce ==
  [][Target => \A i \in wronged : Suspects(i) => ~Present(i)]_vars

(***************************************************************************)
(* The projects one run configures agree on every answer they share, even  *)
(* if the answer changes while the run goes on (MKC_CACHEDIR is exported   *)
(* to subprojects, mk/mkc.init.mk:246). Programs are looked for again.     *)
(***************************************************************************)
Settled == {v \in Vars : \A i \in Items : v \in CheckVars[i] => Result[i][v] \notin Paths}
Coherent ==
  \A p, q \in Projects, v \in Settled :
    {seen[p][v], seen[q][v]} \subseteq {"0", "1"} => seen[p][v] = seen[q][v]

(***************************************************************************)
(* doc/NEWS:887: "this gives users ability to fix the problem by changing  *)
(* the environment and try again". If from some moment on everything       *)
(* required is there, nothing changes and nobody interrupts, runs succeed  *)
(* again and again.                                                        *)
(***************************************************************************)
Fixed == \A p \in Projects : \A i \in Required[p] : Present(i)
Configured ==
  left = {} /\ prj = None /\ \A p \in Projects : \A i \in Mine(p) :
    \A v \in CheckVars[i] : seen[p][v] # None
Fails == MakefileRead /\ errs # {}     \* the run would end anyway
FixAndRetry ==
  <>[]Fixed /\ <>[][FALSE]_fact /\ <>[][Kill => Fails]_vars => []<>Configured

(***************************************************************************)
(* doc/NEWS:886 of several items at once: when all that a project requires *)
(* are reported, at least one required item, of this or of another project *)
(* that has the same cache, has no negative answer left there under a name *)
(* that a value of one of its variables may come from.                     *)
(***************************************************************************)
Sources(i) == UNION {{Result[j][v] : v \in CheckVars[i] \cap CheckVars[j]} : j \in Items}
SomeNotCached ==
  MakefileRead /\ errs # {} /\ errs = Required[prj] =>
    \E p \in Projects : \E i \in Required[p] : \A k \in Sources(i) : cache[k] # "0"
=============================================================================
