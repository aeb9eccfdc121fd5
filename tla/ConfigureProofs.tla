-------------------------- MODULE ConfigureProofs ---------------------------
(* Proofs about Configure: types, the deletion of negative answers of      *)
(* required items, true blame and agreement between subprojects.           *)
EXTENDS Configure, TLAPS

LEMMA UnknownType ==
  /\ Unknown \in [Vars -> Answers \cup {None}]
  /\ \A v \in Vars : Unknown[v] = None
BY DEF Unknown

LEMMA TypeInit == Init => TypeOK
<1> SUFFICES ASSUME Init PROVE TypeOK
  OBVIOUS
<1>1. seen \in [Projects -> [Vars -> Answers \cup {None}]]
  BY UnknownType DEF Init
<1> QED BY <1>1, UnknownType DEF Init, TypeOK

LEMMA TypeNext == TypeOK /\ [Next]_vars => TypeOK'
<1> SUFFICES ASSUME TypeOK, [Next]_vars PROVE TypeOK'
  OBVIOUS
<1> USE ConfigureAssumption
<1>1. CASE StartRun
  BY <1>1 DEF TypeOK, StartRun, Unknown, make
<1>2. ASSUME NEW p \in Projects, Enter(p) PROVE TypeOK'
  BY <1>2 DEF TypeOK, Enter, Answers
<1>3. ASSUME NEW i \in Items, NEW v \in CheckVars[i], Check(i, v) PROVE TypeOK'
  BY <1>3 DEF TypeOK, Check, Value, Answers
<1>4. ASSUME NEW i \in Items, Judge(i) PROVE TypeOK'
  BY <1>4 DEF TypeOK, Judge
<1>5. ASSUME NEW k \in Keys, Delete(k) PROVE TypeOK'
  BY <1>5 DEF TypeOK, Delete
<1>6. CASE Target
  BY <1>6 DEF TypeOK, Target, MakefileRead, Unknown
<1>7. CASE Kill
  BY <1>7 DEF TypeOK, Kill, Unknown
<1>8. ASSUME NEW k \in Keys, NEW a \in Answers, Change(k, a) PROVE TypeOK'
  BY <1>8 DEF TypeOK, Change, make
<1>9. CASE UNCHANGED vars
  BY <1>9 DEF TypeOK, vars, make
<1> QED
  BY <1>1, <1>2, <1>3, <1>4, <1>5, <1>6, <1>7, <1>8, <1>9 DEF Next, RunStep

(* Every variable keeps its type, for any tree and any interruptions.      *)
THEOREM TypeCorrect == Spec => []TypeOK
BY TypeInit, TypeNext, PTL DEF Spec
-----------------------------------------------------------------------------
(* What -D deletes is at least what the item is judged by. It fails for    *)
(* MKC_FUNC_OR_DEFINE and MKC_CUSTOM_CACHE (see ConfItems!DeletedOf).      *)
DeletesAll == \A i \in Items : CheckKeys(i) \subseteq DeleteKeys[i]

(* No variable has two files and no file has two variables. The first      *)
(* fails for a type checked with several lists of headers that end alike,  *)
(* the second for tests with one MKC_CUSTOM_CACHE.                         *)
Apart ==
  \A i, j \in Items : \A v \in CheckVars[i], w \in CheckVars[j] :
    v = w <=> Result[i][v] = Result[j][w]

LEMMA SameFile ==
  ASSUME Apart, NEW i \in Items, NEW j \in Items, NEW v \in CheckVars[i], v \in CheckVars[j]
  PROVE  Result[i][v] = Result[j][v]
BY DEF Apart

LEMMA OtherFile ==
  ASSUME Apart, NEW i \in Items, NEW j \in Items, NEW v \in CheckVars[i], NEW w \in CheckVars[j], w # v
  PROVE  Result[j][w] # Result[i][v]
BY DEF Apart

(* Between makes there is nothing to judge by and nothing to report; the   *)
(* project being read is not yet configured.                               *)
Quiet ==
  /\ prj = None => have = Unknown /\ errs = {} /\ doomed = {}
  /\ doomed # {} => errs # {}
  /\ prj # None => prj \in left

(* Every reported item was found missing, and its negative answers are     *)
(* deleted or about to be.                                                 *)
Reported ==
  \A i \in errs : \A v \in CheckVars[i] :
    have[v] \in {"0", ""} /\ (cache[Result[i][v]] = "0" => Result[i][v] \in doomed)

(* An item that was wrongly reported, and its answers since.               *)
Cleared ==
  \A i \in wronged : (\A v \in CheckVars[i] : Preset[v] = None) =>
    \A v \in CheckVars[i] : fact[Result[i][v]] = "1" =>
      cache[Result[i][v]] # "0" /\ have[v] \notin {"0", ""}

(* While a run can still succeed, the values it saw are the cached ones.   *)
Agreed(values) ==
  \A v \in Settled : values[v] \in {"0", "1"} =>
    IF Preset[v] # None
    THEN values[v] = Preset[v]
    ELSE \E i \in Items : v \in CheckVars[i] /\ values[v] = cache[Result[i][v]]
Shared ==
  /\ prj # None => \A v \in Vars : Preset[v] # None => have[v] = Preset[v]
  /\ errs = {} => Agreed(have)
  /\ errs = {} /\ left # {} => \A p \in Projects : Agreed(seen[p])

IInv == TypeOK /\ Quiet /\ Reported /\ Cleared /\ Shared /\ Coherent

LEMMA InvInit == Init => IInv
<1> SUFFICES ASSUME Init PROVE IInv
  OBVIOUS
<1> USE ConfigureAssumption
<1>1. TypeOK
  BY TypeInit
<1>2. \A v \in Vars : Unknown[v] = None /\ None \notin {"0", "1", ""}
  BY DEF Unknown, Answers
<1>3. Quiet /\ Reported /\ Cleared
  BY DEF Init, Quiet, Reported, Cleared
<1>4. Shared /\ Coherent
  BY <1>2 DEF Init, Shared, Agreed, Coherent, Settled
<1> QED BY <1>1, <1>3, <1>4 DEF IInv

LEMMA InvNext == DeletesAll /\ Apart /\ IInv /\ [Next]_vars => IInv'
<1> SUFFICES ASSUME DeletesAll, Apart, IInv, [Next]_vars PROVE IInv'
  OBVIOUS
<1> USE ConfigureAssumption
<1>0. /\ TypeOK /\ TypeOK'
      /\ None \notin {"0", "1", ""} /\ Unknown \in [Vars -> {None}]
      /\ \A v \in Vars : Unknown[v] = None
      /\ \A i \in Items : CheckVars[i] \subseteq Vars
      /\ \A i \in Items : \A v \in CheckVars[i] : Result[i][v] \in Keys
      /\ Settled \subseteq Vars
  BY TypeNext DEF IInv, Unknown, Answers, Settled
<1>1. CASE StartRun
  <2>1. Quiet' /\ Reported' /\ Cleared'
    BY <1>1 DEF IInv, StartRun, make, Quiet, Reported, Cleared
  <2>2. \A p \in Projects : seen'[p] = Unknown
    BY <1>1 DEF StartRun
  <2>3. Shared'
    BY <1>0, <1>1, <2>2 DEF IInv, StartRun, make, Shared, Agreed
  <2>4. Coherent'
    BY <1>0, <2>2 DEF Coherent
  <2> QED BY <1>0, <2>1, <2>3, <2>4 DEF IInv
<1>2. ASSUME NEW p \in Projects, Enter(p) PROVE IInv'
  <2>1. /\ prj' = p /\ have' = Preset /\ errs' = {} /\ doomed' = {}
        /\ UNCHANGED <<fact, cache, left, seen, wronged>>
        /\ errs = {} /\ p \in left /\ p # None
    BY <1>0, <1>2 DEF Enter, IInv, Quiet
  <2>2. Quiet' /\ Reported'
    BY <1>0, <2>1 DEF Quiet, Reported
  <2>3. Cleared'
    BY <1>0, <2>1 DEF IInv, Cleared, TypeOK
  <2>4. Agreed(have)'
    BY <1>0, <2>1 DEF Agreed
  <2>5. left # {} => \A q \in Projects : Agreed(seen[q])'
    BY <2>1 DEF IInv, Shared, Agreed
  <2>6. Shared' /\ Coherent'
    BY <2>1, <2>4, <2>5 DEF IInv, Shared, Coherent
  <2> QED BY <1>0, <2>2, <2>3, <2>6 DEF IInv
<1>3. ASSUME NEW i \in Items, NEW v \in CheckVars[i], Check(i, v) PROVE IInv'
  <2> DEFINE k == Result[i][v]
  <2>1. /\ prj # None /\ doomed = {} /\ have[v] = None /\ k \in Keys /\ v \in Vars
        /\ have'[v] = Value(k)
        /\ cache'[k] = IF cache[k] = None /\ fact[k] # "" THEN fact[k] ELSE cache[k]
        /\ \A w \in Vars \ {v} : have'[w] = have[w]
        /\ \A l \in Keys \ {k} : cache'[l] = cache[l]
        /\ UNCHANGED <<fact, left, prj, errs, doomed, seen, wronged>>
    BY <1>0, <1>3 DEF Check, Reached, TypeOK
  <2>2. Quiet'
    BY <2>1 DEF IInv, Quiet
  <2> HIDE DEF k
  <2>3. ASSUME NEW j \in Items, NEW w \in CheckVars[j], w # v
        PROVE  Result[j][w] \in Keys \ {k} /\ w \in Vars \ {v}
    <3>1. Result[j][w] # Result[i][v]
      BY <2>3, OtherFile
    <3> QED BY <1>0, <2>3, <3>1 DEF k
  <2>4. Reported'
    <3> SUFFICES ASSUME NEW j \in errs, NEW w \in CheckVars[j]
                 PROVE  have'[w] \in {"0", ""} /\ cache'[Result[j][w]] # "0"
      BY <2>1 DEF Reported
    <3>1. have[w] \in {"0", ""} /\ cache[Result[j][w]] # "0"
      BY <2>1 DEF IInv, Reported
    <3>2. w # v
      BY <1>0, <2>1, <3>1
    <3>3. j \in Items
      BY <1>0 DEF TypeOK
    <3> QED BY <2>1, <2>3, <3>1, <3>2, <3>3
  <2>5. Cleared'
    <3> SUFFICES ASSUME NEW j \in wronged, \A w \in CheckVars[j] : Preset[w] = None,
                        NEW w \in CheckVars[j], fact[Result[j][w]] = "1"
                 PROVE  cache'[Result[j][w]] # "0" /\ have'[w] \notin {"0", ""}
      BY <2>1 DEF Cleared
    <3>1. cache[Result[j][w]] # "0" /\ have[w] \notin {"0", ""} /\ j \in Items
      BY <1>0 DEF IInv, Cleared, TypeOK
    <3>2. CASE w # v
      BY <2>1, <2>3, <3>1, <3>2
    <3>3. CASE w = v
      <4>1. Result[j][w] = k
        <5>1. v \in CheckVars[j] /\ j \in Items
          BY <3>1, <3>3
        <5>2. Result[i][v] = Result[j][v]
          BY <5>1, SameFile
        <5> QED BY <3>3, <5>2 DEF k
      <4>2. cache[k] \in {"0", "1", None}
        BY <1>0, <2>1 DEF TypeOK
      <4> QED BY <1>0, <2>1, <3>1, <3>3, <4>1, <4>2 DEF Value
    <3> QED BY <3>2, <3>3
  <2>6. Preset[v] = None
    BY <1>0, <2>1 DEF IInv, Shared
  <2>7. \A l \in Keys : cache[l] # None => cache'[l] = cache[l]
    BY <2>1
  <2>8. Shared'
    <3>1. \A w \in Vars : Preset[w] # None => have'[w] = Preset[w]
      BY <2>1, <2>6 DEF IInv, Shared
    <3>2. ASSUME errs = {} PROVE Agreed(have)'
      <4> SUFFICES ASSUME NEW w \in Settled, have'[w] \in {"0", "1"}
                   PROVE  IF Preset[w] # None THEN have'[w] = Preset[w]
                          ELSE \E j \in Items : w \in CheckVars[j] /\ have'[w] = cache'[Result[j][w]]
        BY DEF Agreed
      <4>1. CASE w # v
        <5>1. have'[w] = have[w]
          BY <1>0, <2>1, <4>1
        <5>2. CASE Preset[w] # None
          BY <3>1, <5>2, <1>0
        <5>3. CASE Preset[w] = None
          <6>1. PICK j \in Items : w \in CheckVars[j] /\ have[w] = cache[Result[j][w]]
            BY <3>2, <5>1, <5>3 DEF IInv, Shared, Agreed
          <6>2. cache'[Result[j][w]] = cache[Result[j][w]]
            BY <1>0, <2>7, <5>1, <6>1
          <6> QED BY <5>1, <5>3, <6>1, <6>2
        <5> QED BY <5>2, <5>3
      <4>2. CASE w = v
        <5>1. k \notin Paths
          BY <4>2 DEF Settled, k
        <5>2. have'[v] = IF cache[k] # None THEN cache[k] ELSE fact[k]
          BY <2>1, <5>1 DEF Value
        <5>3. have'[v] = cache'[k]
          BY <2>1, <4>2, <5>2
        <5> QED BY <2>6, <4>2, <5>3 DEF k
      <4> QED BY <4>1, <4>2
    <3>3. ASSUME errs = {}, left # {}, NEW p \in Projects PROVE Agreed(seen[p])'
      <4>1. Agreed(seen[p]) /\ seen' = seen
        BY <2>1, <3>3 DEF IInv, Shared
      <4> QED BY <2>7, <1>0, <4>1 DEF Agreed
    <3> QED BY <2>1, <3>1, <3>2, <3>3 DEF Shared
  <2>9. Coherent'
    <3>1. Coherent /\ seen' = seen
      BY <2>1 DEF IInv
    <3> QED BY <3>1 DEF Coherent
  <2> QED BY <1>0, <2>2, <2>4, <2>5, <2>8, <2>9 DEF IInv
<1>4. ASSUME NEW i \in Items, Judge(i) PROVE IInv'
  <2>1. /\ prj # None /\ doomed = {} /\ i \in Mine(prj) /\ AllChecked(i)
        /\ UNCHANGED <<fact, cache, left, prj, have, seen, wronged>>
        /\ \/ errs' = errs /\ doomed' = doomed
           \/ /\ \A v \in CheckVars[i] : have[v] # "1"
              /\ errs' = errs \cup {i} /\ doomed' = DeleteKeys[i]
    BY <1>4 DEF Judge, Reached
  <2>2. \A v \in CheckVars[i] : have[v] # None
    BY <2>1 DEF AllChecked
  <2>3. Quiet'
    BY <2>1 DEF IInv, Quiet
  <2>4. Reported'
    <3>1. CASE errs' = errs /\ doomed' = doomed
      BY <2>1, <3>1 DEF IInv, Reported
    <3>2. CASE /\ \A v \in CheckVars[i] : have[v] # "1"
               /\ errs' = errs \cup {i} /\ doomed' = DeleteKeys[i]
      <4>1. \A v \in CheckVars[i] : have[v] \in {"0", ""} /\ Result[i][v] \in DeleteKeys[i]
        BY <1>0, <2>2, <3>2 DEF DeletesAll, CheckKeys, TypeOK, Answers
      <4>2. \A j \in errs : \A v \in CheckVars[j] : have[v] \in {"0", ""} /\ cache[Result[j][v]] # "0"
        BY <2>1 DEF IInv, Reported
      <4> QED BY <2>1, <3>2, <4>1, <4>2 DEF Reported
    <3> QED BY <2>1, <3>1, <3>2
  <2>5. Cleared'
    BY <2>1 DEF IInv, Cleared
  <2>6. Shared' /\ Coherent'
    BY <2>1 DEF IInv, Shared, Agreed, Coherent
  <2> QED BY <1>0, <2>3, <2>4, <2>5, <2>6 DEF IInv
<1>5. ASSUME NEW k \in Keys, Delete(k) PROVE IInv'
  <2>1. /\ k \in doomed /\ doomed' = doomed \ {k} /\ cache'[k] = None
        /\ \A l \in Keys \ {k} : cache'[l] = cache[l]
        /\ UNCHANGED <<fact, left, prj, have, judged, errs, seen, wronged>>
    BY <1>0, <1>5 DEF Delete, TypeOK
  <2>2. errs # {} /\ prj # None /\ prj \in left
    BY <2>1 DEF IInv, Quiet
  <2>3. Quiet'
    BY <2>1, <2>2 DEF Quiet
  <2>4. Reported'
    <3>1. \A j \in errs : \A v \in CheckVars[j] : Result[j][v] \in Keys
      BY <1>0 DEF TypeOK
    <3> QED BY <1>0, <2>1, <3>1 DEF IInv, Reported
  <2>5. Cleared'
    <3>1. \A j \in wronged : \A v \in CheckVars[j] : Result[j][v] \in Keys
      BY <1>0 DEF TypeOK
    <3> QED BY <1>0, <2>1, <3>1 DEF IInv, Cleared
  <2>6. Shared' /\ Coherent'
    BY <2>1, <2>2 DEF IInv, Shared, Coherent
  <2> QED BY <1>0, <2>3, <2>4, <2>5, <2>6 DEF IInv
<1>6. CASE Target
  <2>1. /\ prj # None /\ doomed = {}
        /\ prj' = None /\ have' = Unknown /\ errs' = {} /\ doomed' = {}
        /\ wronged' = wronged \cup {i \in errs : Present(i)}
        /\ UNCHANGED <<fact, cache>>
        /\ \/ errs = {} /\ left' = left \ {prj} /\ seen' = [seen EXCEPT ![prj] = have]
           \/ left' = {} /\ seen' = seen
    BY <1>6 DEF Target, MakefileRead
  <2>2. Quiet' /\ Reported'
    BY <2>1 DEF Quiet, Reported
  <2>3. Cleared'
    <3>1. ASSUME NEW i \in wronged', \A v \in CheckVars[i] : Preset[v] = None,
                 NEW v \in CheckVars[i], fact[Result[i][v]] = "1"
          PROVE  cache[Result[i][v]] # "0"
      <4>1. CASE i \in wronged
        BY <3>1, <4>1 DEF IInv, Cleared
      <4>2. CASE i \in errs
        BY <2>1, <4>2 DEF IInv, Reported
      <4> QED BY <2>1, <4>1, <4>2
    <3>2. \A i \in wronged' : \A v \in CheckVars[i] : have'[v] = None
      BY <1>0, <2>1 DEF TypeOK
    <3> QED BY <1>0, <2>1, <3>1, <3>2 DEF Cleared
  <2>4. Agreed(have)'
    BY <1>0, <2>1 DEF Agreed
  <2>5. CASE errs = {} /\ left' = left \ {prj} /\ seen' = [seen EXCEPT ![prj] = have]
    <3>1. prj \in left /\ prj \in Projects
      BY <1>0, <2>1 DEF IInv, Quiet, TypeOK
    <3>2. Agreed(have) /\ \A p \in Projects : Agreed(seen[p])
      BY <2>5, <3>1 DEF IInv, Shared
    <3>3. \A p \in Projects : seen'[p] = IF p = prj THEN have ELSE seen[p]
      BY <1>0, <2>5, <3>1 DEF TypeOK
    <3>4. \A p \in Projects : Agreed(seen'[p])
      BY <3>2, <3>3
    <3>5. Coherent'
      <4>1. \A v \in Settled, i, j \in Items : v \in CheckVars[i] /\ v \in CheckVars[j]
              => Result[i][v] = Result[j][v]
        BY SameFile
      <4> QED BY <3>4, <4>1 DEF Agreed, Coherent
    <3>6. \A p \in Projects : Agreed(seen[p])'
      BY <2>1, <3>4 DEF Agreed
    <3>7. Shared'
      BY <2>1, <2>4, <3>6 DEF Shared
    <3> QED BY <1>0, <2>2, <2>3, <3>5, <3>7 DEF IInv
  <2>6. CASE left' = {} /\ seen' = seen
    <3>1. Coherent'
      BY <2>6 DEF IInv, Coherent
    <3>2. Shared'
      BY <2>1, <2>4, <2>6 DEF Shared
    <3> QED BY <1>0, <2>2, <2>3, <3>1, <3>2 DEF IInv
  <2> QED BY <2>1, <2>5, <2>6
<1>7. CASE Kill
  <2>1. /\ prj' = None /\ left' = {} /\ have' = Unknown /\ errs' = {} /\ doomed' = {}
        /\ UNCHANGED <<fact, cache, seen, wronged>>
    BY <1>7 DEF Kill
  <2>2. Quiet' /\ Reported'
    BY <2>1 DEF Quiet, Reported
  <2>3. Cleared'
    <3>1. \A i \in wronged : \A v \in CheckVars[i] : have'[v] = None
      BY <1>0, <2>1 DEF TypeOK
    <3> QED BY <1>0, <2>1, <3>1 DEF IInv, Cleared
  <2>4. Agreed(have)'
    BY <1>0, <2>1 DEF Agreed
  <2>5. Shared'
    BY <2>1, <2>4 DEF Shared
  <2>6. Coherent'
    <3>1. Coherent /\ seen' = seen
      BY <2>1 DEF IInv
    <3> QED BY <3>1 DEF Coherent
  <2> QED BY <1>0, <2>2, <2>3, <2>5, <2>6 DEF IInv
<1>8. ASSUME NEW k \in Keys, NEW a \in Answers, Change(k, a) PROVE IInv'
  <2>1. /\ wronged' = {i \in wronged : k \notin CheckKeys(i)}
        /\ \A l \in Keys \ {k} : fact'[l] = fact[l]
        /\ UNCHANGED <<cache, left, prj, have, judged, errs, doomed, seen>>
    BY <1>0, <1>8 DEF Change, make, TypeOK
  <2>2. Quiet' /\ Reported' /\ Shared' /\ Coherent'
    <3>1. Quiet' /\ Reported'
      BY <2>1 DEF IInv, Quiet, Reported
    <3>2. Shared'
      BY <2>1 DEF IInv, Shared, Agreed
    <3>3. Coherent /\ seen' = seen
      BY <2>1 DEF IInv
    <3>4. Coherent'
      BY <3>3 DEF Coherent
    <3> QED BY <3>1, <3>2, <3>4
  <2>3. Cleared'
    <3>1. \A i \in wronged' : i \in wronged /\ \A v \in CheckVars[i] : Result[i][v] \in Keys \ {k}
      BY <1>0, <2>1 DEF TypeOK, CheckKeys
    <3> QED BY <2>1, <3>1 DEF IInv, Cleared
  <2> QED BY <1>0, <2>2, <2>3 DEF IInv
<1>9. CASE UNCHANGED vars
  <2>1. UNCHANGED <<fact, cache, left, prj, have, errs, doomed, seen, wronged>>
    BY <1>9 DEF vars, make
  <2>2. Quiet' /\ Reported' /\ Cleared'
    BY <2>1 DEF IInv, Quiet, Reported, Cleared
  <2>3. Shared' /\ Coherent'
    BY <2>1 DEF IInv, Shared, Agreed, Coherent
  <2> QED BY <1>0, <2>2, <2>3 DEF IInv
<1> QED
  BY <1>1, <1>2, <1>3, <1>4, <1>5, <1>6, <1>7, <1>8, <1>9 DEF Next, RunStep

LEMMA Invariance == ASSUME DeletesAll, Apart PROVE Spec => []IInv
<1>1. IInv /\ [Next]_vars => IInv'
  BY InvNext
<1> QED BY <1>1, InvInit, PTL DEF Spec

(* Where -D deletes what an item is judged by and no two items are mixed   *)
(* up, no negative answer about a reported item is left in the cache.      *)
THEOREM NegativesCorrect == ASSUME DeletesAll, Apart PROVE Spec => []NegativesNotCached
<1>1. IInv => NegativesNotCached
  BY DEF IInv, Reported, MakefileRead, NegativesNotCached, CheckKeys
<1> QED BY <1>1, Invariance, PTL

(* One run never configures two projects with different answers.           *)
THEOREM CoherentCorrect == ASSUME DeletesAll, Apart PROVE Spec => []Coherent
<1>1. IInv => Coherent
  BY DEF IInv
<1> QED BY <1>1, Invariance, PTL

(* No item is wrongly reported twice between two changes to it.            *)
THEOREM BlamedOnceCorrect == ASSUME DeletesAll, Apart PROVE Spec => BlamedOnce
<1>1. ASSUME IInv
      PROVE  [Target => \A i \in wronged : Suspects(i) => ~Present(i)]_vars
  <2> SUFFICES ASSUME NEW i \in wronged, Suspects(i), Present(i) PROVE FALSE
    OBVIOUS
  <2>1. PICK v \in CheckVars[i] : fact[Result[i][v]] = "1"
    BY DEF Present, CheckKeys
  <2>2. have[v] \in {"0", ""}
    BY <1>1 DEF IInv, Reported, Suspects
  <2>3. have[v] \notin {"0", ""}
    BY <1>1, <2>1 DEF IInv, Cleared, Suspects
  <2> QED BY <2>2, <2>3
<1> QED BY <1>1, Invariance, PTL DEF BlamedOnce
=============================================================================
