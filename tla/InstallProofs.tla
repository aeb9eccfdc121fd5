--------------------------- MODULE InstallProofs ----------------------------
(* Proofs about Install for any number of processes, sources and targets.  *)
EXTENDS Install, TLAPS

(* No directory has the name of a target.                                  *)
NoDirectories ==
  \A t \in InitialTargets : \A x \in Targets : t[x] # Directory

Copying(p) == pc[p] \in {"fill", "set"} /\ job[p].link = "copy"
Linked(p) == pc[p] = "set" /\ job[p].link # "copy"

(* No source is ever written to.                                           *)
SourcesKept ==
  \A s \in Sources : /\ names[s] = File(SourceInode[s])
                     /\ inode[SourceInode[s]] = Original(s)

(* The temporary name is a copy of the current source, whole after `fill'. *)
CopyOfSource ==
  \A p \in Procs : Copying(p) =>
    \E i \in Inodes : /\ names[Tmp(p)] = File(i)
                      /\ inode[i].of = Head(src[p])
                      /\ pc[p] = "set" => inode[i].whole = TRUE

LinkToSource ==
  \A p \in Procs : Linked(p) =>
    names[Tmp(p)] \in {File(SourceInode[Head(src[p])]), Link(Head(src[p]))}

(* No target is a directory.                                               *)
OnlyFiles == \A x \in Targets : names[x] # Directory

IInv == TypeOK /\ SourcesKept /\ CopyOfSource /\ OwnCopy /\ LinkToSource

Request == [srcs : Seq(Sources), dest : Targets \cup {InDir},
            link : {"copy", "hard", "soft"}, want : SUBSET AttrSet]
-----------------------------------------------------------------------------
(* The four kinds of directory entries are told apart.                     *)
LEMMA EntriesDiffer ==
  /\ \A i, j : File(i) = File(j) => i = j
  /\ \A i, s : File(i) # Link(s)
  /\ \A i : File(i) # None /\ File(i) # Directory
  /\ \A s : Link(s) # None /\ Link(s) # Directory
  /\ None # Directory
  /\ \A p, q : Tmp(p) = Tmp(q) => p = q
BY DEF File, Link, None, Directory, Tmp

LEMMA EntriesKinds ==
  \A e \in Entries : \/ e = None \/ e = Directory
                     \/ \E i \in Inodes : e = File(i)
                     \/ \E s \in Sources : e = Link(s)
BY DEF Entries

LEMMA FollowFacts ==
  ASSUME NEW f
  PROVE  /\ \A i : Follow(f, File(i)) = f[i]
         /\ \A s : Follow(f, Link(s)) = f[SourceInode[s]]
         /\ Follow(f, None) = Original("none")
         /\ Follow(f, Directory) = Original("directory")
<1>1. \A i : Follow(f, File(i)) = f[i]
  BY DEF Follow, File
<1>2. \A s : Follow(f, Link(s)) = f[SourceInode[s]]
  BY DEF Follow, Link
<1>3. Follow(f, None) = Original("none")
  BY DEF Follow, None
<1>4. Follow(f, Directory) = Original("directory")
  BY DEF Follow, Directory
<1> QED BY <1>1, <1>2, <1>3, <1>4

LEMMA RequestFacts ==
  \A r \in Requests : r \in Request /\ r.srcs # <<>> /\ (r.link # "copy" => r.want = {})
BY RequestsAssumption DEF RequestsAssumption, Request

LEMMA PathFacts ==
  /\ Sources \subseteq Paths /\ Targets \subseteq Paths /\ Tmps \subseteq Paths
  /\ Tmps \cap (Sources \cup Targets) = {} /\ Sources \cap Targets = {}
  /\ \A p \in Procs : Tmp(p) \in Tmps
  /\ SourceInode \in [Sources -> Inodes]
BY InstallAssumption, RequestsAssumption
   DEF InstallAssumption, RequestsAssumption, Paths, Tmps

LEMMA OriginalInFiles ==
  \A s \in Sources : /\ Original(s) \in Files
                     /\ [Original(s) EXCEPT !.whole = FALSE] \in Files
BY DEF Original, Files, Anything

(* The target of the current source is a target.                           *)
LEMMA DstFacts ==
  ASSUME TypeOK, NEW p \in Procs, pc[p] \in {"create", "fill", "set"}
  PROVE  /\ job[p] \in Requests /\ job[p] \in Request /\ src[p] \in Seq(Sources)
         /\ src[p] # <<>> /\ Head(src[p]) \in Sources /\ Dst(p) \in Targets
         /\ Tail(src[p]) \in Seq(Sources)
<1>1. job[p] \in Requests /\ src[p] \in Seq(Sources) /\ src[p] # <<>>
  BY DEF TypeOK
<1>2. Head(src[p]) \in Sources /\ Tail(src[p]) \in Seq(Sources)
  BY <1>1
<1>3. job[p] \in Request
  BY <1>1, RequestFacts
<1>4. Dst(p) \in Targets
  BY <1>2, <1>3, RequestsAssumption DEF Dst, Target, Request, RequestsAssumption
<1> QED BY <1>1, <1>2, <1>3, <1>4
-----------------------------------------------------------------------------
LEMMA InitIInv == Init => IInv
<1> SUFFICES ASSUME Init PROVE IInv
  OBVIOUS
<1>1. PICK t \in InitialTargets :
        names = [x \in Paths |-> IF x \in Sources THEN File(SourceInode[x])
                                 ELSE IF x \in Targets THEN t[x] ELSE None]
  BY DEF Init
<1>2. t \in [Targets -> Entries]
  BY InstallAssumption DEF InstallAssumption
<1>3. names \in [Paths -> Entries]
  BY <1>1, <1>2, PathFacts DEF Entries
<1>4. TypeOK
  BY <1>3, InstallAssumption DEF Init, TypeOK, InstallAssumption, PCs
<1>5. SourcesKept
  BY <1>1, PathFacts, InstallAssumption DEF Init, SourcesKept, InstallAssumption
<1>6. CopyOfSource /\ OwnCopy /\ LinkToSource
  BY DEF Init, CopyOfSource, OwnCopy, LinkToSource, Copying, Linked
<1> QED BY <1>4, <1>5, <1>6 DEF IInv
-----------------------------------------------------------------------------
(* Types. What a process does to itself keeps the types.                   *)
LEMMA GotoType ==
  ASSUME TypeOK, NEW p \in Procs, NEW l \in PCs, Goto(p, l)
  PROVE  /\ pc' \in [Procs -> PCs] /\ pc'[p] = l
         /\ \A q \in Procs : q # p => pc'[q] = pc[q]
BY DEF TypeOK, Goto

LEMMA GoneType ==
  ASSUME TypeOK, NEW p \in Procs, NEW l \in {"idle", "dead"}, Gone(p, l),
         UNCHANGED inode, names' \in [Paths -> Entries]
  PROVE  TypeOK'
<1>1. pc' \in [Procs -> PCs] /\ pc'[p] = l /\ \A q \in Procs : q # p => pc'[q] = pc[q]
  BY GotoType DEF Gone, PCs
<1>2. job' \in [Procs -> Requests \cup {NoJob}] /\ \A q \in Procs : q # p => job'[q] = job[q]
  BY DEF TypeOK, Gone
<1>3. src' \in [Procs -> Seq(Sources)] /\ \A q \in Procs : q # p => src'[q] = src[q]
  BY DEF TypeOK, Gone
<1> QED BY <1>1, <1>2, <1>3 DEF TypeOK

LEMMA StepType ==
  ASSUME TypeOK, NEW p \in Procs, NEW l \in PCs, Goto(p, l),
         names' \in [Paths -> Entries], inode' \in [Inodes -> Files],
         UNCHANGED <<job, src>>, pc[p] \in {"create", "fill", "set"}
  PROVE  TypeOK'
<1>1. pc' \in [Procs -> PCs] /\ \A q \in Procs : q # p => pc'[q] = pc[q]
  BY GotoType
<1>2. ASSUME NEW q \in Procs, pc'[q] \in {"create", "fill", "set"}
      PROVE  job'[q] \in Requests /\ src'[q] # <<>>
  <2>1. pc[q] \in {"create", "fill", "set"}
    BY <1>1, <1>2
  <2> QED BY <2>1 DEF TypeOK
<1> QED BY <1>1, <1>2 DEF TypeOK

LEMMA TypeStep == TypeOK /\ [Next]_vars => TypeOK'
<1> SUFFICES ASSUME TypeOK, [Next]_vars PROVE TypeOK'
  OBVIOUS
<1>1. ASSUME NEW p \in Procs, NEW r \in Requests, Start(p, r)
      PROVE  TypeOK'
  <2>1. r \in Request /\ r.srcs # <<>>
    BY RequestFacts
  <2>2. r.srcs \in Seq(Sources)
    BY <2>1 DEF Request
  <2>3. pc' \in [Procs -> PCs] /\ \A q \in Procs : q # p => pc'[q] = pc[q]
    BY <1>1 DEF Start, Goto, TypeOK, PCs
  <2>4. job' \in [Procs -> Requests \cup {NoJob}] /\ job'[p] = r
        /\ \A q \in Procs : q # p => job'[q] = job[q]
    BY <1>1 DEF Start, TypeOK
  <2>5. src' \in [Procs -> Seq(Sources)] /\ src'[p] = r.srcs
        /\ \A q \in Procs : q # p => src'[q] = src[q]
    BY <1>1, <2>2 DEF Start, TypeOK
  <2>6. UNCHANGED <<names, inode>>
    BY <1>1 DEF Start
  <2>7. ASSUME NEW q \in Procs, pc'[q] \in {"create", "fill", "set"}
        PROVE  job'[q] \in Requests /\ src'[q] # <<>>
    BY <2>1, <2>3, <2>4, <2>5, <2>7 DEF TypeOK
  <2> QED BY <2>3, <2>4, <2>5, <2>6, <2>7 DEF TypeOK
<1>2. ASSUME NEW p \in Procs, CreateCopy(p) PROVE TypeOK'
  <2>1. PICK i \in Inodes :
          /\ names' = [names EXCEPT ![Tmp(p)] = File(i)]
          /\ inode' = [inode EXCEPT ![i] = [Original(Head(src[p])) EXCEPT !.whole = FALSE]]
    BY <1>2 DEF CreateCopy
  <2>2. names' \in [Paths -> Entries]
    BY <2>1 DEF TypeOK, Entries
  <2>3. inode' \in [Inodes -> Files]
    BY <1>2, <2>1, DstFacts, OriginalInFiles DEF TypeOK, CreateCopy
  <2> QED BY <1>2, <2>2, <2>3, StepType DEF CreateCopy, PCs
<1>3. ASSUME NEW p \in Procs, CreateLink(p) PROVE TypeOK'
  <2>1. Head(src[p]) \in Sources /\ pc[p] = "create"
    BY <1>3, DstFacts DEF CreateLink
  <2>2. names[Head(src[p])] \in Entries /\ Link(Head(src[p])) \in Entries
    BY <2>1, PathFacts DEF TypeOK, Entries
  <2>3. names' \in [Paths -> Entries]
    BY <1>3, <2>2 DEF TypeOK, CreateLink
  <2>4. inode' \in [Inodes -> Files]
    BY <1>3 DEF TypeOK, CreateLink
  <2> QED BY <1>3, <2>1, <2>3, <2>4, StepType DEF CreateLink, PCs
<1>4. ASSUME NEW p \in Procs, Fill(p) PROVE TypeOK'
  <2>1. inode' \in [Inodes -> Files]
    BY <1>4 DEF Fill, TypeOK, Files
  <2>2. names' \in [Paths -> Entries]
    BY <1>4 DEF TypeOK, Fill
  <2> QED BY <1>4, <2>1, <2>2, StepType DEF Fill, PCs
<1>5. ASSUME NEW p \in Procs, NEW n \in DOMAIN Attrs, SetAttr(p, n) PROVE TypeOK'
  <2>1. PICK i \in Inodes : inode' = [inode EXCEPT ![i].attrs = @ \cup {Attrs[n]}]
    BY <1>5 DEF SetAttr
  <2>2. Attrs[n] \in AttrSet
    BY DEF AttrSet
  <2>3. inode' \in [Inodes -> Files]
    BY <2>1, <2>2 DEF TypeOK, Files
  <2> QED BY <1>5, <2>3 DEF SetAttr, TypeOK, locals
<1>6. ASSUME NEW p \in Procs, Move(p) PROVE TypeOK'
  <2>1. pc[p] = "set" /\ Tail(src[p]) \in Seq(Sources) /\ Dst(p) \in Paths /\ job[p] \in Requests
    BY <1>6, DstFacts, PathFacts DEF Move, Ready
  <2>2. names[Tmp(p)] \in Entries
    BY PathFacts DEF TypeOK
  <2>3. names' \in [Paths -> Entries]
    <3>1. CASE names' = [names EXCEPT ![Dst(p)] = names[Tmp(p)], ![Tmp(p)] = None]
      BY <3>1, <2>2 DEF TypeOK, Entries
    <3>2. CASE names' = [names EXCEPT ![Tmp(p)] = None]
      BY <3>2 DEF TypeOK, Entries
    <3>3. CASE UNCHANGED names
      BY <3>3 DEF TypeOK
    <3> QED BY <1>6, <3>1, <3>2, <3>3 DEF Move, Rename
  <2>4. src' \in [Procs -> Seq(Sources)] /\ src'[p] = Tail(src[p])
        /\ \A q \in Procs : q # p => src'[q] = src[q]
    BY <1>6, <2>1 DEF Move, TypeOK
  <2>5. /\ pc' \in [Procs -> PCs]
        /\ pc'[p] = IF Tail(src[p]) = <<>> THEN "trap" ELSE "create"
        /\ \A q \in Procs : q # p => pc'[q] = pc[q]
    BY <1>6 DEF Move, Goto, TypeOK, PCs
  <2>6. UNCHANGED <<job, inode>>
    BY <1>6 DEF Move
  <2>7. ASSUME NEW q \in Procs, pc'[q] \in {"create", "fill", "set"}
        PROVE  job'[q] \in Requests /\ src'[q] # <<>>
    BY <2>1, <2>4, <2>5, <2>6, <2>7 DEF TypeOK
  <2> QED BY <2>3, <2>4, <2>5, <2>6, <2>7 DEF TypeOK
<1>7. ASSUME NEW p \in Procs, Fail(p) PROVE TypeOK'
  <2>1. names' \in [Paths -> Entries] /\ inode' \in [Inodes -> Files]
    BY <1>7 DEF TypeOK, Fail
  <2> QED BY <1>7, <2>1, StepType DEF Fail, PCs
<1>8. ASSUME NEW p \in Procs, Trap(p) PROVE TypeOK'
  <2>1. names' \in [Paths -> Entries]
    BY <1>8 DEF TypeOK, Trap, Entries
  <2> QED BY <1>8, <2>1, GoneType DEF Trap
<1>9. ASSUME NEW p \in Procs, Kill(p) PROVE TypeOK'
  <2>1. names' \in [Paths -> Entries]
    BY <1>9 DEF TypeOK, Kill
  <2>2. CASE names[Tmp(p)] = None
    BY <1>9, <2>1, <2>2, GoneType DEF Kill
  <2>3. CASE names[Tmp(p)] # None
    BY <1>9, <2>1, <2>3, GoneType DEF Kill
  <2> QED BY <2>2, <2>3
<1>10. CASE UNCHANGED vars
  BY <1>10 DEF vars, locals, TypeOK
<1> QED BY <1>1, <1>2, <1>3, <1>4, <1>5, <1>6, <1>7, <1>8, <1>9, <1>10 DEF Next
-----------------------------------------------------------------------------
(* The others, of whom a step of p changes nothing.                        *)
OthersStay(p) ==
  \A q \in Procs : q # p => pc'[q] = pc[q] /\ job'[q] = job[q] /\ src'[q] = src[q]

LEMMA OthersStayLocal ==
  ASSUME TypeOK, NEW p \in Procs, NEW l, Goto(p, l), UNCHANGED <<job, src>>
  PROVE  OthersStay(p) /\ pc'[p] = l
BY DEF OthersStay, Goto, TypeOK

(* A step after which p has nothing in the making: Start, Move, Fail, Trap *)
(* and Kill. Only Move gives the temporary file another name.              *)
LEMMA AwayStep ==
  ASSUME IInv, NEW p \in Procs, OthersStay(p), pc'[p] \notin {"fill", "set"},
         UNCHANGED inode,
         \A x \in Paths : x # Tmp(p) =>
           names'[x] = names[x] \/ (x \in Targets /\ names'[x] = names[Tmp(p)]),
         names'[Tmp(p)] \in {names[Tmp(p)], None}
  PROVE  SourcesKept' /\ CopyOfSource' /\ OwnCopy' /\ LinkToSource'
<1>1. SourcesKept'
  BY PathFacts DEF IInv, SourcesKept
<1>2. ASSUME NEW q \in Procs, Copying(q)'
      PROVE  q # p /\ Copying(q) /\ names'[Tmp(q)] = names[Tmp(q)]
  <2>1. q # p /\ Copying(q)
    BY <1>2 DEF OthersStay, Copying
  <2>2. Tmp(q) \in Paths /\ Tmp(q) # Tmp(p) /\ Tmp(q) \notin Targets
    BY <2>1, PathFacts, EntriesDiffer
  <2> QED BY <2>1, <2>2
<1>3. CopyOfSource'
  <2> SUFFICES ASSUME NEW q \in Procs, Copying(q)'
               PROVE  \E i \in Inodes : /\ names'[Tmp(q)] = File(i)
                                        /\ inode'[i].of = Head(src'[q])
                                        /\ pc'[q] = "set" => inode'[i].whole = TRUE
    BY DEF CopyOfSource
  <2>1. q # p /\ Copying(q) /\ names'[Tmp(q)] = names[Tmp(q)]
    BY <1>2
  <2>2. pc'[q] = pc[q] /\ src'[q] = src[q]
    BY <2>1 DEF OthersStay
  <2> QED BY <2>1, <2>2 DEF IInv, CopyOfSource
<1>4. OwnCopy'
  <2> SUFFICES ASSUME NEW q \in Procs, Copying(q)', NEW x \in Paths \ {Tmp(q)}
               PROVE  names'[x] # names'[Tmp(q)]
    BY DEF OwnCopy, Copying
  <2>1. q # p /\ Copying(q) /\ names'[Tmp(q)] = names[Tmp(q)]
    BY <1>2
  <2>2. \A y \in Paths \ {Tmp(q)} : names[y] # names[Tmp(q)]
    BY <2>1 DEF IInv, OwnCopy, Copying
  <2>3. names[Tmp(q)] # None
    BY <2>1, EntriesDiffer DEF IInv, CopyOfSource
  <2>4. Tmp(p) \in Paths \ {Tmp(q)}
    BY <2>1, PathFacts, EntriesDiffer
  <2> QED BY <2>1, <2>2, <2>3, <2>4
<1>5. LinkToSource'
  <2> SUFFICES ASSUME NEW q \in Procs, Linked(q)'
               PROVE  names'[Tmp(q)] \in {File(SourceInode[Head(src'[q])]), Link(Head(src'[q]))}
    BY DEF LinkToSource
  <2>1. q # p /\ Linked(q) /\ src'[q] = src[q]
    BY DEF OthersStay, Linked
  <2>2. Tmp(q) \in Paths /\ Tmp(q) # Tmp(p) /\ Tmp(q) \notin Targets
    BY <2>1, PathFacts, EntriesDiffer
  <2>3. names'[Tmp(q)] = names[Tmp(q)]
    BY <2>2
  <2> QED BY <2>1, <2>3 DEF IInv, LinkToSource
<1> QED BY <1>1, <1>3, <1>4, <1>5

(* A step that writes to an inode nobody else has a name for, the new      *)
(* entry of the temporary file: CreateCopy, Fill and SetAttr.              *)
LEMMA WriteStep ==
  ASSUME IInv, NEW p \in Procs, OthersStay(p),
         pc'[p] \in {"fill", "set"}, job'[p] = job[p], job[p].link = "copy",
         src'[p] = src[p],
         NEW i \in Inodes,
         \A x \in Paths \ {Tmp(p)} : names'[x] = names[x] /\ names[x] # File(i),
         names'[Tmp(p)] = File(i),
         \A j \in Inodes : j # i => inode'[j] = inode[j],
         inode'[i].of = Head(src[p]),
         pc'[p] = "set" => inode'[i].whole = TRUE
  PROVE  SourcesKept' /\ CopyOfSource' /\ OwnCopy' /\ LinkToSource'
<1>0. \A q \in Procs : q # p => Tmp(q) \in Paths \ {Tmp(p)} /\ Tmp(p) \in Paths \ {Tmp(q)}
  BY PathFacts, EntriesDiffer
<1>1. SourcesKept'
  <2> SUFFICES ASSUME NEW s \in Sources
               PROVE  names'[s] = File(SourceInode[s]) /\ inode'[SourceInode[s]] = Original(s)
    BY DEF SourcesKept
  <2>1. s \in Paths \ {Tmp(p)} /\ SourceInode[s] \in Inodes
    BY PathFacts
  <2>2. names[s] = File(SourceInode[s]) /\ inode[SourceInode[s]] = Original(s)
    BY DEF IInv, SourcesKept
  <2>3. SourceInode[s] # i
    BY <2>1, <2>2
  <2> QED BY <2>1, <2>2, <2>3
<1>2. CopyOfSource'
  <2> SUFFICES ASSUME NEW q \in Procs, Copying(q)'
               PROVE  \E j \in Inodes : /\ names'[Tmp(q)] = File(j)
                                        /\ inode'[j].of = Head(src'[q])
                                        /\ pc'[q] = "set" => inode'[j].whole = TRUE
    BY DEF CopyOfSource
  <2>1. CASE q = p
    BY <2>1
  <2>2. CASE q # p
    <3>1. Copying(q) /\ pc'[q] = pc[q] /\ src'[q] = src[q]
      BY <2>2 DEF OthersStay, Copying
    <3>2. PICK j \in Inodes : /\ names[Tmp(q)] = File(j)
                              /\ inode[j].of = Head(src[q])
                              /\ pc[q] = "set" => inode[j].whole = TRUE
      BY <3>1 DEF IInv, CopyOfSource
    <3>3. names'[Tmp(q)] = File(j) /\ j # i
      BY <1>0, <2>2, <3>2
    <3> QED BY <3>1, <3>2, <3>3
  <2> QED BY <2>1, <2>2
<1>3. OwnCopy'
  <2> SUFFICES ASSUME NEW q \in Procs, Copying(q)', NEW x \in Paths \ {Tmp(q)}
               PROVE  names'[x] # names'[Tmp(q)]
    BY DEF OwnCopy, Copying
  <2>1. CASE q = p
    BY <2>1
  <2>2. CASE q # p
    <3>1. Copying(q)
      BY <2>2 DEF OthersStay, Copying
    <3>2. names[x] # names[Tmp(q)]
      BY <3>1 DEF IInv, OwnCopy, Copying
    <3>3. names'[Tmp(q)] = names[Tmp(q)] /\ names[Tmp(q)] # File(i)
      BY <1>0, <2>2
    <3> QED BY <3>2, <3>3
  <2> QED BY <2>1, <2>2
<1>4. LinkToSource'
  <2> SUFFICES ASSUME NEW q \in Procs, Linked(q)'
               PROVE  names'[Tmp(q)] \in {File(SourceInode[Head(src'[q])]), Link(Head(src'[q]))}
    BY DEF LinkToSource
  <2>1. q # p
    BY DEF Linked
  <2>2. Linked(q) /\ src'[q] = src[q]
    BY <2>1 DEF OthersStay, Linked
  <2>3. names'[Tmp(q)] = names[Tmp(q)]
    BY <1>0, <2>1
  <2> QED BY <2>2, <2>3 DEF IInv, LinkToSource
<1> QED BY <1>1, <1>2, <1>3, <1>4

LEMMA CreateLinkStep ==
  ASSUME IInv, NEW p \in Procs, CreateLink(p)
  PROVE  SourcesKept' /\ CopyOfSource' /\ OwnCopy' /\ LinkToSource'
<1> DEFINE s == Head(src[p])
<1>1. s \in Sources /\ s \in Paths \ {Tmp(p)} /\ OthersStay(p) /\ pc'[p] = "set"
      /\ job'[p] = job[p] /\ src'[p] = src[p] /\ job[p].link # "copy"
      /\ UNCHANGED inode /\ Tmp(p) \in Paths
  BY DstFacts, OthersStayLocal, PathFacts DEF IInv, CreateLink
<1>2. names[s] = File(SourceInode[s])
  BY <1>1 DEF IInv, SourcesKept
<1>3. names'[Tmp(p)] \in {names[s], Link(s)} /\ \A x \in Paths \ {Tmp(p)} : names'[x] = names[x]
  BY <1>1 DEF IInv, TypeOK, CreateLink
<1>4. \A q \in Procs : q # p => Tmp(q) \in Paths \ {Tmp(p)} /\ Tmp(p) \in Paths \ {Tmp(q)}
  BY PathFacts, EntriesDiffer
<1>5. SourcesKept'
  BY <1>1, <1>3, PathFacts DEF IInv, SourcesKept
<1>6. ASSUME NEW q \in Procs, Copying(q)'
      PROVE  q # p /\ Copying(q) /\ src'[q] = src[q] /\ pc'[q] = pc[q] /\ names'[Tmp(q)] = names[Tmp(q)]
  <2>1. q # p
    BY <1>1, <1>6 DEF Copying
  <2> QED BY <1>3, <1>4, <1>6, <2>1, <1>1 DEF OthersStay, Copying
<1>7. CopyOfSource'
  <2> SUFFICES ASSUME NEW q \in Procs, Copying(q)'
               PROVE  \E i \in Inodes : /\ names'[Tmp(q)] = File(i)
                                        /\ inode'[i].of = Head(src'[q])
                                        /\ pc'[q] = "set" => inode'[i].whole = TRUE
    BY DEF CopyOfSource
  <2> QED BY <1>1, <1>6 DEF IInv, CopyOfSource
<1>8. OwnCopy'
  <2> SUFFICES ASSUME NEW q \in Procs, Copying(q)', NEW x \in Paths \ {Tmp(q)}
               PROVE  names'[x] # names'[Tmp(q)]
    BY DEF OwnCopy, Copying
  <2>1. q # p /\ Copying(q) /\ names'[Tmp(q)] = names[Tmp(q)]
    BY <1>6
  <2>2. \A y \in Paths \ {Tmp(q)} : names[y] # names[Tmp(q)]
    BY <2>1 DEF IInv, OwnCopy, Copying
  <2>3. s \in Paths \ {Tmp(q)}
    BY <1>1, PathFacts
  <2>4. names[Tmp(q)] # Link(s)
    BY <2>1, EntriesDiffer DEF IInv, CopyOfSource
  <2> HIDE DEF s
  <2> QED BY <1>3, <2>1, <2>2, <2>3, <2>4
<1>9. LinkToSource'
  <2> SUFFICES ASSUME NEW q \in Procs, Linked(q)'
               PROVE  names'[Tmp(q)] \in {File(SourceInode[Head(src'[q])]), Link(Head(src'[q]))}
    BY DEF LinkToSource
  <2>1. CASE q = p
    BY <1>1, <1>2, <1>3, <2>1
  <2>2. CASE q # p
    <3>1. Linked(q) /\ src'[q] = src[q]
      BY <2>2, <1>1 DEF OthersStay, Linked
    <3> QED BY <1>3, <1>4, <2>2, <3>1 DEF IInv, LinkToSource
  <2> QED BY <2>1, <2>2
<1> QED BY <1>5, <1>7, <1>8, <1>9

LEMMA InvStep == IInv /\ [Next]_vars => IInv'
<1> SUFFICES ASSUME IInv, [Next]_vars PROVE IInv'
  OBVIOUS
<1>0. TypeOK'
  BY TypeStep DEF IInv
<1> DEFINE Goal == SourcesKept' /\ CopyOfSource' /\ OwnCopy' /\ LinkToSource'
<1> HIDE DEF Goal
<1>1. ASSUME NEW p \in Procs, NEW r \in Requests, Start(p, r) PROVE Goal
  <2>1. OthersStay(p) /\ pc'[p] \notin {"fill", "set"}
    BY <1>1 DEF Start, Goto, OthersStay, IInv, TypeOK
  <2>2. names' = names /\ inode' = inode
    BY <1>1 DEF Start
  <2> QED BY <2>1, <2>2, AwayStep DEF Goal
<1>2. ASSUME NEW p \in Procs, CreateCopy(p) PROVE Goal
  <2>1. PICK i \in Inodes :
          /\ Free(i)
          /\ names' = [names EXCEPT ![Tmp(p)] = File(i)]
          /\ inode' = [inode EXCEPT ![i] = [Original(Head(src[p])) EXCEPT !.whole = FALSE]]
    BY <1>2 DEF CreateCopy
  <2>2. OthersStay(p) /\ pc'[p] = "fill" /\ job'[p] = job[p] /\ src'[p] = src[p]
        /\ job[p].link = "copy"
    BY <1>2, OthersStayLocal DEF IInv, CreateCopy
  <2>3. names'[Tmp(p)] = File(i) /\ \A x \in Paths \ {Tmp(p)} : names'[x] = names[x] /\ names[x] # File(i)
    BY <2>1, PathFacts DEF Free, IInv, TypeOK
  <2>4. inode'[i].of = Head(src[p]) /\ \A j \in Inodes : j # i => inode'[j] = inode[j]
    BY <2>1 DEF IInv, TypeOK, Original
  <2> QED BY <2>2, <2>3, <2>4, WriteStep DEF Goal
<1>3. ASSUME NEW p \in Procs, CreateLink(p) PROVE Goal
  BY <1>3, CreateLinkStep DEF Goal
<1>4. ASSUME NEW p \in Procs, Fill(p) PROVE Goal
  <2>1. PICK i \in Inodes : names[Tmp(p)] = File(i) /\ inode' = [inode EXCEPT ![i].whole = TRUE]
    BY <1>4 DEF Fill
  <2>2. OthersStay(p) /\ pc'[p] = "set" /\ job'[p] = job[p] /\ src'[p] = src[p] /\ names' = names
    BY <1>4, OthersStayLocal DEF IInv, Fill
  <2>3. Copying(p)
    BY <1>4 DEF Fill, Copying
  <2>4. inode[i].of = Head(src[p])
    BY <2>1, <2>3, EntriesDiffer DEF IInv, CopyOfSource
  <2>5. \A x \in Paths \ {Tmp(p)} : names'[x] = names[x] /\ names[x] # File(i)
    BY <2>1, <2>2, <2>3 DEF IInv, OwnCopy, Copying
  <2>6. inode'[i].of = Head(src[p]) /\ inode'[i].whole = TRUE /\ \A j \in Inodes : j # i => inode'[j] = inode[j]
    BY <2>1, <2>4 DEF IInv, TypeOK, Files
  <2> QED BY <2>1, <2>2, <2>3, <2>5, <2>6, WriteStep DEF Goal, Copying
<1>5. ASSUME NEW p \in Procs, NEW n \in DOMAIN Attrs, SetAttr(p, n) PROVE Goal
  <2>1. PICK i \in Inodes : /\ names[Tmp(p)] = File(i)
                            /\ inode' = [inode EXCEPT ![i].attrs = @ \cup {Attrs[n]}]
    BY <1>5 DEF SetAttr
  <2>2. OthersStay(p) /\ pc'[p] = "set" /\ job'[p] = job[p] /\ src'[p] = src[p] /\ names' = names
    BY <1>5 DEF SetAttr, locals, OthersStay
  <2>3. Copying(p) /\ pc[p] = "set"
    BY <1>5 DEF SetAttr, Copying
  <2>4. inode[i].of = Head(src[p]) /\ inode[i].whole = TRUE
    BY <2>1, <2>3, EntriesDiffer DEF IInv, CopyOfSource
  <2>5. \A x \in Paths \ {Tmp(p)} : names'[x] = names[x] /\ names[x] # File(i)
    BY <2>1, <2>2, <2>3 DEF IInv, OwnCopy, Copying
  <2>6. inode'[i].of = Head(src[p]) /\ inode'[i].whole = TRUE /\ \A j \in Inodes : j # i => inode'[j] = inode[j]
    BY <2>1, <2>4 DEF IInv, TypeOK, Files
  <2> QED BY <2>1, <2>2, <2>3, <2>5, <2>6, WriteStep DEF Goal, Copying
<1>6. ASSUME NEW p \in Procs, Move(p) PROVE Goal
  <2>1. pc[p] = "set" /\ Dst(p) \in Targets /\ Dst(p) # Tmp(p) /\ Dst(p) \in Paths /\ Tmp(p) \in Paths
    BY <1>6, DstFacts, PathFacts DEF Move, Ready, IInv
  <2>2. OthersStay(p) /\ pc'[p] \notin {"fill", "set"} /\ UNCHANGED inode
    BY <1>6 DEF Move, Goto, OthersStay, IInv, TypeOK
  <2>3. /\ names'[Tmp(p)] \in {names[Tmp(p)], None}
        /\ \A x \in Paths : x # Tmp(p) =>
             names'[x] = names[x] \/ (x \in Targets /\ names'[x] = names[Tmp(p)])
    <3>1. CASE names' = [names EXCEPT ![Dst(p)] = names[Tmp(p)], ![Tmp(p)] = None]
      BY <3>1, <2>1 DEF IInv, TypeOK
    <3>2. CASE names' = [names EXCEPT ![Tmp(p)] = None]
      BY <3>2 DEF IInv, TypeOK
    <3>3. CASE UNCHANGED names
      BY <3>3
    <3> QED BY <1>6, <3>1, <3>2, <3>3 DEF Move, Rename
  <2> QED BY <2>2, <2>3, AwayStep DEF Goal
<1>7. ASSUME NEW p \in Procs, Fail(p) PROVE Goal
  <2>1. OthersStay(p) /\ pc'[p] \notin {"fill", "set"} /\ names' = names /\ inode' = inode
    BY <1>7, OthersStayLocal DEF IInv, Fail
  <2> QED BY <2>1, AwayStep DEF Goal
<1>8. ASSUME NEW p \in Procs, Trap(p) PROVE Goal
  <2>1. OthersStay(p) /\ pc'[p] \notin {"fill", "set"} /\ inode' = inode
    BY <1>8 DEF IInv, TypeOK, Trap, Gone, Goto, OthersStay
  <2>2. names'[Tmp(p)] = None /\ \A x \in Paths : x # Tmp(p) => names'[x] = names[x]
    BY <1>8, PathFacts DEF IInv, TypeOK, Trap
  <2> QED BY <2>1, <2>2, AwayStep DEF Goal
<1>9. ASSUME NEW p \in Procs, Kill(p) PROVE Goal
  <2>1. OthersStay(p) /\ pc'[p] \notin {"fill", "set"} /\ inode' = inode /\ names' = names
    BY <1>9 DEF IInv, TypeOK, Kill, Gone, Goto, OthersStay
  <2> QED BY <2>1, AwayStep DEF Goal
<1>10. ASSUME UNCHANGED vars PROVE Goal
  <2>1. names' = names /\ inode' = inode /\ pc' = pc /\ job' = job /\ src' = src
    BY <1>10 DEF vars, locals
  <2>2. SourcesKept'
    BY <2>1 DEF IInv, SourcesKept
  <2>3. CopyOfSource'
    BY <2>1 DEF IInv, CopyOfSource, Copying
  <2>4. OwnCopy'
    BY <2>1 DEF IInv, OwnCopy
  <2>5. LinkToSource'
    BY <2>1 DEF IInv, LinkToSource, Linked
  <2> QED BY <2>2, <2>3, <2>4, <2>5 DEF Goal
<1>11. Goal
  BY <1>1, <1>2, <1>3, <1>4, <1>5, <1>6, <1>7, <1>8, <1>9, <1>10 DEF Next
<1> QED BY <1>0, <1>11 DEF IInv, Goal
-----------------------------------------------------------------------------
LEMMA InductiveInvariant == Spec => []IInv
<1>1. Init => IInv
  BY InitIInv
<1>2. IInv /\ [Next]_vars => IInv'
  BY InvStep
<1> QED BY <1>1, <1>2, PTL DEF Spec

(* Every variable keeps its type, and a process that installs has a source *)
(* left to install (mkc_install.in:113-124, 146-164).                      *)
THEOREM TypeCorrect == Spec => []TypeOK
<1>1. IInv => TypeOK
  BY DEF IInv
<1> QED BY <1>1, InductiveInvariant, PTL

(* chown, chgrp, strip and chmod (mkc_install.in:118-121) never touch a    *)
(* file that somebody else has a name for, whatever is linked to what.     *)
THEOREM OwnCopyCorrect == Spec => []OwnCopy
<1>1. IInv => OwnCopy
  BY DEF IInv
<1> QED BY <1>1, InductiveInvariant, PTL

(* What is left of a temporary file once its process is gone: a process    *)
(* that was not killed leaves none (the trap of mkc_install.in:115).       *)
THEOREM NoLitterCorrect == Spec => []NoLitter
<1> DEFINE LInv == TypeOK /\ NoLitter
<1>1. Init => LInv
  <2> SUFFICES ASSUME Init PROVE LInv
    OBVIOUS
  <2>1. TypeOK
    BY InitIInv DEF IInv
  <2>2. \A p \in Procs : names[Tmp(p)] = None
    BY PathFacts DEF Init
  <2> QED BY <2>1, <2>2 DEF NoLitter
<1>2. LInv /\ [Next]_vars => LInv'
  <2> SUFFICES ASSUME LInv, [Next]_vars PROVE NoLitter'
    BY TypeStep
  <2>0. SUFFICES ASSUME NEW q \in Procs, pc'[q] = "idle" PROVE names'[Tmp(q)] = None
    BY DEF NoLitter
  <2> DEFINE Kept(p) == /\ p # q => pc'[q] = pc[q] /\ (names'[Tmp(q)] = names[Tmp(q)])
                        /\ p = q => pc'[q] # "idle" \/ names'[Tmp(q)] = None
  <2>1. ASSUME NEW p \in Procs, Kept(p) PROVE names'[Tmp(q)] = None
    BY <2>0, <2>1 DEF NoLitter
  <2> HIDE DEF Kept
  <2>2. \A p \in Procs : p # q => Tmp(q) # Tmp(p)
    BY EntriesDiffer
  <2>3. Tmp(q) \in Paths /\ Tmp(q) \notin Targets
    BY PathFacts
  <2>4. ASSUME NEW p \in Procs, NEW r \in Requests, Start(p, r) PROVE Kept(p)
    BY <2>4 DEF Start, Goto, TypeOK, Kept
  <2>5. ASSUME NEW p \in Procs, CreateCopy(p) PROVE Kept(p)
    BY <2>2, <2>3, <2>5 DEF CreateCopy, Goto, TypeOK, Kept
  <2>6. ASSUME NEW p \in Procs, CreateLink(p) PROVE Kept(p)
    BY <2>2, <2>3, <2>6 DEF CreateLink, Goto, TypeOK, Kept
  <2>7. ASSUME NEW p \in Procs, Fill(p) PROVE Kept(p)
    BY <2>7 DEF Fill, Goto, TypeOK, Kept
  <2>8. ASSUME NEW p \in Procs, NEW n \in DOMAIN Attrs, SetAttr(p, n) PROVE Kept(p)
    BY <2>8 DEF SetAttr, locals, TypeOK, Kept
  <2>9. ASSUME NEW p \in Procs, Move(p) PROVE Kept(p)
    <3>1. Dst(p) \in Targets
      BY <2>9, DstFacts DEF Move, Ready
    <3>2. p # q => names'[Tmp(q)] = names[Tmp(q)]
      BY <2>2, <2>3, <2>9, <3>1 DEF Move, Rename, TypeOK
    <3>3. pc'[p] # "idle" /\ (p # q => pc'[q] = pc[q])
      BY <2>9 DEF Move, Goto, TypeOK
    <3> QED BY <3>2, <3>3 DEF Kept
  <2>10. ASSUME NEW p \in Procs, Fail(p) PROVE Kept(p)
    BY <2>10 DEF Fail, Goto, TypeOK, Kept
  <2>11. ASSUME NEW p \in Procs, Trap(p) PROVE Kept(p)
    BY <2>2, <2>3, <2>11 DEF Trap, Gone, Goto, TypeOK, Kept
  <2>12. ASSUME NEW p \in Procs, Kill(p) PROVE Kept(p)
    BY <2>12 DEF Kill, Gone, Goto, TypeOK, Kept
  <2>13. ASSUME UNCHANGED vars PROVE names'[Tmp(q)] = None
    BY <2>0, <2>13 DEF vars, locals, NoLitter
  <2> QED BY <2>1, <2>4, <2>5, <2>6, <2>7, <2>8, <2>9, <2>10, <2>11, <2>12, <2>13 DEF Next
<1>3. LInv => NoLitter
  OBVIOUS
<1> QED BY <1>1, <1>2, <1>3, PTL DEF Spec
-----------------------------------------------------------------------------
(* Refinement. What can be read at the targets and the sources does not    *)
(* change when their entries stay and an inode they do not name is written.*)
LEMMA Unseen ==
  ASSUME IInv, NEW i \in Inodes,
         \A x \in Sources \cup Targets : names'[x] = names[x] /\ names[x] # File(i),
         \A j \in Inodes : j # i => inode'[j] = inode[j]
  PROVE  viewBar' = viewBar
<1>1. ASSUME NEW s \in Sources PROVE SourceInode[s] \in Inodes /\ SourceInode[s] # i
  BY PathFacts DEF IInv, SourcesKept
<1>2. ASSUME NEW x \in Sources \cup Targets
      PROVE  Follow(inode', names'[x]) = Follow(inode, names[x])
  <2>1. names'[x] = names[x] /\ names[x] # File(i) /\ names[x] \in Entries
    BY PathFacts DEF IInv, TypeOK
  <2>2. ASSUME NEW j \in Inodes, names[x] = File(j)
        PROVE  Follow(inode', names[x]) = Follow(inode, names[x])
    <3>1. j # i
      BY <2>1, <2>2
    <3>2. inode'[j] = inode[j]
      BY <3>1
    <3> QED BY <2>2, <3>2, FollowFacts
  <2>3. ASSUME NEW s \in Sources, names[x] = Link(s)
        PROVE  Follow(inode', names[x]) = Follow(inode, names[x])
    <3>1. inode'[SourceInode[s]] = inode[SourceInode[s]]
      BY <1>1
    <3> QED BY <2>3, <3>1, FollowFacts
  <2>4. ASSUME names[x] \in {None, Directory}
        PROVE  Follow(inode', names[x]) = Follow(inode, names[x])
    BY <2>4, FollowFacts
  <2>5. Follow(inode', names[x]) = Follow(inode, names[x])
    BY <2>1, <2>2, <2>3, <2>4, EntriesKinds
  <2> QED BY <2>1, <2>5
<1> QED BY <1>2 DEF viewBar

LEMMA Unchanged ==
  ASSUME UNCHANGED inode, \A x \in Sources \cup Targets : names'[x] = names[x]
  PROVE  viewBar' = viewBar
<1>1. \A x \in Sources \cup Targets : Follow(inode', names'[x]) = Follow(inode, names[x])
  OBVIOUS
<1> QED BY <1>1 DEF viewBar

LEMMA PendingSame ==
  ASSUME NEW p \in Procs, OthersStay(p),
         pc[p] \notin {"idle", "dead"}, pc'[p] \notin {"idle", "dead"},
         job'[p] = job[p], src'[p] = src[p]
  PROVE  pendingBar' = pendingBar
<1>2. ASSUME NEW q \in Procs
      PROVE  (IF pc'[q] \in {"idle", "dead"} THEN <<"nothing">> ELSE <<job'[q], src'[q]>>)
             = (IF pc[q] \in {"idle", "dead"} THEN <<"nothing">> ELSE <<job[q], src[q]>>)
  <2>1. job'[q] = job[q] /\ src'[q] = src[q]
    BY DEF OthersStay
  <2>2. CASE q = p
    BY <2>1, <2>2, Zenon
  <2>3. CASE q # p
    <3>1. pc'[q] = pc[q]
      BY <2>3 DEF OthersStay
    <3> QED BY <2>1, <3>1, Zenon
  <2> QED BY <2>2, <2>3
<1> QED BY <1>2, Zenon DEF pendingBar

(* Who has gone has left.                                                  *)
LEMMA GoneLeaves ==
  ASSUME IInv, NEW p \in Procs, NEW l \in {"idle", "dead"}, Gone(p, l),
         pc[p] \notin {"idle", "dead"}, viewBar' = viewBar
  PROVE  Abs!Leave(p)
<1>1. OthersStay(p) /\ pc'[p] = l
  BY DEF IInv, TypeOK, Gone, Goto, OthersStay
<1>2. pendingBar[p] = <<job[p], src[p]>>
  BY DEF pendingBar
<1>3. \A q \in Procs : pendingBar'[q] = IF q = p THEN <<"nothing">> ELSE pendingBar[q]
  BY <1>1 DEF pendingBar, OthersStay
<1>4. pendingBar' = [pendingBar EXCEPT ![p] = <<"nothing">>]
  BY <1>3 DEF pendingBar
<1>5. pendingBar[p] # <<"nothing">>
  BY <1>2
<1> QED BY <1>4, <1>5 DEF Abs!Leave, Abs!Nothing

(* The file that is moved is the finished file.                            *)
LEMMA MoveFinished ==
  ASSUME IInv, OnlyFiles, NEW p \in Procs, Move(p)
  PROVE  /\ viewBar' = [viewBar EXCEPT ![Dst(p)] = Finished(job[p], Head(src[p]))]
         /\ OnlyFiles'
<1> DEFINE s == Head(src[p])
<1>1. /\ pc[p] = "set" /\ Dst(p) \in Targets /\ s \in Sources /\ job[p] \in Request
      /\ (job[p].link # "copy" => job[p].want = {}) /\ inode' = inode
  BY DstFacts, RequestFacts DEF Move, Ready, IInv
<1>2. Dst(p) # Tmp(p) /\ Dst(p) \in Paths /\ Tmp(p) \in Paths /\ SourceInode[s] \in Inodes
  BY <1>1, PathFacts
<1>3. /\ names[Tmp(p)] # Directory
      /\ Follow(inode, names[Tmp(p)]) = Finished(job[p], s)
  <2>1. CASE job[p].link = "copy"
    <3>1. PICK i \in Inodes : /\ names[Tmp(p)] = File(i)
                              /\ inode[i].of = s /\ inode[i].whole = TRUE
      BY <1>1, <2>1 DEF IInv, CopyOfSource, Copying
    <3>2. inode[i].attrs = job[p].want
      BY <2>1, <3>1, EntriesDiffer DEF Move, Ready
    <3>3. inode[i] \in Files
      BY DEF IInv, TypeOK
    <3>4. inode[i] = [of |-> s, whole |-> TRUE, attrs |-> job[p].want]
      BY <3>1, <3>2, <3>3 DEF Files
    <3>5. Finished(job[p], s) = [of |-> s, whole |-> TRUE, attrs |-> job[p].want]
      BY DEF Finished
    <3> HIDE DEF s
    <3> QED BY <3>1, <3>4, <3>5, EntriesDiffer, FollowFacts
  <2>2. CASE job[p].link # "copy"
    <3>1. names[Tmp(p)] \in {File(SourceInode[s]), Link(s)}
      BY <1>1, <2>2 DEF IInv, LinkToSource, Linked
    <3>2. inode[SourceInode[s]] = Original(s)
      BY <1>1 DEF IInv, SourcesKept
    <3>3. Follow(inode, names[Tmp(p)]) = Original(s)
      BY <3>1, <3>2, FollowFacts
    <3>4. Finished(job[p], s) = Original(s)
      BY <1>1, <2>2 DEF Finished, Original
    <3> HIDE DEF s
    <3> QED BY <3>1, <3>3, <3>4, EntriesDiffer
  <2> QED BY <2>1, <2>2
<1>4. /\ names'[Dst(p)] = names[Tmp(p)]
      /\ \A x \in Sources \cup Targets : x # Dst(p) => names'[x] = names[x]
  <2>1. \A x \in Sources \cup Targets : x # Tmp(p)
    BY PathFacts
  <2>2. names[Dst(p)] # Directory
    BY <1>1 DEF OnlyFiles
  <2>3. CASE names' = [names EXCEPT ![Dst(p)] = names[Tmp(p)], ![Tmp(p)] = None]
    BY <1>1, <1>2, <2>1, <2>3, PathFacts DEF IInv, TypeOK
  <2>4. CASE names[Dst(p)] = names[Tmp(p)] /\ UNCHANGED names
    BY <2>4
  <2> QED BY <2>2, <2>3, <2>4 DEF Move, Rename
<1>5. ASSUME NEW x \in Sources \cup Targets
      PROVE  Follow(inode', names'[x]) =
               IF x = Dst(p) THEN Finished(job[p], s) ELSE Follow(inode, names[x])
  BY <1>1, <1>3, <1>4
<1>6. viewBar' = [viewBar EXCEPT ![Dst(p)] = Finished(job[p], s)]
  <2> HIDE DEF s
  <2> QED BY <1>1, <1>5 DEF viewBar
<1>7. OnlyFiles'
  BY <1>3, <1>4 DEF OnlyFiles
<1> QED BY <1>6, <1>7

LEMMA AtomicInit == NoDirectories /\ Init => Abs!Init /\ OnlyFiles
<1> SUFFICES ASSUME NoDirectories, Init PROVE Abs!Init /\ OnlyFiles
  OBVIOUS
<1>1. PICK t \in InitialTargets :
        names = [x \in Paths |-> IF x \in Sources THEN File(SourceInode[x])
                                 ELSE IF x \in Targets THEN t[x] ELSE None]
  BY DEF Init
<1>2. \A x \in Sources \cup Targets :
        names[x] = IF x \in Sources THEN File(SourceInode[x]) ELSE t[x]
  BY <1>1, PathFacts
<1>3. viewBar = View(InitialInode, t)
  <2>1. \A x \in Sources \cup Targets :
          Follow(inode, names[x]) = IF x \in Sources
                                    THEN Follow(InitialInode, File(SourceInode[x]))
                                    ELSE Follow(InitialInode, t[x])
    BY <1>2 DEF Init
  <2> QED BY <2>1 DEF viewBar, View
<1>4. pendingBar = [p \in Procs |-> <<"nothing">>]
  BY DEF Init, pendingBar
<1>5. OnlyFiles
  BY <1>2, PathFacts DEF OnlyFiles, NoDirectories
<1> QED BY <1>3, <1>4, <1>5 DEF Abs!Init, Abs!Nothing, Views

LEMMA AtomicStep ==
  IInv /\ IInv' /\ OnlyFiles /\ [Next]_vars =>
    [Abs!Next]_<<viewBar, pendingBar>> /\ OnlyFiles'
<1> SUFFICES ASSUME IInv, IInv', OnlyFiles, [Next]_vars
             PROVE  [Abs!Next]_<<viewBar, pendingBar>> /\ OnlyFiles'
  OBVIOUS
<1> DEFINE Goal == (Abs!Next \/ UNCHANGED <<viewBar, pendingBar>>) /\ OnlyFiles'
<1>0. \A p \in Procs : Tmp(p) \notin Sources \cup Targets
  BY PathFacts
<1>1. ASSUME NEW p \in Procs, NEW r \in Requests, Start(p, r) PROVE Goal
  <2>1. names' = names /\ inode' = inode /\ job'[p] = r /\ src'[p] = r.srcs
        /\ pc[p] = "idle" /\ pc'[p] \notin {"idle", "dead"} /\ OthersStay(p)
    BY <1>1 DEF Start, Goto, OthersStay, IInv, TypeOK
  <2>2. viewBar' = viewBar
    BY <2>1, Unchanged
  <2>3. pendingBar[p] = <<"nothing">>
    BY <2>1 DEF pendingBar
  <2>4. \A q \in Procs : pendingBar'[q] = IF q = p THEN <<r, r.srcs>> ELSE pendingBar[q]
    BY <2>1 DEF pendingBar, OthersStay
  <2>5. pendingBar' = [pendingBar EXCEPT ![p] = <<r, r.srcs>>]
    BY <2>4 DEF pendingBar
  <2>6. Abs!Ask(p, r)
    BY <2>2, <2>3, <2>5 DEF Abs!Ask, Abs!Nothing
  <2> QED BY <2>1, <2>6 DEF Abs!Next, OnlyFiles
<1>2. ASSUME NEW p \in Procs, CreateCopy(p) PROVE Goal
  <2>1. PICK i \in Inodes :
          /\ Free(i)
          /\ names' = [names EXCEPT ![Tmp(p)] = File(i)]
          /\ inode' = [inode EXCEPT ![i] = [Original(Head(src[p])) EXCEPT !.whole = FALSE]]
    BY <1>2 DEF CreateCopy
  <2>2. \A x \in Sources \cup Targets : names'[x] = names[x] /\ names[x] # File(i)
    BY <1>0, <2>1, PathFacts DEF Free, IInv, TypeOK
  <2>3. \A j \in Inodes : j # i => inode'[j] = inode[j]
    BY <2>1 DEF IInv, TypeOK
  <2>4. viewBar' = viewBar
    BY <2>2, <2>3, Unseen
  <2>5. pendingBar' = pendingBar
    BY <1>2, OthersStayLocal, PendingSame DEF CreateCopy, IInv
  <2> QED BY <2>2, <2>4, <2>5 DEF OnlyFiles
<1>3. ASSUME NEW p \in Procs, CreateLink(p) PROVE Goal
  <2>1. inode' = inode /\ \A x \in Sources \cup Targets : names'[x] = names[x]
    BY <1>0, <1>3, PathFacts DEF CreateLink, IInv, TypeOK
  <2>2. viewBar' = viewBar
    BY <2>1, Unchanged
  <2>3. pendingBar' = pendingBar
    BY <1>3, OthersStayLocal, PendingSame DEF CreateLink, IInv
  <2> QED BY <2>1, <2>2, <2>3 DEF OnlyFiles
<1>4. ASSUME NEW p \in Procs, Fill(p) PROVE Goal
  <2>1. PICK i \in Inodes : names[Tmp(p)] = File(i) /\ inode' = [inode EXCEPT ![i].whole = TRUE]
    BY <1>4 DEF Fill
  <2>2. \A x \in Sources \cup Targets : names'[x] = names[x] /\ names[x] # File(i)
    BY <1>0, <1>4, <2>1, PathFacts DEF Fill, IInv, OwnCopy
  <2>3. \A j \in Inodes : j # i => inode'[j] = inode[j]
    BY <2>1 DEF IInv, TypeOK
  <2>4. viewBar' = viewBar
    BY <2>2, <2>3, Unseen
  <2>5. pendingBar' = pendingBar
    BY <1>4, OthersStayLocal, PendingSame DEF Fill, IInv
  <2> QED BY <2>2, <2>4, <2>5 DEF OnlyFiles
<1>5. ASSUME NEW p \in Procs, NEW n \in DOMAIN Attrs, SetAttr(p, n) PROVE Goal
  <2>1. PICK i \in Inodes : /\ names[Tmp(p)] = File(i)
                            /\ inode' = [inode EXCEPT ![i].attrs = @ \cup {Attrs[n]}]
    BY <1>5 DEF SetAttr
  <2>2. \A x \in Sources \cup Targets : names'[x] = names[x] /\ names[x] # File(i)
    BY <1>0, <1>5, <2>1, PathFacts DEF SetAttr, IInv, OwnCopy
  <2>3. \A j \in Inodes : j # i => inode'[j] = inode[j]
    BY <2>1 DEF IInv, TypeOK
  <2>4. viewBar' = viewBar
    BY <2>2, <2>3, Unseen
  <2>5. pc' = pc /\ job' = job /\ src' = src
    BY <1>5 DEF SetAttr, locals
  <2>6. pendingBar' = pendingBar
    BY <2>5 DEF pendingBar
  <2> QED BY <2>2, <2>4, <2>6 DEF OnlyFiles
<1>6. ASSUME NEW p \in Procs, Move(p) PROVE Goal
  <2>1. viewBar' = [viewBar EXCEPT ![Dst(p)] = Finished(job[p], Head(src[p]))] /\ OnlyFiles'
    BY <1>6, MoveFinished
  <2>2. pc[p] = "set" /\ src[p] # <<>>
    BY <1>6, DstFacts DEF Move, Ready, IInv
  <2>3. /\ pc'[p] \notin {"idle", "dead"} /\ job' = job
        /\ src'[p] = Tail(src[p]) /\ OthersStay(p)
    BY <1>6 DEF Move, Goto, OthersStay, IInv, TypeOK
  <2>4. pendingBar[p] = <<job[p], src[p]>>
    BY <2>2 DEF pendingBar
  <2>5. \A q \in Procs :
          pendingBar'[q] = IF q = p THEN <<job[p], Tail(src[p])>> ELSE pendingBar[q]
    BY <2>3 DEF pendingBar, OthersStay
  <2>6. pendingBar' = [pendingBar EXCEPT ![p] = <<job[p], Tail(src[p])>>]
    BY <2>5 DEF pendingBar
  <2>7. pendingBar[p] # <<"nothing">> /\ pendingBar[p][1] = job[p] /\ pendingBar[p][2] = src[p]
    BY <2>4
  <2>8. Abs!Put(p)
    BY <2>1, <2>2, <2>6, <2>7
       DEF Abs!Put, Abs!Nothing, Abs!Finished, Abs!Target, Finished, Target, Dst, Abs!InDir, InDir
  <2> QED BY <2>1, <2>8 DEF Abs!Next
<1>7. ASSUME NEW p \in Procs, Fail(p) PROVE Goal
  <2>1. names' = names /\ inode' = inode
    BY <1>7 DEF Fail
  <2>2. viewBar' = viewBar
    BY <2>1, Unchanged
  <2>3. pendingBar' = pendingBar
    BY <1>7, OthersStayLocal, PendingSame DEF Fail, IInv
  <2> QED BY <2>1, <2>2, <2>3 DEF OnlyFiles
<1>8. ASSUME NEW p \in Procs, Trap(p) PROVE Goal
  <2>1. inode' = inode /\ \A x \in Sources \cup Targets : names'[x] = names[x]
    BY <1>0, <1>8, PathFacts DEF Trap, IInv, TypeOK
  <2>2. viewBar' = viewBar
    BY <2>1, Unchanged
  <2>3. Abs!Leave(p)
    BY <1>8, <2>2, GoneLeaves DEF Trap
  <2> QED BY <2>1, <2>3 DEF Abs!Next, OnlyFiles
<1>9. ASSUME NEW p \in Procs, Kill(p) PROVE Goal
  <2>1. names' = names /\ inode' = inode
    BY <1>9 DEF Kill
  <2>2. viewBar' = viewBar
    BY <2>1, Unchanged
  <2>3. PICK l \in {"idle", "dead"} : Gone(p, l)
    BY <1>9 DEF Kill
  <2>4. Abs!Leave(p)
    BY <1>9, <2>2, <2>3, GoneLeaves DEF Kill
  <2> QED BY <2>1, <2>4 DEF Abs!Next, OnlyFiles
<1>10. ASSUME UNCHANGED vars PROVE Goal
  <2>1. names' = names /\ inode' = inode /\ pc' = pc /\ job' = job /\ src' = src
    BY <1>10 DEF vars, locals
  <2>2. viewBar' = viewBar
    BY <2>1, Unchanged
  <2>3. pendingBar' = pendingBar
    BY <2>1 DEF pendingBar
  <2> QED BY <2>1, <2>2, <2>3 DEF OnlyFiles
<1> HIDE DEF Goal
<1>11. Goal
  BY <1>1, <1>2, <1>3, <1>4, <1>5, <1>6, <1>7, <1>8, <1>9, <1>10 DEF Next
<1> QED BY <1>11 DEF Goal

(* Installing is atomic: nobody ever opens a half-written target, or one   *)
(* without its mode and owner, and no source changes, if no directory has  *)
(* the name of a target (mkc_install.in:113-164).                          *)
THEOREM AtomicCorrect == ASSUME NoDirectories PROVE Spec => AtomicSpec
<1>1. Init => Abs!Init /\ OnlyFiles
  BY AtomicInit
<1>2. IInv /\ IInv' /\ OnlyFiles /\ [Next]_vars =>
        [Abs!Next]_<<viewBar, pendingBar>> /\ OnlyFiles'
  BY AtomicStep
<1> QED BY <1>1, <1>2, InductiveInvariant, PTL DEF Spec, AtomicSpec, Abs!Spec

=============================================================================
