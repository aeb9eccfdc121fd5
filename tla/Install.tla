------------------------------ MODULE Install -------------------------------
(***************************************************************************)
(* mkc_install (scripts/mkc_install.in): every file is copied or linked to *)
(* #inst.PID# in the destination directory, is given its owner, group and  *)
(* mode there, and is renamed to its target. Processes install at the same *)
(* time, commands fail, processes are killed. Names and inodes are told    *)
(* apart, because a target may be a link to a source.                      *)
(***************************************************************************)
EXTENDS InstallRequests

CONSTANTS
  Procs,          \* processes: their pids
  Inodes,
  SourceInode,    \* source |-> its inode
  InitialInode,   \* inode |-> the file that is there at first
  InitialTargets, \* what the entries of the targets may be at first
  MayKill

None == <<"none">>
Directory == <<"directory">>
File(i) == <<"file", i>>
Link(s) == <<"link", s>>
Entries == {None, Directory} \cup {File(i) : i \in Inodes} \cup {Link(s) : s \in Sources}

Tmp(p) == <<"#inst", p>>
Tmps == {Tmp(p) : p \in Procs}
Paths == Sources \cup Targets \cup Tmps

Anything == Sources \cup {"old"}
Files == [of : Anything, whole : BOOLEAN, attrs : SUBSET AttrSet]

ASSUME InstallAssumption ==
  /\ SourceInode \in [Sources -> Inodes] /\ InitialInode \in [Inodes -> Files]
  /\ \A s \in Sources : InitialInode[SourceInode[s]] = Original(s)
  /\ InitialTargets \subseteq [Targets -> Entries]
  /\ Tmps \cap (Sources \cup Targets) = {}
  /\ MayKill \in BOOLEAN

NoJob == [srcs |-> <<>>, dest |-> InDir, link |-> "copy", want |-> {}]

VARIABLES
  names,    \* path |-> its directory entry
  inode,    \* inode |-> the file
  pc,
  job,      \* the request of each process
  src       \* its sources that are not yet installed, the current one first

locals == <<pc, job, src>>
vars == <<names, inode, locals>>

Free(i) == \A x \in Paths : names[x] # File(i)
Goto(p, label) == pc' = [pc EXCEPT ![p] = label]
Dst(p) == Target(job[p], Head(src[p]))

Init ==
  /\ \E t \in InitialTargets :
       names = [x \in Paths |-> IF x \in Sources THEN File(SourceInode[x])
                                ELSE IF x \in Targets THEN t[x] ELSE None]
  /\ inode = InitialInode
  /\ pc = [p \in Procs |-> "idle"]
  /\ job = [p \in Procs |-> NoJob]
  /\ src = [p \in Procs |-> <<>>]

(* Several sources need a directory. (A target that is a directory is one  *)
(* more way to say InDir.)                                                 *)
Start(p, r) ==
  /\ pc[p] = "idle"
  /\ r.dest # InDir => names[r.dest] # Directory
  /\ job' = [job EXCEPT ![p] = r]
  /\ src' = [src EXCEPT ![p] = r.srcs]
  /\ Goto(p, IF Len(r.srcs) > 1 /\ r.dest # InDir THEN "trap" ELSE "create")
  /\ UNCHANGED <<names, inode>>

(* Mutant: a copy is a link where that is possible.                        *)
CopyByLink(p) ==
  /\ pc[p] = "create" /\ job[p].link = "copy"
  /\ names' = [names EXCEPT ![Tmp(p)] = names[Head(src[p])]]
  /\ Goto(p, "set")
  /\ UNCHANGED <<inode, job, src>>

(* $instcmd "$src" "$dsttmp": cp, ln -f or ln -f -s.                       *)
CreateCopy(p) ==
  /\ pc[p] = "create" /\ job[p].link = "copy"
  /\ \E i \in Inodes :
       /\ Free(i)
       /\ names' = [names EXCEPT ![Tmp(p)] = File(i)]
       /\ inode' = [inode EXCEPT ![i] = [Original(Head(src[p])) EXCEPT !.whole = FALSE]]
  /\ Goto(p, "fill")
  /\ UNCHANGED <<job, src>>

CreateLink(p) ==
  LET s == Head(src[p]) IN
  /\ pc[p] = "create" /\ job[p].link # "copy"
  /\ names' = [names EXCEPT ![Tmp(p)] = IF job[p].link = "hard" THEN names[s] ELSE Link(s)]
  /\ Goto(p, "set")
  /\ UNCHANGED <<inode, job, src>>

(* cp copies the contents.                                                 *)
Fill(p) ==
  /\ pc[p] = "fill" /\ job[p].link = "copy"
  /\ \E i \in Inodes : /\ names[Tmp(p)] = File(i)
                       /\ inode' = [inode EXCEPT ![i].whole = TRUE]
  /\ Goto(p, "set")
  /\ UNCHANGED <<names, job, src>>

(* chown, chgrp, strip and chmod "$dsttmp", those that were asked for.     *)
SetAttr(p, n) ==
  /\ pc[p] = "set" /\ job[p].link = "copy"
  /\ Attrs[n] \in job[p].want
  /\ \E i \in Inodes :
       /\ names[Tmp(p)] = File(i)
       /\ {Attrs[m] : m \in {k \in DOMAIN Attrs : k < n}} \cap job[p].want = inode[i].attrs
       /\ inode' = [inode EXCEPT ![i].attrs = @ \cup {Attrs[n]}]
  /\ UNCHANGED <<names, locals>>

(* Mutant: mode and owner are set after the rename.                        *)
MoveFirst(p) == pc[p] = "set"

Ready(p) ==
  /\ pc[p] = "set"
  /\ job[p].link = "copy" =>
       \E i \in Inodes : names[Tmp(p)] = File(i) /\ inode[i].attrs = job[p].want

(* mv "$dsttmp" "$dst": rename(2) does nothing if both are the same file;  *)
(* a directory is moved into, under the name of the temporary file.        *)
Rename(p) ==
  \/ /\ names[Dst(p)] # Directory
     /\ names' = [names EXCEPT ![Dst(p)] = names[Tmp(p)], ![Tmp(p)] = None]
  \/ /\ names[Dst(p)] = Directory
     /\ names' = [names EXCEPT ![Tmp(p)] = None]
  \/ /\ job[p].link = "hard" /\ names[Dst(p)] = names[Tmp(p)]
     /\ UNCHANGED names

(* Mutant: while test $# -gt 0.                                            *)
MoveOneMore(p) ==
  /\ Ready(p) /\ src[p] # <<>>
  /\ Rename(p)
  /\ src' = [src EXCEPT ![p] = Tail(@)]
  /\ Goto(p, IF src[p] = <<>> THEN "trap" ELSE "create")
  /\ UNCHANGED <<inode, job>>

Move(p) ==
  /\ Ready(p)
  /\ Rename(p)
  /\ src' = [src EXCEPT ![p] = Tail(@)]
  /\ Goto(p, IF Tail(src[p]) = <<>> THEN "trap" ELSE "create")
  /\ UNCHANGED <<inode, job>>

(* Mutant: no trap, the last command is rm -f "$dsttmp".                   *)
FailAtOnce(p) ==
  /\ pc[p] \in {"create", "fill", "set"}
  /\ pc' = [pc EXCEPT ![p] = "idle"]
  /\ job' = [job EXCEPT ![p] = NoJob]
  /\ src' = [src EXCEPT ![p] = <<>>]
  /\ UNCHANGED <<names, inode>>

(* set -e: the trap comes next.                                            *)
Fail(p) ==
  /\ pc[p] \in {"create", "fill", "set"}
  /\ Goto(p, "trap")
  /\ UNCHANGED <<names, inode, job, src>>

Gone(p, label) ==
  /\ Goto(p, label)
  /\ job' = [job EXCEPT ![p] = NoJob]
  /\ src' = [src EXCEPT ![p] = <<>>]

(* trap "rm -f ${dsttmp}" 0                                                *)
Trap(p) ==
  /\ pc[p] = "trap"
  /\ names' = [names EXCEPT ![Tmp(p)] = None]
  /\ Gone(p, "idle")
  /\ UNCHANGED inode

(* Killed; a pid is not used again while its temporary file is there.      *)
Kill(p) ==
  /\ MayKill /\ pc[p] \notin {"idle", "dead"}
  /\ Gone(p, IF names[Tmp(p)] = None THEN "idle" ELSE "dead")
  /\ UNCHANGED <<names, inode>>

Next ==
  \E p \in Procs :
    \/ \E r \in Requests : Start(p, r)
    \/ CreateCopy(p) \/ CreateLink(p) \/ Fill(p)
    \/ \E n \in DOMAIN Attrs : SetAttr(p, n)
    \/ Move(p) \/ Fail(p) \/ Trap(p) \/ Kill(p)

Spec == Init /\ [][Next]_vars
-----------------------------------------------------------------------------
PCs == {"idle", "create", "fill", "set", "trap", "dead"}

TypeOK ==
  /\ names \in [Paths -> Entries]
  /\ inode \in [Inodes -> Files]
  /\ pc \in [Procs -> PCs]
  /\ job \in [Procs -> Requests \cup {NoJob}]
  /\ src \in [Procs -> Seq(Sources)]
  /\ \A p \in Procs : pc[p] \in {"create", "fill", "set"} =>
       job[p] \in Requests /\ src[p] # <<>>

(***************************************************************************)
(* Whatever fails, and wherever, a process that was not killed leaves no   *)
(* #inst.PID# behind.                                                      *)
(***************************************************************************)
NoLitter == \A p \in Procs : pc[p] = "idle" => names[Tmp(p)] = None

(***************************************************************************)
(* What chown, chgrp, strip and chmod are applied to is the new copy, and  *)
(* nothing anybody else has a name for: neither a source nor a file that   *)
(* is installed already, though both may be links to each other.           *)
(***************************************************************************)
OwnCopy ==
  \A p \in Procs : pc[p] \in {"fill", "set"} /\ job[p].link = "copy" =>
    \A x \in Paths \ {Tmp(p)} : names[x] # names[Tmp(p)]

(* What somebody reads who opens a directory entry e.                      *)
Follow(files, e) == CASE e[1] = "file" -> files[e[2]]
                      [] e[1] = "link" -> files[SourceInode[e[2]]]
                      [] OTHER         -> Original(e[1])
View(files, t) ==
  [x \in Sources \cup Targets |->
     IF x \in Sources THEN Follow(files, File(SourceInode[x])) ELSE Follow(files, t[x])]
Views == {View(InitialInode, t) : t \in InitialTargets}

viewBar == [x \in Sources \cup Targets |-> Follow(inode, names[x])]
pendingBar ==
  [p \in Procs |-> IF pc[p] \in {"idle", "dead"} THEN <<"nothing">> ELSE <<job[p], src[p]>>]

Abs == INSTANCE AtomicInstall WITH
         view <- viewBar, pending <- pendingBar, InitialViews <- Views

(***************************************************************************)
(* Every target is at every moment what it was or a whole new file with    *)
(* its owner, group and mode; the sources of a command line are installed  *)
(* in their order; no source ever changes.                                 *)
(***************************************************************************)
AtomicSpec == Abs!Spec
-----------------------------------------------------------------------------
(* mkc_install(1): "If the destination is a directory, then the file is    *)
(* copied into directory with its original filename."                      *)
OriginalFilename ==
  \A p \in Procs : pc[p] = "trap" /\ src[p] = <<>> /\ job[p].dest = InDir =>
    \A n \in DOMAIN job[p].srcs : names[Base[job[p].srcs[n]]] # Directory
=============================================================================
