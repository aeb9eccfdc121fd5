-------------------------- MODULE InstallRequests ---------------------------
(* Command lines of mkc_install (scripts/mkc_install.in): sources, the     *)
(* target or directory, -l, and which of -o, -g, -s and -m are to be done. *)
EXTENDS Naturals, Sequences

CONSTANTS
  Sources,    \* source operands
  Targets,    \* files of the destination directory
  Base,       \* source |-> the target of the same name
  Requests    \* [srcs, dest, link, want]

Attrs == <<"own", "grp", "strip", "mode">>       \* in the order of copy_file
AttrSet == {Attrs[n] : n \in DOMAIN Attrs}
InDir == "directory"                \* the last operand is a directory

(* -l turns off -o, -g, -s and -m.                                         *)
ASSUME RequestsAssumption ==
  /\ Sources \cap Targets = {} /\ InDir \notin Targets
  /\ Base \in [Sources -> Targets]
  /\ Requests \subseteq [srcs : Seq(Sources), dest : Targets \cup {InDir},
                         link : {"copy", "hard", "soft"}, want : SUBSET AttrSet]
  /\ \A r \in Requests : r.srcs # <<>> /\ (r.link # "copy" => r.want = {})

(* dst="$2/"`basename "$1"` or dst="$2".                                   *)
Target(r, s) == IF r.dest = InDir THEN Base[s] ELSE r.dest

(* A file: what it was made from, whether it is complete, what was set.    *)
Original(x) == [of |-> x, whole |-> TRUE, attrs |-> {}]
Finished(r, s) == [of |-> s, whole |-> TRUE, attrs |-> r.want]
=============================================================================
