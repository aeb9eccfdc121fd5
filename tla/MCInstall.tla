----------------------------- MODULE MCInstall ------------------------------
(* Two installers, two sources and their targets in one directory; the     *)
(* sources are i1 and i2, the other inodes are as good as each other.      *)
EXTENDS Install, TLC

CONSTANTS s1, s2, t1, t2, i1, i2

MCBase == s1 :> t1 @@ s2 :> t2
MCSourceInode == s1 :> i1 @@ s2 :> i2
Others == Inodes \ {i1, i2}
MCInitialInode == i1 :> Original(s1) @@ i2 :> Original(s2) @@ [i \in Others |-> Original("old")]
Symmetric == {f @@ g : f \in Permutations(Others), g \in Permutations(Procs)}

Request(srcs, dest, link, want) ==
  [srcs |-> srcs, dest |-> dest, link |-> link, want |-> want]
MCRequests ==
  { Request(<<s1, s2>>, InDir, "copy", {"mode"}),
    Request(<<s2>>, t1, "copy", {"strip", "mode"}),
    Request(<<s1>>, InDir, "soft", {}),
    Request(<<s1, s2>>, InDir, "hard", {}),
    Request(<<s1, s2>>, t2, "copy", {"mode"}) }

(* Nothing, a file, a hard and a symbolic link to a source are there.      *)
Targeted(e1, e2) == t1 :> e1 @@ t2 :> e2
FilesAndLinks == { Targeted(File(i2), File(i)) : i \in Others } \cup {Targeted(Link(s1), None)}
SomeDirectory == {Targeted(Directory, None)}
=============================================================================
