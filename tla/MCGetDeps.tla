----------------------------- MODULE MCGetDeps ------------------------------
(* All graphs of a program and three libraries, cycles included.           *)
EXTENDS GetDeps
MCGraphs == {g \in [Projects -> SUBSET Projects] : \A p \in Projects : p \notin g[p]}
=============================================================================
