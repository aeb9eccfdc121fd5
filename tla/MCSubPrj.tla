----------------------------- MODULE MCSubPrj -------------------------------
(* A public library, an internal one, a program, a virtual project and one *)
(* that is left out, with every choice of the edges between them.          *)
EXTENDS SubPrj

MCDirs == {"libs/pub", "libs/int", "libs/old", "prog", "both"}
MCTails == [d \in MCDirs |->
  CASE d = "libs/pub" -> {d, "pub"} [] d = "libs/int" -> {d, "int"} [] d = "libs/old" -> {d, "old"}
    [] OTHER -> {d}]
MCGraphs == SUBSET {<<"libs/pub", "libs/int">>, <<"libs/pub", "prog">>, <<"libs/int", "prog">>,
                    <<"libs/pub", "libs/old">>, <<"libs/old", "libs/int">>, <<"libs/old", "prog">>,
                    <<"libs/int", "both">>, <<"prog", "both">>}
MCDefault == <<{"libs/pub", "libs/old", "libs/int", "prog"}, {"both"}>>
MCNoDeps == {<<Dep("test", "libs/pub"), TargetOf("test")>>, <<Dep("test", "libs/int"), Dep("test", "prog")>>}
MCGoals == {TargetOf("all"), TargetOf("install"), TargetOf("test"), Project("both"),
            Dep("install", "both"), Dep("install", "libs/int"), NoDep("all", "both"), NoDep("all", "prog")}

ASSUME MCUnwound == Unwound /\ IsFiniteSet(Dirs) /\ "all" \in Targets
=============================================================================
