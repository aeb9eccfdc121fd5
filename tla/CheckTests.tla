----------------------------- MODULE CheckTests -----------------------------
(***************************************************************************)
(* The feature tests of the mkc_check_* scripts: what each kind of test    *)
(* asks the toolchain, in which rounds, and how it turns the compiler's    *)
(* verdicts into the answer that is printed and cached.                    *)
(***************************************************************************)
EXTENDS Naturals, Sequences

CONSTANTS
  Req,        \* requests: one command line of a mkc_check_* script each
  Keys,       \* the $pathpart values cache and temporary files are named by
  KeyOf,      \* request |-> its $pathpart
  Kind,       \* request |-> the kind of test it runs
  SizeOrder   \* the sizes mkc_check_sizeof tries, in its order

Kinds == {"header", "decl", "type", "sizeof", "funclib",
          "custom", "prog", "compiler"}

SizeSet == {SizeOrder[i] : i \in 1..Len(SizeOrder)}

ASSUME TestsAssumption ==
  /\ KeyOf \in [Req -> Keys]
  /\ Kind \in [Req -> Kinds]
  /\ Req # {}
  /\ SizeOrder \in Seq(STRING)
  /\ SizeSet \cap {"", "again", "absent", "odd", "failed"} = {}

(* Tests that write a source file of their own into the cache directory.   *)
UsesTmpc(r) == Kind[r] \in {"header", "decl", "type", "sizeof", "funclib"}

(* What the machine may have to say about a request.                       *)
Things(r) ==
  CASE Kind[r] = "type"   -> {"absent", "variable", "type"}
    [] Kind[r] = "sizeof" -> {"absent", "odd"} \cup SizeSet
    [] Kind[r] = "custom" -> {"absent", "present", "fails"}
    [] OTHER              -> {"absent", "present"}

Answers == {"", "0", "1", "failed", "path", "gcc"} \cup SizeSet

(* The size that fits, found by compiling (it runs on no machine).         *)
SizeofAnswer(thing) == IF thing \in SizeSet THEN thing ELSE "failed"

(* The path mkc_which -x prints, or nothing.                               *)
ProgAnswer(thing) == IF thing = "present" THEN "path" ELSE ""

(* Name, version and target of the compiler, an empty line without one.    *)
CompilerAnswer(thing) == IF thing = "present" THEN "gcc" ELSE ""

(* A program's own output, or whether the source compiles.                 *)
CustomAnswer(thing) == IF thing = "present" THEN "1" ELSE "0"

(* What the request is documented to print.                                *)
Answer(r, thing) ==
  CASE Kind[r] = "sizeof"   -> SizeofAnswer(thing)
    [] Kind[r] = "type"     -> IF thing = "type" THEN "1" ELSE "0"
    [] Kind[r] = "prog"     -> ProgAnswer(thing)
    [] Kind[r] = "compiler" -> CompilerAnswer(thing)
    [] Kind[r] = "custom"   -> CustomAnswer(thing)
    [] OTHER                -> IF thing = "present" THEN "1" ELSE "0"

(* Round 1 uses a case label no size equals, round n the n-1st size: it is *)
(* a duplicate, and fails to compile, exactly for the right one.           *)
SizeofCompiles(n, thing) ==
  thing # "absent" /\ (n > 1 => SizeOrder[n - 1] # thing)

(* Round 1 asks for sizeof (x), round 2 for &x as well.                    *)
TypeCompiles(n, thing) == thing = "variable" \/ (n = 1 /\ thing = "type")

(* Does the source file of round n compile (funclib: link)?                *)
Compiles(r, n, thing) ==
  CASE Kind[r] = "type"   -> TypeCompiles(n, thing)
    [] Kind[r] = "sizeof" -> SizeofCompiles(n, thing)
    [] OTHER              -> thing = "present"

Again == "again"    \* the shell goes on to the next round

(* Mutant: the size after the one that was tried.                          *)
SizeofDecideNext(n, ok) ==
  IF ok THEN (IF n = Len(SizeOrder) + 1 THEN "failed" ELSE Again)
        ELSE (IF n > Len(SizeOrder) THEN "failed" ELSE SizeOrder[n])

SizeofDecide(n, ok) ==
  IF ok THEN (IF n = Len(SizeOrder) + 1 THEN "failed" ELSE Again)
        ELSE (IF n = 1 THEN "failed" ELSE SizeOrder[n - 1])

(* Mutant: a third round.                                                  *)
TypeDecideGoesOn(n, ok) == IF ok THEN Again ELSE IF n = 1 THEN "0" ELSE "1"

TypeDecide(n, ok) ==
  IF n = 1 THEN (IF ok THEN Again ELSE "0") ELSE (IF ok THEN "0" ELSE "1")

(* What check_itself makes of the compiler's verdict ok in round n.        *)
Decide(r, n, ok) ==
  CASE Kind[r] = "sizeof" -> SizeofDecide(n, ok)
    [] Kind[r] = "type"   -> TypeDecide(n, ok)
    [] OTHER              -> IF ok THEN "1" ELSE "0"

Rounds(r) ==
  CASE Kind[r] = "sizeof" -> 1..Len(SizeOrder) + 1
    [] Kind[r] = "type"   -> 1..2
    [] OTHER              -> {1}

(***************************************************************************)
(* -d and -D: which of them deletes only the cached result depends on the  *)
(* script; mkc_check_sizeof has neither, mkc_check_compiler has only -D.   *)
(***************************************************************************)
DeleteMode(kind, opt) ==
  CASE kind = "sizeof"   -> "none"
    [] kind = "compiler" -> IF opt = "-D" THEN "result" ELSE "none"
    [] kind = "prog"     -> IF opt = "-d" THEN "result" ELSE "all"
    [] OTHER             -> IF opt = "-d" THEN "all" ELSE "result"
=============================================================================
