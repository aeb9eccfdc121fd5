-------------------------- MODULE CheckCacheProofs --------------------------
(***************************************************************************)
(* Proofs about CheckCache for every set of requests, processes and sizes. *)
(***************************************************************************)
EXTENDS CheckCache, SequenceTheorems, TLAPS

-----------------------------------------------------------------------------
(* The assumptions on the tests, in the form the proofs use them.          *)
LEMMA TestsFacts ==
  /\ \A r \in Req : Kind[r] \in Kinds /\ KeyOf[r] \in Keys
  /\ Len(SizeOrder) \in Nat
  /\ \A i \in 1..Len(SizeOrder) : SizeOrder[i] \in SizeSet
  /\ \A z \in SizeSet : z \notin {"", "again", "absent", "odd", "failed"}
<1>1. \A r \in Req : Kind[r] \in Kinds /\ KeyOf[r] \in Keys
  BY TestsAssumption DEF TestsAssumption
<1>2. Len(SizeOrder) \in Nat
  BY TestsAssumption, LenProperties DEF TestsAssumption
<1>3. \A i \in 1..Len(SizeOrder) : SizeOrder[i] \in SizeSet
  BY DEF SizeSet
<1>4. \A z \in SizeSet : z \notin {"", "again", "absent", "odd", "failed"}
  BY TestsAssumption DEF TestsAssumption
<1> QED BY <1>1, <1>2, <1>3, <1>4


(* A verdict of check_itself is an answer or a further round, and there is *)
(* a further round when it asks for one.                                   *)
LEMMA DecideType ==
  ASSUME NEW r \in Req, NEW n \in Rounds(r), NEW ok \in BOOLEAN
  PROVE  /\ Decide(r, n, ok) \in Answers \cup {Again}
         /\ Decide(r, n, ok) = Again => n + 1 \in Rounds(r)
<1>0. Kind[r] \in Kinds /\ Len(SizeOrder) \in Nat
  BY TestsFacts
<1>1. CASE Kind[r] = "sizeof"
  <2>1. n \in 1..Len(SizeOrder) + 1
    BY <1>1 DEF Rounds
  <2>2. n # 1 => SizeOrder[n - 1] \in SizeSet
    BY <1>0, <2>1 DEF SizeSet
  <2>3. n # 1 => SizeOrder[n - 1] # "again"
    BY <2>2, TestsFacts
  <2>4. ok /\ n # Len(SizeOrder) + 1 => n + 1 \in 1..Len(SizeOrder) + 1
    BY <1>0, <2>1
  <2>5. CASE ok
    BY <1>1, <2>4, <2>5 DEF Decide, SizeofDecide, TypeDecide, Answers, Again, Rounds
  <2>6. CASE ~ok /\ n = 1
    BY <1>1, <2>6 DEF Decide, SizeofDecide, TypeDecide, Answers, Again
  <2>7. CASE ~ok /\ n # 1
    BY <1>1, <2>2, <2>3, <2>7 DEF Decide, SizeofDecide, TypeDecide, Answers, Again
  <2> QED BY <2>5, <2>6, <2>7
<1>2. CASE Kind[r] = "type"
  BY <1>2 DEF Decide, SizeofDecide, TypeDecide, Answers, Again, Rounds
<1>3. CASE Kind[r] \notin {"sizeof", "type"}
  BY <1>3 DEF Decide, SizeofDecide, TypeDecide, Answers, Again, Rounds
<1> QED BY <1>1, <1>2, <1>3

(* The rounds compute the answer: when all earlier rounds went on and this *)
(* one does not, what it says is what the script is meant to print.        *)
LEMMA DecideAnswer ==
  ASSUME NEW r \in Req, UsesTmpc(r), NEW thing \in Things(r), NEW n \in Rounds(r),
         \A m \in 1..n - 1 : Decide(r, m, Compiles(r, m, thing)) = Again,
         Decide(r, n, Compiles(r, n, thing)) # Again
  PROVE  Decide(r, n, Compiles(r, n, thing)) = Answer(r, thing)
<1>0. Len(SizeOrder) \in Nat
  BY TestsFacts
<1>1. CASE Kind[r] = "sizeof"
  <2>1. n \in 1..Len(SizeOrder) + 1
    BY <1>1 DEF Rounds
  <2>2. CASE ~Compiles(r, n, thing)
    <3>1. CASE n = 1
      <4>1. thing = "absent"
        BY <1>1, <2>2, <3>1 DEF Compiles, SizeofCompiles, TypeCompiles
      <4>2. thing \notin SizeSet
        BY <4>1, TestsFacts
      <4> QED BY <1>1, <2>2, <3>1, <4>2
        DEF Decide, SizeofDecide, TypeDecide, Answer, SizeofAnswer, ProgAnswer, CompilerAnswer, CustomAnswer
    <3>2. CASE n # 1
      <4>1. thing # "absent"
        <5>1. 1 \in 1..n - 1
          BY <2>1, <3>2
        <5>2. Decide(r, 1, Compiles(r, 1, thing)) = Again
          BY <5>1
        <5> QED BY <1>1, <5>2
          DEF Decide, SizeofDecide, TypeDecide, Compiles, SizeofCompiles, TypeCompiles, Again
      <4>2. SizeOrder[n - 1] = thing
        BY <1>1, <2>2, <4>1 DEF Compiles, SizeofCompiles, TypeCompiles
      <4>3. thing \in SizeSet
        BY <1>0, <2>1, <3>2, <4>2 DEF SizeSet
      <4> QED BY <1>1, <2>2, <3>2, <4>2, <4>3
        DEF Decide, SizeofDecide, TypeDecide, Answer, SizeofAnswer, ProgAnswer, CompilerAnswer, CustomAnswer
    <3> QED BY <3>1, <3>2
  <2>3. CASE Compiles(r, n, thing)
    <3>1. n = Len(SizeOrder) + 1
      BY <1>1, <2>3 DEF Decide, SizeofDecide, TypeDecide, Again
    <3>2. ASSUME NEW i \in 1..Len(SizeOrder) PROVE SizeOrder[i] # thing
      <4>1. CASE i + 1 = n
        BY <1>0, <1>1, <2>3, <4>1 DEF Compiles, SizeofCompiles, TypeCompiles
      <4>2. CASE i + 1 # n
        <5>1. i + 1 \in 1..n - 1 /\ i + 1 > 1 /\ (i + 1) - 1 = i
          BY <1>0, <3>1, <4>2
        <5>2. Decide(r, i + 1, Compiles(r, i + 1, thing)) = Again
          BY <5>1
        <5>3. SizeOrder[i] # "again"
          BY TestsFacts
        <5>4. Compiles(r, i + 1, thing)
          BY <1>1, <5>1, <5>2, <5>3 DEF Decide, SizeofDecide, TypeDecide, Again
        <5> QED BY <1>1, <5>1, <5>4 DEF Compiles, SizeofCompiles, TypeCompiles
      <4> QED BY <4>1, <4>2
    <3>3. thing \notin SizeSet
      BY <3>2 DEF SizeSet
    <3> QED BY <1>1, <2>3, <3>1, <3>3
      DEF Decide, SizeofDecide, TypeDecide, Answer, SizeofAnswer, ProgAnswer, CompilerAnswer, CustomAnswer
  <2> QED BY <2>2, <2>3
<1>2. CASE Kind[r] = "type"
  <2>1. thing \in {"absent", "variable", "type"} /\ n \in 1..2
    BY <1>2 DEF Things, Rounds
  <2>2. CASE n = 1
    BY <1>2, <2>1, <2>2
      DEF Decide, SizeofDecide, TypeDecide, Compiles, SizeofCompiles, TypeCompiles, Answer, SizeofAnswer, ProgAnswer, CompilerAnswer, CustomAnswer, Again
  <2>3. CASE n = 2
    <3>1. Decide(r, 1, Compiles(r, 1, thing)) = Again
      BY <2>3
    <3> QED BY <1>2, <2>1, <2>3, <3>1
      DEF Decide, SizeofDecide, TypeDecide, Compiles, SizeofCompiles, TypeCompiles, Answer, SizeofAnswer, ProgAnswer, CompilerAnswer, CustomAnswer, Again
  <2> QED BY <2>1, <2>2, <2>3
<1>3. CASE Kind[r] \in {"header", "decl", "funclib"}
  BY <1>3
    DEF Decide, SizeofDecide, TypeDecide, Compiles, SizeofCompiles, TypeCompiles, Answer, SizeofAnswer, ProgAnswer, CompilerAnswer, CustomAnswer
<1> QED BY <1>1, <1>2, <1>3 DEF UsesTmpc

(* What a test that writes nothing shared prints is an answer too.         *)
LEMMA AnswerType ==
  ASSUME NEW r \in Req, NEW thing PROVE Answer(r, thing) \in Answers
  BY DEF Answer, SizeofAnswer, ProgAnswer, CompilerAnswer, CustomAnswer, Answers
-----------------------------------------------------------------------------
(* The inductive invariant behind OwnSource and MemoSpec.                  *)

(* Two scripts work on the same files only to read a result that is there. *)
Sharing ==
  \A p, q \in Procs :
    p # q /\ pc[p] # "idle" /\ pc[q] # "idle" /\ File(p) = File(q)
      => pc[p] \in HitPcs /\ nc[p] # "1" /\ cache[File(p)] # None

(* What the test of p has written so far.                                  *)
SourceOK(p) ==
  /\ pc[p] = "include" => /\ Includes(req[p]) /\ p \in held
                          /\ tmpc[File(p)] = <<>>
  /\ pc[p] = "body" => /\ ~Includes(req[p]) => p \in held
                       /\ tmpc[File(p)] = Head1(req[p])
  /\ pc[p] = "compile" => tmpc[File(p)] = Source(req[p], round[p])

(* What p has found out so far.                                            *)
ProgressOK(p) ==
  /\ pc[p] \in {"trunc", "include", "body", "compile"}
       => /\ UsesTmpc(req[p])
          /\ \A m \in 1..round[p] - 1 :
               Decide(req[p], m, Compiles(req[p], m, tool[req[p]])) = Again
  /\ pc[p] \in {"open", "write", "purge"} => ret[p] = Answer(req[p], tool[req[p]])
  /\ pc[p] \in {"cat", "open", "write"} => nc[p] # "1"
  /\ pc[p] = "purge" => nc[p] = "1"
  /\ pc[p] = "write" => p \in held
  /\ pc[p] \in MissPcs \ {"write"} /\ nc[p] # "1" => cache[File(p)] = None

IInv == /\ TypeOK
        /\ Sharing
        /\ \A p \in Procs : SourceOK(p) /\ ProgressOK(p)
-----------------------------------------------------------------------------
(* Type correctness.                                                       *)

LEMMA NoReqType == NoReq \in Req /\ NoValue \in NoCacheValues
<1>1. Req # {} /\ NoCacheValues # {}
  BY TestsAssumption, CacheAssumption DEF TestsAssumption, CacheAssumption
<1> QED BY <1>1 DEF NoReq, NoValue

LEMMA FileType ==
  ASSUME NEW r \in Req, NEW v \in NoCacheValues PROVE <<KeyOf[r], v>> \in Files
BY TestsFacts DEF Files

LEMMA FirstRound ==
  ASSUME NEW r \in Req PROVE 1 \in Rounds(r) /\ Rounds(r) \subseteq Nat
<1>0. Len(SizeOrder) \in Nat
  BY TestsFacts
<1>1. 1 \in 1..Len(SizeOrder) + 1 /\ 1..Len(SizeOrder) + 1 \subseteq Nat
  BY <1>0
<1>2. 1 \in 1..2 /\ 1..2 \subseteq Nat /\ 1 \in {1} /\ {1} \subseteq Nat
  OBVIOUS
<1>3. Rounds(r) \in {1..Len(SizeOrder) + 1, 1..2, {1}}
  BY DEF Rounds
<1> QED BY <1>1, <1>2, <1>3

LEMMA PieceType ==
  ASSUME NEW r \in Req
  PROVE  /\ Incs(r) \in Pieces
         /\ \A n \in Rounds(r) : Body(r, n) \in Pieces
         /\ NoFile \in Seq(Pieces) /\ Garbled \in Seq(Pieces)
<1>1. <<"none">> \in Pieces /\ <<"garbled">> \in Pieces
  BY DEF Pieces
<1>2. NoFile \in Seq(Pieces) /\ Garbled \in Seq(Pieces)
  BY <1>1 DEF NoFile, Garbled
<1>3. Incs(r) \in Pieces
  BY DEF Incs, Pieces
<1>4. ASSUME NEW n \in Rounds(r) PROVE Body(r, n) \in Pieces
  BY <1>4 DEF Body, Pieces
<1> QED BY <1>2, <1>3, <1>4

LEMMA ContentType ==
  ASSUME NEW old \in Seq(Pieces), NEW piece \in Pieces
  PROVE  /\ WriteAtStart(old, piece) \in Seq(Pieces)
         /\ AppendTo(old, piece) \in Seq(Pieces)
<1>1. <<piece>> \in Seq(Pieces) /\ Append(old, piece) \in Seq(Pieces)
  OBVIOUS
<1>2. Garbled \in Seq(Pieces)
  BY NoReqType, PieceType
<1> QED BY <1>1, <1>2 DEF WriteAtStart, AppendTo

(* The types of what a process leaves behind.                              *)
LEMMA GoneType ==
  ASSUME TypeOK, NEW p \in Procs, Gone(p)
  PROVE  /\ held' \subseteq Procs
         /\ pc' \in [Procs -> PCs]
         /\ req' \in [Procs -> Req]
         /\ nc' \in [Procs -> NoCacheValues]
         /\ opt' \in [Procs -> {"", "-d", "-D"}]
         /\ ret' \in [Procs -> Answers]
         /\ round' \in [Procs -> Nat]
         /\ \A q \in Procs : /\ round'[q] \in Rounds(req'[q])
                             /\ pc'[q] \in {"idle", "test"} => round'[q] = 1
<1>1. "idle" \in PCs /\ "" \in Answers
  BY DEF PCs, Answers
<1>2. 1 \in Rounds(NoReq)
  BY NoReqType, FirstRound
<1> QED BY <1>1, <1>2, NoReqType DEF TypeOK, Gone, Goto

LEMMA TypeInit == Init => TypeOK
<1> SUFFICES ASSUME Init PROVE TypeOK
  OBVIOUS
<1>1. "idle" \in PCs /\ "" \in Answers
  BY DEF PCs, Answers
<1>2. 1 \in Rounds(NoReq) /\ NoFile \in Seq(Pieces)
  BY NoReqType, FirstRound, PieceType
<1> QED BY <1>1, <1>2, NoReqType DEF Init, TypeOK

LEMMA TypeNext == TypeOK /\ [Next]_vars => TypeOK'
<1> SUFFICES ASSUME TypeOK, [Next]_vars PROVE TypeOK'
  OBVIOUS
<1> USE DEF Goto
<1>0. ASSUME NEW p \in Procs
      PROVE  /\ File(p) \in Files /\ req[p] \in Req /\ ret[p] \in Answers
             /\ nc[p] \in NoCacheValues /\ round[p] \in Nat
  BY FileType DEF File, TypeOK
<1>pcs. PCs = {"idle", "test", "cat", "cleanup", "print", "trunc", "include", "body",
               "compile", "run", "open", "write", "purge", "rmcache", "rmtmp", "exit"}
  BY DEF PCs, HitPcs, MissPcs, DelPcs
<1>1. ASSUME NEW p \in Procs, NEW r \in Req, NEW v \in NoCacheValues, Start(p, r, v)
      PROVE  TypeOK'
  <2>1. 1 \in Rounds(r)
    BY FirstRound
  <2> QED BY <1>1, <1>pcs, <2>1 DEF TypeOK, Start, files
<1>2. ASSUME NEW p \in Procs, NEW r \in Req, NEW v \in NoCacheValues,
             NEW o \in {"-d", "-D"}, StartDelete(p, r, v, o)
      PROVE  TypeOK'
  <2>1. 1 \in Rounds(r)
    BY FirstRound
  <2> QED BY <1>2, <1>pcs, <2>1 DEF TypeOK, StartDelete, files
<1>3. ASSUME NEW p \in Procs, Test(p) PROVE TypeOK'
  BY <1>3, <1>0, <1>pcs DEF TypeOK, Test, locals
<1>4. ASSUME NEW p \in Procs, Cat(p) PROVE TypeOK'
  <2>1. CASE cache[File(p)] = None
    <3>1. Gone(p) /\ UNCHANGED files
      BY <1>4, <2>1 DEF Cat
    <3> QED BY <3>1, GoneType DEF TypeOK, files
  <2>2. CASE cache[File(p)] # None
    BY <1>4, <1>0, <1>pcs, <2>2 DEF TypeOK, Cat, files
  <2> QED BY <2>1, <2>2
<1>5. ASSUME NEW p \in Procs, Trunc(p) PROVE TypeOK'
  <2>1. <<>> \in Seq(Pieces)
    OBVIOUS
  <2>2. tmpc' \in [Files -> Seq(Pieces)] /\ held' \subseteq Procs
    BY <1>5, <1>0, <2>1 DEF TypeOK, Trunc
  <2>3. /\ pc' \in [Procs -> PCs]
        /\ \A q \in Procs : pc'[q] \in {"idle", "test"} => pc[q] \in {"idle", "test"}
    BY <1>5, <1>pcs DEF TypeOK, Trunc
  <2> QED BY <1>5, <2>2, <2>3 DEF TypeOK, Trunc, locals
<1>6. ASSUME NEW p \in Procs, WriteIncludes(p) PROVE TypeOK'
  <2>1. WriteAtStart(tmpc[File(p)], Incs(req[p])) \in Seq(Pieces)
    BY <1>0, PieceType, ContentType DEF TypeOK
  <2> QED BY <1>6, <1>0, <1>pcs, <2>1 DEF TypeOK, WriteIncludes, WriteHeld, locals
<1>7. ASSUME NEW p \in Procs, WriteBody(p) PROVE TypeOK'
  <2> DEFINE piece == Body(req[p], round[p])
  <2>0. piece \in Pieces
    BY <1>0, PieceType DEF TypeOK
  <2>1. /\ WriteAtStart(tmpc[File(p)], piece) \in Seq(Pieces)
        /\ AppendTo(tmpc[File(p)], piece) \in Seq(Pieces)
    BY <1>0, <2>0, ContentType DEF TypeOK
  <2>2. CASE Includes(req[p])
    BY <1>7, <1>0, <1>pcs, <2>1, <2>2 DEF TypeOK, WriteBody, locals
  <2>3. CASE ~Includes(req[p])
    BY <1>7, <1>0, <1>pcs, <2>1, <2>3 DEF TypeOK, WriteBody, WriteHeld, locals
  <2> QED BY <2>2, <2>3
<1>8. ASSUME NEW p \in Procs, Compile(p) PROVE TypeOK'
  <2>1. PICK ok \in Verdicts(tmpc[File(p)], req[p], round[p]) :
          LET a == Decide(req[p], round[p], ok) IN
          IF a = Again
          THEN round' = [round EXCEPT ![p] = @ + 1] /\ Goto(p, "trunc") /\ UNCHANGED ret
          ELSE Answered(p, a)
    BY <1>8 DEF Compile
  <2>2. ok \in BOOLEAN
    <3>1. Verdicts(tmpc[File(p)], req[p], round[p]) \subseteq BOOLEAN
      <4>1. Compiles(req[p], round[p], tool[req[p]]) \in BOOLEAN
        BY DEF Compiles, SizeofCompiles, TypeCompiles
      <4> QED BY <4>1 DEF Verdicts
    <3> QED BY <3>1
  <2>3. /\ Decide(req[p], round[p], ok) \in Answers \cup {Again}
        /\ Decide(req[p], round[p], ok) = Again => round[p] + 1 \in Rounds(req[p])
    BY <1>0, <2>2, DecideType DEF TypeOK
  <2>4. CASE Decide(req[p], round[p], ok) = Again
    <3>1. round[p] + 1 \in Rounds(req[p]) /\ round[p] + 1 \in Nat
      BY <1>0, <2>3, <2>4
    <3>2. /\ round' = [round EXCEPT ![p] = @ + 1]
          /\ pc' = [pc EXCEPT ![p] = "trunc"]
          /\ UNCHANGED <<files, held, req, nc, opt, ret>>
      BY <1>8, <2>1, <2>4 DEF Compile
    <3> QED BY <1>pcs, <3>1, <3>2 DEF TypeOK, files
  <2>5. CASE Decide(req[p], round[p], ok) # Again
    BY <1>8, <1>0, <1>pcs, <2>1, <2>3, <2>5 DEF TypeOK, Compile, Answered, files
  <2> QED BY <2>4, <2>5
<1>9. ASSUME NEW p \in Procs, Run(p) PROVE TypeOK'
  <2>1. CASE tool[req[p]] = "fails"
    <3>1. Gone(p) /\ UNCHANGED files
      BY <1>9, <2>1 DEF Run
    <3> QED BY <3>1, GoneType DEF TypeOK, files
  <2>2. CASE tool[req[p]] # "fails"
    <3>1. Answer(req[p], tool[req[p]]) \in Answers
      BY <1>0, AnswerType
    <3> QED BY <1>9, <1>0, <1>pcs, <2>2, <3>1 DEF TypeOK, Run, Answered, files
  <2> QED BY <2>1, <2>2
<1>10. ASSUME NEW p \in Procs, Open(p) PROVE TypeOK'
  <2>1. "" \in Answers
    BY DEF Answers
  <2> QED BY <1>10, <1>0, <1>pcs, <2>1 DEF TypeOK, Open, locals
<1>11. ASSUME NEW p \in Procs, Write(p) PROVE TypeOK'
  BY <1>11, <1>0, <1>pcs DEF TypeOK, Write, locals
<1>nof. NoFile \in Seq(Pieces)
  BY NoReqType, PieceType
<1>12. ASSUME NEW p \in Procs, Purge(p) PROVE TypeOK'
  BY <1>12, <1>0, <1>pcs, <1>nof DEF TypeOK, Purge, RmSource, locals
<1>13. ASSUME NEW p \in Procs, Cleanup(p) PROVE TypeOK'
  BY <1>13, <1>0, <1>pcs, <1>nof DEF TypeOK, Cleanup, RmSource, locals
<1>14. ASSUME NEW p \in Procs, Finish(p) \/ Exit(p) PROVE TypeOK'
  <2>1. Gone(p) /\ UNCHANGED files
    BY <1>14 DEF Finish, Exit
  <2> QED BY <2>1, GoneType DEF TypeOK, files
<1>15. ASSUME NEW p \in Procs, RmCache(p) PROVE TypeOK'
  BY <1>15, <1>0, <1>pcs DEF TypeOK, RmCache, locals
<1>16. ASSUME NEW p \in Procs, RmTmp(p) PROVE TypeOK'
  BY <1>16, <1>0, <1>pcs, <1>nof DEF TypeOK, RmTmp, RmSource, locals
<1>17. ASSUME NEW p \in Procs, Crash(p) PROVE TypeOK'
  <2>1. Gone(p) /\ UNCHANGED files
    BY <1>17 DEF Crash
  <2> QED BY <2>1, GoneType DEF TypeOK, files
<1>18. ASSUME NEW r \in Req, NEW thing \in Things(r), Change(r, thing) PROVE TypeOK'
  BY <1>18 DEF TypeOK, Change, procs, locals
<1>19. CASE UNCHANGED vars
  BY <1>19 DEF TypeOK, vars, files, procs, locals
<1> QED
  BY <1>1, <1>2, <1>3, <1>4, <1>5, <1>6, <1>7, <1>8, <1>9, <1>10, <1>11, <1>12,
     <1>13, <1>14, <1>15, <1>16, <1>17, <1>18, <1>19 DEF Next, Step

(* Every variable keeps its type, whatever the processes do to each other  *)
(* and wherever they are killed; the round counter of a test never leaves  *)
(* the rounds the test has.                                                *)
THEOREM TypeCorrect == Spec => []TypeOK
BY TypeInit, TypeNext, PTL DEF Spec
-----------------------------------------------------------------------------
(* What a step of one process leaves alone.                                *)

LEMMA GoneLocals ==
  ASSUME TypeOK, NEW p \in Procs, Gone(p)
  PROVE  /\ \A q \in Procs \ {p} :
              /\ pc'[q] = pc[q] /\ req'[q] = req[q] /\ nc'[q] = nc[q]
              /\ round'[q] = round[q] /\ ret'[q] = ret[q]
              /\ q \in held => q \in held'
         /\ pc'[p] = "idle"
BY DEF TypeOK, Gone, Goto

LEMMA StepLocals ==
  ASSUME TypeOK, NEW p \in Procs, Step(p) \/ Crash(p)
  PROVE  /\ \A q \in Procs \ {p} :
              /\ pc'[q] = pc[q] /\ req'[q] = req[q] /\ nc'[q] = nc[q]
              /\ round'[q] = round[q] /\ ret'[q] = ret[q]
         /\ pc[p] # "idle"
         /\ pc'[p] # "idle" => req'[p] = req[p] /\ nc'[p] = nc[p]
<1> USE DEF Goto
<1>1. CASE Gone(p) /\ pc[p] # "idle"
  BY <1>1, GoneLocals
<1>2. CASE Test(p) \/ Trunc(p) \/ WriteIncludes(p) \/ Open(p) \/ Write(p)
           \/ Purge(p) \/ Cleanup(p) \/ RmTmp(p)
  BY <1>2 DEF TypeOK, Test, Trunc, WriteIncludes, Open, Write, Purge, Cleanup, RmTmp, locals
<1>3. CASE WriteBody(p) \/ RmCache(p)
  BY <1>3 DEF TypeOK, WriteBody, RmCache, locals
<1>4. CASE Cat(p) /\ cache[File(p)] # None
  BY <1>4 DEF TypeOK, Cat
<1>5. CASE Compile(p)
  <2>1. PICK ok \in Verdicts(tmpc[File(p)], req[p], round[p]) :
          LET a == Decide(req[p], round[p], ok) IN
          IF a = Again
          THEN round' = [round EXCEPT ![p] = @ + 1] /\ Goto(p, "trunc") /\ UNCHANGED ret
          ELSE Answered(p, a)
    BY <1>5 DEF Compile
  <2>2. CASE Decide(req[p], round[p], ok) = Again
    BY <1>5, <2>1, <2>2 DEF TypeOK, Compile
  <2>3. CASE Decide(req[p], round[p], ok) # Again
    BY <1>5, <2>1, <2>3 DEF TypeOK, Compile, Answered
  <2> QED BY <2>2, <2>3
<1>6. CASE Run(p) /\ tool[req[p]] # "fails"
  BY <1>6 DEF TypeOK, Run, Answered
<1>7. CASE Finish(p) \/ Exit(p) \/ Crash(p) \/ (Run(p) /\ tool[req[p]] = "fails")
           \/ (Cat(p) /\ cache[File(p)] = None)
  <2>1. Gone(p) /\ pc[p] # "idle"
    BY <1>7 DEF Finish, Exit, Crash, Run, Cat
  <2> QED BY <1>1, <2>1
<1> QED BY <1>2, <1>3, <1>4, <1>5, <1>6, <1>7 DEF Step

LEMMA StepFiles ==
  ASSUME TypeOK, NEW p \in Procs, Step(p) \/ Crash(p)
  PROVE  /\ tool' = tool
         /\ \A f \in Files : f # File(p) => cache'[f] = cache[f] /\ tmpc'[f] = tmpc[f]
         /\ \A q \in Procs \ {p} : q \in held /\ File(q) # File(p) => q \in held'
         /\ cache' # cache => pc[p] \in {"open", "write", "rmcache"}
<1>0. File(p) \in Files
  BY FileType DEF File, TypeOK
<1>1. CASE Gone(p) /\ UNCHANGED files
  BY <1>1, GoneLocals DEF files
<1>2. CASE Test(p) \/ Open(p) \/ Write(p) \/ Trunc(p)
  BY <1>2 DEF TypeOK, Test, Open, Write, Trunc, locals
<1>3. CASE WriteIncludes(p) \/ WriteBody(p)
  BY <1>3 DEF TypeOK, WriteIncludes, WriteBody, WriteHeld, locals
<1>4. CASE Purge(p) \/ Cleanup(p) \/ RmTmp(p)
  <2>1. \A q \in held \ {p} : File(q) # File(p) => q \notin Holding(File(p), {"include", "body"})
    BY DEF Holding
  <2>2. CASE Cleanup(p)
    BY <2>1, <2>2 DEF TypeOK, Cleanup, RmSource
  <2>3. CASE Purge(p)
    BY <2>1, <2>3 DEF TypeOK, Purge, RmSource
  <2>4. CASE RmTmp(p)
    BY <2>1, <2>4 DEF TypeOK, RmTmp, RmSource
  <2> QED BY <1>4, <2>2, <2>3, <2>4
<1>5. CASE RmCache(p)
  BY <1>5 DEF TypeOK, RmCache, Holding
<1>6. CASE Compile(p) \/ (Cat(p) /\ cache[File(p)] # None) \/ (Run(p) /\ tool[req[p]] # "fails")
  BY <1>6 DEF Compile, Cat, Run, files
<1>7. CASE Finish(p) \/ Exit(p) \/ Crash(p) \/ (Run(p) /\ tool[req[p]] = "fails")
           \/ (Cat(p) /\ cache[File(p)] = None)
  BY <1>1, <1>7 DEF Finish, Exit, Crash, Run, Cat
<1> QED BY <1>2, <1>3, <1>4, <1>5, <1>6, <1>7 DEF Step

(* A process that reads a result that is there goes on reading.            *)
LEMMA StepHit ==
  ASSUME TypeOK, NEW p \in Procs, Step(p) \/ Crash(p),
         pc[p] \in HitPcs, nc[p] # "1", cache[File(p)] # None
  PROVE  pc'[p] \in HitPcs \cup {"idle"}
<1> USE DEF Goto, HitPcs
<1>1. Test(p) \/ Cat(p) \/ Cleanup(p) \/ Finish(p) \/ Crash(p)
  BY DEF Step, Trunc, WriteIncludes, WriteBody, Compile, Run, Open, Write, Purge, RmCache, RmTmp, Exit
<1>2. CASE Test(p)
  BY <1>2 DEF Test, TypeOK
<1>3. CASE Cat(p)
  BY <1>3 DEF Cat, TypeOK
<1>4. CASE Cleanup(p)
  BY <1>4 DEF Cleanup, TypeOK
<1>5. CASE Finish(p) \/ Crash(p)
  BY <1>5, GoneLocals DEF Finish, Crash
<1> QED BY <1>1, <1>2, <1>3, <1>4, <1>5
-----------------------------------------------------------------------------
(* The discipline keeps processes with the same files apart, unless they   *)
(* only read.                                                              *)
LEMMA SharingNext ==
  ASSUME TypeOK, Sharing, Overlap = FALSE, [Next]_vars PROVE Sharing'
<1> SUFFICES ASSUME NEW x \in Procs, NEW y \in Procs, x # y,
                    pc'[x] # "idle", pc'[y] # "idle", File(x)' = File(y)'
             PROVE  pc'[x] \in HitPcs /\ nc'[x] # "1" /\ cache'[File(x)'] # None
  BY DEF Sharing
<1>1. ASSUME NEW p \in Procs, Step(p) \/ Crash(p)
      PROVE  pc'[x] \in HitPcs /\ nc'[x] # "1" /\ cache'[File(x)'] # None
  <2>1. /\ pc[x] # "idle" /\ pc[y] # "idle"
        /\ req'[x] = req[x] /\ nc'[x] = nc[x] /\ req'[y] = req[y] /\ nc'[y] = nc[y]
    BY <1>1, StepLocals
  <2>2. File(x)' = File(x) /\ File(y)' = File(y)
    BY <2>1 DEF File
  <2>3. /\ pc[x] \in HitPcs /\ nc[x] # "1" /\ cache[File(x)] # None
        /\ pc[y] \in HitPcs /\ nc[y] # "1" /\ cache[File(y)] # None
    BY <2>1, <2>2 DEF Sharing
  <2>4. cache'[File(x)] = cache[File(x)]
    <3>1. CASE File(p) = File(x)
      <4>1. p = x \/ pc[p] \in HitPcs
        BY <1>1, <2>1, <3>1, StepLocals DEF Sharing
      <4>2. pc[p] \in HitPcs
        BY <2>3, <4>1
      <4> QED BY <1>1, <4>2, StepFiles DEF HitPcs
    <3>2. CASE File(p) # File(x)
      <4>1. File(x) \in Files
        BY FileType DEF File, TypeOK
      <4> QED BY <1>1, <3>2, <4>1, StepFiles
    <3> QED BY <3>1, <3>2
  <2>5. pc'[x] \in HitPcs
    <3>1. CASE x = p
      BY <1>1, <2>3, <3>1, StepHit
    <3>2. CASE x # p
      BY <1>1, <2>3, <3>2, StepLocals
    <3> QED BY <3>1, <3>2
  <2> QED BY <2>1, <2>2, <2>3, <2>4, <2>5
<1>2. ASSUME NEW p \in Procs, NEW r \in Req, NEW v \in NoCacheValues, Start(p, r, v)
      PROVE  pc'[x] \in HitPcs /\ nc'[x] # "1" /\ cache'[File(x)'] # None
  <2> DEFINE f == <<KeyOf[r], v>>
  <2>1. /\ \A q \in Procs \ {p} : pc'[q] = pc[q] /\ req'[q] = req[q] /\ nc'[q] = nc[q]
        /\ req'[p] = r /\ nc'[p] = v /\ pc'[p] = "test" /\ cache' = cache
    BY <1>2 DEF TypeOK, Start, Goto, files
  <2>2. File(p)' = f /\ \A q \in Procs \ {p} : File(q)' = File(q)
    BY <2>1 DEF File
  <2>3. ASSUME NEW q \in Procs \ {p}, pc[q] # "idle", File(q) = f
        PROVE  pc[q] \in HitPcs /\ cache[f] # None /\ v # "1" /\ nc[q] = v
    <3>1. f[2] = v /\ nc[q] = v
      BY <2>3 DEF File
    <3>2. cache[f] # None /\ f[2] # "1"
           /\ \A z \in Procs : pc[z] # "idle" /\ File(z) = f => pc[z] \in HitPcs
      BY <1>2, <2>3 DEF Start, MayStart
    <3> QED BY <2>3, <3>1, <3>2
  <2>4. CASE x = p
    BY <2>1, <2>2, <2>3, <2>4 DEF HitPcs
  <2>5. CASE y = p
    BY <2>1, <2>2, <2>3, <2>5 DEF HitPcs
  <2>6. CASE x # p /\ y # p
    BY <2>1, <2>2, <2>6 DEF Sharing
  <2> QED BY <2>4, <2>5, <2>6
<1>3. ASSUME NEW p \in Procs, NEW r \in Req, NEW v \in NoCacheValues,
             NEW o \in {"-d", "-D"}, StartDelete(p, r, v, o)
      PROVE  pc'[x] \in HitPcs /\ nc'[x] # "1" /\ cache'[File(x)'] # None
  <2>1. /\ \A q \in Procs \ {p} : pc'[q] = pc[q] /\ req'[q] = req[q] /\ nc'[q] = nc[q]
        /\ req'[p] = r /\ nc'[p] = v /\ cache' = cache
        /\ \A q \in Procs : pc[q] # "idle" => File(q) # <<KeyOf[r], v>>
    BY <1>3 DEF TypeOK, StartDelete, Goto, files
  <2>2. File(p)' = <<KeyOf[r], v>> /\ \A q \in Procs \ {p} : File(q)' = File(q)
    BY <2>1 DEF File
  <2>3. x # p /\ y # p
    BY <2>1, <2>2
  <2> QED BY <2>1, <2>2, <2>3 DEF Sharing
<1>4. ASSUME NEW r \in Req, NEW thing \in Things(r), Change(r, thing) PROVE FALSE
  BY <1>4 DEF Change, procs
<1>5. CASE UNCHANGED vars
  BY <1>5 DEF Sharing, File, vars, files, procs, locals
<1> QED BY <1>1, <1>2, <1>3, <1>4, <1>5 DEF Next

(* A process whose test is running has its files to itself.                *)
LEMMA Alone ==
  ASSUME Sharing, NEW p \in Procs, NEW q \in Procs \ {p}, pc[p] # "idle", pc[q] \in MissPcs
  PROVE  File(p) # File(q)
BY DEF Sharing, MissPcs, HitPcs

(* What other processes do disturbs neither the source nor the progress of *)
(* a test.                                                                 *)
LEMMA Undisturbed ==
  ASSUME TypeOK, Sharing, NEW p \in Procs, Step(p) \/ Crash(p), NEW q \in Procs \ {p},
         SourceOK(q), ProgressOK(q)
  PROVE  SourceOK(q)' /\ ProgressOK(q)'
<1>1. /\ pc'[q] = pc[q] /\ req'[q] = req[q] /\ nc'[q] = nc[q]
      /\ round'[q] = round[q] /\ ret'[q] = ret[q] /\ pc[p] # "idle"
  BY StepLocals
<1>2. File(q)' = File(q) /\ File(q) \in Files
  BY <1>1, FileType DEF File, TypeOK
<1>3. CASE pc[q] \in MissPcs
  <2>1. File(q) # File(p)
    BY <1>1, <1>3, Alone
  <2>2. /\ cache'[File(q)] = cache[File(q)] /\ tmpc'[File(q)] = tmpc[File(q)]
        /\ q \in held => q \in held'
        /\ tool' = tool
    BY <1>2, <2>1, StepFiles
  <2>3. SourceOK(q)'
    BY <1>1, <1>2, <2>2 DEF SourceOK
  <2>4. ProgressOK(q)'
    BY <1>1, <1>2, <2>2 DEF ProgressOK
  <2> QED BY <2>3, <2>4
<1>4. CASE pc[q] \notin MissPcs
  BY <1>1, <1>4 DEF SourceOK, ProgressOK, MissPcs
<1> QED BY <1>3, <1>4

(* The step of a process takes its own test forward.                       *)
LEMMA OwnStep ==
  ASSUME TypeOK, Sharing, NEW p \in Procs, Step(p) \/ Crash(p),
         SourceOK(p), ProgressOK(p)
  PROVE  SourceOK(p)' /\ ProgressOK(p)'
<1> USE DEF Goto
<1>0. /\ File(p) \in Files /\ req[p] \in Req /\ nc[p] \in NoCacheValues
      /\ round[p] \in Rounds(req[p]) /\ round[p] \in Nat /\ tool' = tool
  BY FileType, StepFiles DEF File, TypeOK
<1>1. CASE pc'[p] = "idle"
  BY <1>1 DEF SourceOK, ProgressOK, MissPcs
<1>2. CASE pc'[p] # "idle"
  <2>0. req'[p] = req[p] /\ nc'[p] = nc[p] /\ File(p)' = File(p)
    BY <1>2, StepLocals DEF File
  <2>1. CASE Test(p)
    <3>1. CASE pc'[p] = "cat"
      <4>1. nc[p] # "1"
        BY <2>1, <3>1 DEF Test, TypeOK
      <4> QED BY <2>0, <3>1, <4>1 DEF SourceOK, ProgressOK, MissPcs
    <3>2. CASE pc'[p] # "cat"
      <4>1. /\ nc[p] = "1" \/ cache[File(p)] = None
            /\ pc'[p] = IF UsesTmpc(req[p]) THEN "trunc" ELSE "run"
            /\ cache' = cache /\ round' = round
        BY <2>1, <3>2 DEF Test, TypeOK, locals
      <4>2. round[p] = 1 /\ 1..round[p] - 1 = {}
        <5>1. pc[p] = "test"
          BY <2>1 DEF Test
        <5>2. round[p] = 1
          BY <5>1 DEF TypeOK
        <5>3. 1..(1 - 1) = {}
          OBVIOUS
        <5> QED BY <5>2, <5>3
      <4>3. SourceOK(p)'
        BY <4>1 DEF SourceOK
      <4>4. ProgressOK(p)'
        BY <2>0, <4>1, <4>2 DEF ProgressOK
      <4> QED BY <4>3, <4>4
    <3> QED BY <3>1, <3>2
  <2>2. CASE Cat(p) \/ Cleanup(p) \/ Finish(p) \/ RmCache(p) \/ RmTmp(p) \/ Exit(p) \/ Crash(p)
    <3>1. pc'[p] \in {"cleanup", "print", "rmtmp", "exit"}
      BY <1>2, <2>2, GoneLocals DEF Cat, Cleanup, Finish, RmCache, RmTmp, Exit, Crash, TypeOK
    <3> QED BY <3>1 DEF SourceOK, ProgressOK, MissPcs
  <2>3. CASE Trunc(p)
    <3>1. /\ tmpc'[File(p)] = <<>> /\ p \in held' /\ cache' = cache /\ round' = round
          /\ pc'[p] = IF Includes(req[p]) THEN "include" ELSE "body"
          /\ pc[p] = "trunc"
      BY <1>0, <2>3 DEF Trunc, TypeOK, locals
    <3>2. SourceOK(p)'
      BY <2>0, <3>1 DEF SourceOK, Head1
    <3>3. ProgressOK(p)'
      BY <1>0, <2>0, <3>1 DEF ProgressOK, MissPcs
    <3> QED BY <3>2, <3>3
  <2>4. CASE WriteIncludes(p)
    <3>1. /\ pc[p] = "include" /\ pc'[p] = "body" /\ cache' = cache /\ round' = round
          /\ tmpc'[File(p)] = WriteAtStart(tmpc[File(p)], Incs(req[p]))
          /\ Includes(req[p]) /\ tmpc[File(p)] = <<>>
      BY <1>0, <2>4 DEF WriteIncludes, WriteHeld, TypeOK, locals, SourceOK
    <3>2. tmpc'[File(p)] = Head1(req[p])
      BY <3>1 DEF WriteAtStart, Head1
    <3>3. SourceOK(p)'
      BY <2>0, <3>1, <3>2 DEF SourceOK
    <3>4. ProgressOK(p)'
      BY <1>0, <2>0, <3>1 DEF ProgressOK, MissPcs
    <3> QED BY <3>3, <3>4
  <2>5. CASE WriteBody(p)
    <3> DEFINE b == Body(req[p], round[p])
    <3>1. /\ pc[p] = "body" /\ pc'[p] = "compile" /\ cache' = cache /\ round' = round
          /\ tmpc[File(p)] = Head1(req[p])
          /\ ~Includes(req[p]) => p \in held
      BY <1>0, <2>5 DEF WriteBody, TypeOK, locals, SourceOK
    <3>2. tmpc'[File(p)] = Source(req[p], round[p])
      <4>1. CASE Includes(req[p])
        <5>1. Head1(req[p]) = <<Incs(req[p])>> /\ Head1(req[p])[1][1] = "include"
          BY <4>1 DEF Head1, Incs
        <5>2. NoFile[1][1] = "none"
          BY DEF NoFile
        <5>3. Head1(req[p]) # NoFile
          BY <5>1, <5>2
        <5>4. tmpc'[File(p)] = AppendTo(Head1(req[p]), b)
          BY <1>0, <2>5, <3>1, <4>1 DEF WriteBody, TypeOK
        <5> QED BY <5>3, <5>4 DEF AppendTo, Source
      <4>2. CASE ~Includes(req[p])
        <5>1. Head1(req[p]) = <<>>
          BY <4>2 DEF Head1
        <5>2. tmpc'[File(p)] = WriteAtStart(<<>>, b)
          BY <1>0, <2>5, <3>1, <4>2, <5>1 DEF WriteBody, WriteHeld, TypeOK
        <5>3. Append(<<>>, b) = <<b>>
          OBVIOUS
        <5> QED BY <5>1, <5>2, <5>3 DEF WriteAtStart, Source
      <4> QED BY <4>1, <4>2
    <3>3. SourceOK(p)'
      BY <2>0, <3>1, <3>2 DEF SourceOK
    <3>4. ProgressOK(p)'
      BY <1>0, <2>0, <3>1 DEF ProgressOK, MissPcs
    <3> QED BY <3>3, <3>4
  <2>6. CASE Compile(p)
    <3> DEFINE r == req[p]
               n == round[p]
               ok == Compiles(r, n, tool[r])
    <3>1. tmpc[File(p)] = Source(r, n) /\ pc[p] = "compile"
      BY <2>6 DEF Compile, SourceOK
    <3>2. Source(r, n) # NoFile
      <4>1. Source(r, n)[1][1] \in {"include", "body"}
        BY DEF Source, Head1, Incs, Body
      <4>2. NoFile[1][1] = "none"
        BY DEF NoFile
      <4> QED BY <4>1, <4>2
    <3>3. Verdicts(tmpc[File(p)], r, n) = {ok}
      BY <3>1, <3>2 DEF Verdicts
    <3>4. /\ cache' = cache
          /\ IF Decide(r, n, ok) = Again
             THEN round'[p] = n + 1 /\ pc'[p] = "trunc"
             ELSE /\ ret'[p] = Decide(r, n, ok)
                  /\ pc'[p] = IF nc[p] = "1" THEN "purge" ELSE "open"
      BY <2>6, <3>3 DEF Compile, Answered, TypeOK, files
    <3>5. /\ UsesTmpc(r)
          /\ \A m \in 1..n - 1 : Decide(r, m, Compiles(r, m, tool[r])) = Again
          /\ nc[p] # "1" => cache[File(p)] = None
      BY <3>1 DEF ProgressOK, MissPcs
    <3>6. CASE Decide(r, n, ok) = Again
      <4>1. \A m \in 1..round'[p] - 1 : m \in 1..n - 1 \/ m = n
        BY <1>0, <3>4, <3>6
      <4>2. \A m \in 1..round'[p] - 1 : Decide(r, m, Compiles(r, m, tool[r])) = Again
        BY <3>5, <3>6, <4>1
      <4>3. SourceOK(p)'
        BY <3>4, <3>6 DEF SourceOK
      <4>4. ProgressOK(p)'
        BY <1>0, <2>0, <3>4, <3>5, <3>6, <4>2 DEF ProgressOK
      <4> QED BY <4>3, <4>4
    <3>7. CASE Decide(r, n, ok) # Again
      <4>1. tool[r] \in Things(r)
        BY <1>0 DEF TypeOK
      <4>2. Decide(r, n, ok) = Answer(r, tool[r])
        BY <1>0, <3>5, <3>7, <4>1, DecideAnswer
      <4>3. SourceOK(p)'
        BY <3>4, <3>7 DEF SourceOK
      <4>4. ProgressOK(p)'
        BY <1>0, <2>0, <3>4, <3>5, <3>7, <4>2 DEF ProgressOK
      <4> QED BY <4>3, <4>4
    <3> QED BY <3>6, <3>7
  <2>7. CASE Run(p)
    <3>1. /\ pc[p] = "run" /\ cache' = cache
          /\ ret'[p] = Answer(req[p], tool[req[p]])
          /\ pc'[p] = IF nc[p] = "1" THEN "purge" ELSE "open"
      BY <1>2, <2>7, GoneLocals DEF Run, Answered, TypeOK, files
    <3>2. SourceOK(p)'
      BY <3>1 DEF SourceOK
    <3>3. ProgressOK(p)'
      BY <1>0, <2>0, <3>1 DEF ProgressOK, MissPcs
    <3> QED BY <3>2, <3>3
  <2>8. CASE Open(p)
    <3>1. pc[p] = "open" /\ pc'[p] = "write" /\ p \in held' /\ ret' = ret
      BY <2>8 DEF Open, TypeOK, locals
    <3>2. SourceOK(p)'
      BY <3>1 DEF SourceOK
    <3>3. ProgressOK(p)'
      BY <1>0, <2>0, <3>1 DEF ProgressOK
    <3> QED BY <3>2, <3>3
  <2>9. CASE Write(p) \/ Purge(p)
    <3>1. pc'[p] = "cleanup"
      BY <2>9 DEF Write, Purge, TypeOK
    <3> QED BY <3>1 DEF SourceOK, ProgressOK, MissPcs
  <2> QED
    BY <2>1, <2>2, <2>3, <2>4, <2>5, <2>6, <2>7, <2>8, <2>9 DEF Step
<1> QED BY <1>1, <1>2

LEMMA InvInit == Init => IInv
<1> SUFFICES ASSUME Init PROVE IInv
  OBVIOUS
<1>1. TypeOK
  BY TypeInit
<1>2. \A p \in Procs : pc[p] = "idle"
  BY DEF Init
<1>3. Sharing
  BY <1>2 DEF Sharing
<1>4. ASSUME NEW p \in Procs PROVE SourceOK(p) /\ ProgressOK(p)
  BY <1>2 DEF SourceOK, ProgressOK, MissPcs
<1> QED BY <1>1, <1>3, <1>4 DEF IInv

LEMMA InvNext == Overlap = FALSE /\ IInv /\ [Next]_vars => IInv'
<1> SUFFICES ASSUME Overlap = FALSE, IInv, [Next]_vars PROVE IInv'
  OBVIOUS
<1> USE DEF Goto
<1>1. TypeOK' /\ Sharing'
  BY TypeNext, SharingNext DEF IInv
<1>2. ASSUME NEW p \in Procs, Step(p) \/ Crash(p), NEW q \in Procs
      PROVE  SourceOK(q)' /\ ProgressOK(q)'
  <2>1. CASE q = p
    BY <1>2, <2>1, OwnStep DEF IInv
  <2>2. CASE q # p
    BY <1>2, <2>2, Undisturbed DEF IInv
  <2> QED BY <2>1, <2>2
<1>3. ASSUME NEW p \in Procs, NEW label \in {"test", "rmcache"},
             \A q \in Procs \ {p} : /\ pc'[q] = pc[q] /\ req'[q] = req[q] /\ nc'[q] = nc[q]
                                    /\ round'[q] = round[q] /\ ret'[q] = ret[q],
             pc'[p] = label, held' = held, UNCHANGED files, NEW q \in Procs
      PROVE  SourceOK(q)' /\ ProgressOK(q)'
  <2>1. CASE q = p
    BY <1>3, <2>1 DEF SourceOK, ProgressOK, MissPcs
  <2>2. CASE q # p
    <3>1. File(q)' = File(q)
      BY <1>3, <2>2 DEF File
    <3>2. SourceOK(q) /\ ProgressOK(q)
      BY DEF IInv
    <3>3. SourceOK(q)'
      BY <1>3, <2>2, <3>1, <3>2 DEF SourceOK, files
    <3>4. ProgressOK(q)'
      BY <1>3, <2>2, <3>1, <3>2 DEF ProgressOK, files
    <3> QED BY <3>3, <3>4
  <2> QED BY <2>1, <2>2
<1>4. ASSUME NEW p \in Procs, NEW r \in Req, NEW v \in NoCacheValues, Start(p, r, v), NEW q \in Procs
      PROVE  SourceOK(q)' /\ ProgressOK(q)'
  <2>1. /\ \A z \in Procs \ {p} : /\ pc'[z] = pc[z] /\ req'[z] = req[z] /\ nc'[z] = nc[z]
                                   /\ round'[z] = round[z] /\ ret'[z] = ret[z]
        /\ pc'[p] = "test" /\ held' = held /\ UNCHANGED files
    BY <1>4 DEF IInv, TypeOK, Start
  <2> QED BY <1>3, <2>1
<1>5. ASSUME NEW p \in Procs, NEW r \in Req, NEW v \in NoCacheValues,
             NEW o \in {"-d", "-D"}, StartDelete(p, r, v, o), NEW q \in Procs
      PROVE  SourceOK(q)' /\ ProgressOK(q)'
  <2>1. /\ \A z \in Procs \ {p} : /\ pc'[z] = pc[z] /\ req'[z] = req[z] /\ nc'[z] = nc[z]
                                   /\ round'[z] = round[z] /\ ret'[z] = ret[z]
        /\ pc'[p] = "rmcache" /\ held' = held /\ UNCHANGED files
    BY <1>5 DEF IInv, TypeOK, StartDelete
  <2> QED BY <1>3, <2>1
<1>6. ASSUME NEW r \in Req, NEW thing \in Things(r), Change(r, thing), NEW q \in Procs
      PROVE  SourceOK(q)' /\ ProgressOK(q)'
  <2>1. pc'[q] = "idle"
    BY <1>6 DEF Change, procs
  <2> QED BY <2>1 DEF SourceOK, ProgressOK, MissPcs
<1>7. ASSUME UNCHANGED vars, NEW q \in Procs PROVE SourceOK(q)' /\ ProgressOK(q)'
  <2>1. SourceOK(q) /\ ProgressOK(q)
    BY DEF IInv
  <2>2. SourceOK(q)'
    BY <1>7, <2>1 DEF SourceOK, File, vars, files, procs, locals
  <2>3. ProgressOK(q)'
    BY <1>7, <2>1 DEF ProgressOK, File, vars, files, procs, locals
  <2> QED BY <2>2, <2>3
<1>8. ASSUME NEW q \in Procs PROVE SourceOK(q)' /\ ProgressOK(q)'
  BY <1>2, <1>4, <1>5, <1>6, <1>7 DEF Next
<1> QED BY <1>1, <1>8 DEF IInv

LEMMA Invariance == ASSUME Overlap = FALSE PROVE Spec => []IInv
BY InvInit, InvNext, PTL DEF Spec

(* Under the documented discipline the compiler is always shown exactly    *)
(* the program of the test that runs it, for any number of processes, any  *)
(* sharing of names between tests, and kills at any point whatever.        *)
THEOREM OwnSourceCorrect == ASSUME Overlap = FALSE PROVE Spec => []OwnSource
<1>1. IInv => OwnSource
  BY DEF IInv, SourceOK, OwnSource
<1> QED BY <1>1, Invariance, PTL
-----------------------------------------------------------------------------
(* What is left in the directory is looked after: by a process that has    *)
(* its cleanup before it, or by nobody when the test is one of those that  *)
(* leave their .err file. This needs no discipline: whoever cleans up may  *)
(* take away what another process is at work on, but every process that    *)
(* writes anything comes to its own cleanup after that.                    *)

Untidy == MissPcs \cup {"cleanup"}

Tends(p, f) == File(p) = f /\ pc[p] \in Untidy

Lasting(f) == \E r \in Req : KeyOf[r] = f[1] /\ Kind[r] \in {"compiler", "custom"}

Tended(f) ==
  /\ tmpc[f] # NoFile => \E p \in Procs : Tends(p, f) /\ UsesTmpc(req[p])
  /\ f \in tmperr => Lasting(f) \/ \E p \in Procs : Tends(p, f)

(* Where a process is tells what kind of test it runs.                     *)
InPlace(p) ==
  /\ pc[p] \in {"trunc", "include", "body", "compile"} => UsesTmpc(req[p])
  /\ pc[p] = "run" => ~UsesTmpc(req[p])

LitterInv ==
  /\ TypeOK
  /\ \A p \in Procs : InPlace(p)
  /\ DeleteTmp => \A f \in Files : Tended(f)

LEMMA LitterInit == Init => LitterInv
<1> SUFFICES ASSUME Init PROVE LitterInv
  OBVIOUS
<1>1. \A p \in Procs : InPlace(p)
  BY DEF Init, InPlace
<1>2. \A f \in Files : Tended(f)
  BY DEF Init, Tended
<1> QED BY <1>1, <1>2, TypeInit DEF LitterInv

LEMMA InPlaceStep ==
  ASSUME TypeOK, \A p \in Procs : InPlace(p), NEW p \in Procs, Step(p) \/ Crash(p), NEW q \in Procs
  PROVE  InPlace(q)'
<1> USE DEF Goto
<1>1. CASE q # p
  BY <1>1, StepLocals DEF InPlace
<1>2. CASE q = p /\ Test(p)
  BY <1>2 DEF TypeOK, Test, InPlace, locals
<1>3. CASE q = p /\ Compile(p)
  <2>1. req'[p] = req[p] /\ pc'[p] \in {"trunc", "open", "purge"} /\ pc[p] = "compile"
    <3>1. pc[p] = "compile" /\ req' = req
      BY <1>3 DEF Compile
    <3>2. PICK ok \in Verdicts(tmpc[File(p)], req[p], round[p]) :
            LET a == Decide(req[p], round[p], ok) IN
            IF a = Again
            THEN round' = [round EXCEPT ![p] = @ + 1] /\ Goto(p, "trunc") /\ UNCHANGED ret
            ELSE Answered(p, a)
      BY <1>3 DEF Compile
    <3> QED BY <3>1, <3>2 DEF TypeOK, Answered
  <2>2. UsesTmpc(req[p])
    BY <2>1 DEF InPlace
  <2> QED BY <1>3, <2>1, <2>2 DEF InPlace
<1>4. CASE q = p /\ (Trunc(p) \/ WriteIncludes(p) \/ WriteBody(p))
  <2>1. /\ req'[p] = req[p] /\ pc[p] \in {"trunc", "include", "body"}
        /\ pc'[p] \in {"include", "body", "compile"}
    BY <1>4 DEF TypeOK, Trunc, WriteIncludes, WriteBody, locals
  <2>2. UsesTmpc(req[p])
    BY <2>1 DEF InPlace
  <2> QED BY <1>4, <2>1, <2>2 DEF InPlace
<1>5. CASE q = p /\ pc'[p] \notin {"trunc", "include", "body", "compile", "run"}
  BY <1>5 DEF InPlace
<1>6. CASE q = p /\ (Open(p) \/ Write(p) \/ Purge(p) \/ Cleanup(p) \/ RmCache(p) \/ RmTmp(p))
  <2>1. pc'[p] \in {"write", "cleanup", "print", "rmtmp", "exit"}
    BY <1>6 DEF TypeOK, Open, Write, Purge, Cleanup, RmCache, RmTmp
  <2> QED BY <1>5, <1>6, <2>1
<1>7. CASE q = p /\ (Cat(p) \/ Run(p) \/ Finish(p) \/ Exit(p) \/ Crash(p))
  <2>1. pc'[p] \in {"idle", "cleanup", "purge", "open"}
    BY <1>7 DEF TypeOK, Cat, Run, Answered, Finish, Exit, Crash, Gone
  <2> QED BY <1>5, <1>7, <2>1
<1> QED BY <1>1, <1>2, <1>3, <1>4, <1>6, <1>7 DEF Step

(* A step of p leaves the files of other tests alone, and those who tend   *)
(* them: what it does to its own decides.                                  *)
LEMMA TendedStep ==
  ASSUME TypeOK, NEW p \in Procs, Step(p) \/ Crash(p), NEW f \in Files, Tended(f),
         f # File(p) => (f \in tmperr' => f \in tmperr),
         f = File(p) =>
           /\ tmpc'[f] # NoFile =>
                \/ pc'[p] \in Untidy /\ UsesTmpc(req[p])
                \/ tmpc[f] # NoFile /\ ~(pc[p] \in Untidy /\ UsesTmpc(req[p]))
           /\ f \in tmperr' => pc'[p] \in Untidy \/ (f \in tmperr /\ pc[p] \notin Untidy) \/ Lasting(f)
  PROVE  Tended(f)'
<1>1. /\ \A q \in Procs \ {p} : (Tends(q, f)' <=> Tends(q, f)) /\ req'[q] = req[q]
      /\ pc'[p] # "idle" => File(p)' = File(p) /\ req'[p] = req[p]
  BY StepLocals DEF Tends, File
<1>2. f # File(p) => ~Tends(p, f) /\ tmpc'[f] = tmpc[f]
  BY StepFiles DEF Tends
<1>3. f = File(p) /\ pc'[p] \in Untidy => Tends(p, f)'
  BY <1>1 DEF Tends, Untidy, MissPcs
<1>4. f = File(p) => (Tends(p, f) <=> pc[p] \in Untidy)
  BY DEF Tends
<1>5. Lasting(f)' <=> Lasting(f)
  BY DEF Lasting
<1>6. tmpc'[f] # NoFile => \E q \in Procs : Tends(q, f)' /\ UsesTmpc(req'[q])
  <2> SUFFICES ASSUME tmpc'[f] # NoFile
               PROVE  \E q \in Procs : Tends(q, f)' /\ UsesTmpc(req'[q])
    OBVIOUS
  <2>1. CASE f = File(p) /\ pc'[p] \in Untidy /\ UsesTmpc(req[p])
    <3>1. req'[p] = req[p]
      BY <1>1, <2>1 DEF Untidy, MissPcs
    <3> QED BY <1>3, <2>1, <3>1
  <2>2. CASE tmpc[f] # NoFile /\ ~(f = File(p) /\ pc[p] \in Untidy /\ UsesTmpc(req[p]))
    <3>1. PICK q \in Procs : Tends(q, f) /\ UsesTmpc(req[q])
      BY <2>2 DEF Tended
    <3>2. q # p
      BY <1>2, <1>4, <2>2, <3>1
    <3> QED BY <1>1, <3>1, <3>2
  <2> QED BY <1>2, <2>1, <2>2
<1>7. f \in tmperr' => Lasting(f) \/ \E q \in Procs : Tends(q, f)'
  <2> SUFFICES ASSUME f \in tmperr', ~Lasting(f) PROVE \E q \in Procs : Tends(q, f)'
    OBVIOUS
  <2>1. CASE f = File(p) /\ pc'[p] \in Untidy
    BY <1>3, <2>1
  <2>2. CASE f \in tmperr /\ ~(f = File(p) /\ pc[p] \in Untidy)
    <3>1. PICK q \in Procs : Tends(q, f)
      BY <2>2 DEF Tended
    <3>2. q # p
      BY <1>2, <1>4, <2>2, <3>1
    <3> QED BY <1>1, <3>1, <3>2
  <2> QED BY <2>1, <2>2
<1> QED BY <1>5, <1>6, <1>7 DEF Tended

LEMMA LitterStep ==
  ASSUME LitterInv, DeleteTmp, CrashAt \cap Untidy = {}, NEW p \in Procs, Step(p) \/ Crash(p), NEW f \in Files
  PROVE  Tended(f)'
<1> USE DEF Goto
<1>0. TypeOK /\ Tended(f) /\ InPlace(p)
  BY DEF LitterInv
<1>f. File(p) \in Files /\ req[p] \in Req /\ KeyOf[req[p]] = File(p)[1]
  BY <1>0, FileType DEF File, TypeOK
<1>1. CASE Test(p)
  <2>1. /\ tmpc' = tmpc /\ pc[p] = "test"
        /\ \/ pc'[p] \in {"trunc", "run"} /\ tmperr' = tmperr \cup {File(p)}
           \/ tmperr' = tmperr
    BY <1>0, <1>1 DEF Test, TypeOK
  <2>2. pc[p] \notin Untidy
    BY <2>1 DEF Untidy, MissPcs
  <2>3. pc'[p] \in {"trunc", "run"} => pc'[p] \in Untidy
    BY DEF Untidy, MissPcs
  <2> QED BY <1>0, <1>1, <2>1, <2>2, <2>3, TendedStep
<1>2. CASE Trunc(p) \/ WriteIncludes(p) \/ WriteBody(p)
  <2>1. /\ tmperr' = tmperr /\ pc[p] \in {"trunc", "include", "body"}
        /\ pc'[p] \in {"include", "body", "compile"}
    BY <1>0, <1>2 DEF Trunc, WriteIncludes, WriteBody, TypeOK
  <2>2. UsesTmpc(req[p]) /\ pc'[p] \in Untidy
    BY <1>0, <2>1 DEF InPlace, Untidy, MissPcs
  <2> QED BY <1>0, <1>2, <2>1, <2>2, TendedStep
<1>3. CASE Compile(p) \/ Open(p) \/ Write(p) \/ (Run(p) /\ tool[req[p]] # "fails")
  <2>1. tmpc' = tmpc /\ tmperr' = tmperr /\ pc'[p] \in {"trunc", "open", "write", "purge", "cleanup"}
    BY <1>0, <1>3 DEF Compile, Open, Write, Run, Answered, TypeOK, files
  <2>2. pc'[p] \in Untidy
    BY <2>1 DEF Untidy, MissPcs
  <2> QED BY <1>0, <1>3, <2>1, <2>2, TendedStep DEF Step
<1>4. CASE Run(p) /\ tool[req[p]] = "fails"
  <2>1. tmpc' = tmpc /\ tmperr' = tmperr /\ pc[p] = "run"
    BY <1>4 DEF Run, files
  <2>2. ~UsesTmpc(req[p])
    BY <1>0, <2>1 DEF InPlace
  <2>3. Kind[req[p]] = "custom"
    BY <1>0, <1>f, <1>4, <2>2 DEF TypeOK, Things, UsesTmpc
  <2>4. Lasting(File(p))
    BY <1>f, <2>3 DEF Lasting
  <2> QED BY <1>0, <1>4, <2>1, <2>2, <2>4, TendedStep DEF Step
<1>5. CASE Purge(p) \/ RmTmp(p)
  <2>1. tmpc'[File(p)] = NoFile /\ tmperr' = tmperr \ {File(p)}
    BY <1>0, <1>f, <1>5 DEF Purge, RmTmp, RmSource, TypeOK
  <2> QED BY <1>0, <1>5, <2>1, TendedStep DEF Step
<1>6. CASE Cleanup(p)
  <2>1. /\ IF UsesTmpc(req[p]) THEN tmpc'[File(p)] = NoFile ELSE tmpc' = tmpc
        /\ IF Kind[req[p]] # "compiler" THEN tmperr' = tmperr \ {File(p)} ELSE tmperr' = tmperr
    BY <1>0, <1>f, <1>6 DEF Cleanup, RmSource, TypeOK
  <2>2. Kind[req[p]] = "compiler" => Lasting(File(p))
    BY <1>f DEF Lasting
  <2> QED BY <1>0, <1>6, <2>1, <2>2, TendedStep DEF Step
<1>7. CASE Cat(p) \/ Finish(p) \/ Exit(p) \/ Crash(p) \/ RmCache(p)
  <2>1. tmpc' = tmpc /\ tmperr' = tmperr /\ pc[p] \in {"cat", "print", "exit", "rmcache"} \cup CrashAt
    BY <1>7 DEF Cat, Finish, Exit, Crash, RmCache, files
  <2>2. pc[p] \notin Untidy
    BY <2>1 DEF Untidy, MissPcs
  <2> QED BY <1>0, <1>7, <2>1, <2>2, TendedStep DEF Step
<1> QED BY <1>1, <1>2, <1>3, <1>4, <1>5, <1>6, <1>7 DEF Step

LEMMA LitterNext ==
  ASSUME LitterInv, CrashAt \cap Untidy = {}, [Next]_vars PROVE LitterInv'
<1>1. TypeOK /\ TypeOK'
  BY TypeNext DEF LitterInv
<1>2. ASSUME NEW p \in Procs, Step(p) \/ Crash(p) PROVE LitterInv'
  BY <1>1, <1>2, InPlaceStep, LitterStep DEF LitterInv
<1>3. ASSUME UNCHANGED files, NEW p \in Procs, pc[p] = "idle", pc'[p] \in {"test", "rmcache"},
             \A q \in Procs \ {p} : pc'[q] = pc[q] /\ req'[q] = req[q] /\ nc'[q] = nc[q]
      PROVE  LitterInv'
  <2>1. pc[p] \notin Untidy
    BY <1>3 DEF Untidy, MissPcs
  <2>2. ASSUME NEW q \in Procs PROVE InPlace(q)'
    BY <1>3 DEF InPlace, LitterInv
  <2>3. ASSUME NEW q \in Procs, NEW f \in Files, Tends(q, f)
        PROVE  Tends(q, f)' /\ req'[q] = req[q]
    BY <1>3, <2>1, <2>3 DEF Tends, File
  <2>4. ASSUME NEW f \in Files, DeleteTmp PROVE Tended(f)'
    <3>1. Tended(f)
      BY <2>4 DEF LitterInv
    <3>2. tmpc' = tmpc /\ tmperr' = tmperr
      BY <1>3 DEF files
    <3>3. tmpc'[f] # NoFile => \E q \in Procs : Tends(q, f)' /\ UsesTmpc(req'[q])
      BY <2>3, <3>1, <3>2 DEF Tended
    <3>4. f \in tmperr' => Lasting(f) \/ \E q \in Procs : Tends(q, f)'
      BY <2>3, <3>1, <3>2 DEF Tended
    <3> QED BY <3>3, <3>4 DEF Tended, Lasting
  <2> QED BY <1>1, <2>2, <2>4 DEF LitterInv
<1>4. ASSUME NEW p \in Procs, NEW r \in Req, NEW v \in NoCacheValues, Start(p, r, v)
      PROVE  LitterInv'
  <2>1. /\ pc[p] = "idle" /\ pc'[p] = "test" /\ UNCHANGED files
        /\ \A q \in Procs \ {p} : pc'[q] = pc[q] /\ req'[q] = req[q] /\ nc'[q] = nc[q]
    BY <1>1, <1>4 DEF Start, TypeOK, Goto
  <2> QED BY <1>3, <2>1
<1>5. ASSUME NEW p \in Procs, NEW r \in Req, NEW v \in NoCacheValues,
             NEW o \in {"-d", "-D"}, StartDelete(p, r, v, o)
      PROVE  LitterInv'
  <2>1. /\ pc[p] = "idle" /\ pc'[p] = "rmcache" /\ UNCHANGED files
        /\ \A q \in Procs \ {p} : pc'[q] = pc[q] /\ req'[q] = req[q] /\ nc'[q] = nc[q]
    BY <1>1, <1>5 DEF StartDelete, TypeOK, Goto
  <2> QED BY <1>3, <2>1
<1>6. ASSUME UNCHANGED <<tmpc, tmperr, pc, req, nc>> PROVE LitterInv'
  <2>1. \A q \in Procs : InPlace(q)'
    BY <1>6 DEF InPlace, LitterInv
  <2>2. \A f \in Files : Tended(f) => Tended(f)'
    BY <1>6 DEF Tended, Tends, File, Lasting
  <2> QED BY <1>1, <2>1, <2>2 DEF LitterInv
<1>7. ASSUME NEW r \in Req, NEW thing \in Things(r), Change(r, thing) PROVE LitterInv'
  BY <1>6, <1>7 DEF Change, procs, locals
<1>8. CASE UNCHANGED vars
  BY <1>6, <1>8 DEF vars, files, procs, locals
<1> QED BY <1>2, <1>4, <1>5, <1>7, <1>8 DEF Next

(* When nothing is killed between making its first temporary file and its  *)
(* cleanup, no litter outlives the last process of a test: for any number  *)
(* of processes, and also when they run the same test at once, against the *)
(* documented discipline, and take each other's files away.                *)
THEOREM NoLitterCorrect ==
  ASSUME CrashAt \cap (MissPcs \cup {"cleanup"}) = {} PROVE Spec => []NoLitter
<1>1. CrashAt \cap Untidy = {}
  BY DEF Untidy
<1>2. LitterInv /\ [Next]_vars => LitterInv'
  BY <1>1, LitterNext
<1>3. LitterInv => NoLitter
  <2> SUFFICES ASSUME LitterInv, DeleteTmp, NEW f \in Files,
                      \A p \in Procs : pc[p] = "idle" \/ File(p) # f
               PROVE  /\ tmpc[f] = NoFile
                      /\ f \in tmperr => \E r \in Req : KeyOf[r] = f[1] /\ Kind[r] \in {"compiler", "custom"}
    BY DEF NoLitter
  <2>1. \A p \in Procs : ~Tends(p, f)
    BY DEF Tends, Untidy, MissPcs
  <2> QED BY <2>1 DEF LitterInv, Tended, Lasting
<1> QED BY <1>2, <1>3, LitterInit, PTL DEF Spec
-----------------------------------------------------------------------------
(* Refinement of CheckMemo.                                                *)

LEMMA BarTypes ==
  /\ Memo!Files = Files
  /\ memoBar = [f \in Files |-> memoBar[f]]
  /\ clientBar = [p \in Procs |-> clientBar[p]]
  /\ memoBar' = [f \in Files |-> memoBar'[f]]
  /\ clientBar' = [p \in Procs |-> clientBar'[p]]
BY DEF Memo!Files, Files, memoBar, clientBar

(* A step of p changes the abstract state of p and of its file at most.    *)
LEMMA OthersBar ==
  ASSUME IInv, NEW p \in Procs, Step(p) \/ Crash(p)
  PROVE  /\ \A q \in Procs \ {p} : clientBar'[q] = clientBar[q]
         /\ \A f \in Files \ {File(p)} : memoBar'[f] = memoBar[f]
         /\ pc[p] # "write" /\ pc'[p] # "write" /\ cache' = cache => memoBar' = memoBar
<1>1. /\ \A q \in Procs \ {p} :
           /\ pc'[q] = pc[q] /\ req'[q] = req[q] /\ nc'[q] = nc[q] /\ ret'[q] = ret[q]
           /\ File(q)' = File(q)
      /\ pc'[p] # "idle" => File(p)' = File(p)
  BY StepLocals DEF IInv, File
<1>2. ASSUME NEW q \in Procs \ {p} PROVE clientBar'[q] = clientBar[q]
  BY <1>1 DEF clientBar
<1>3. ASSUME NEW f \in Files \ {File(p)} PROVE memoBar'[f] = memoBar[f]
  <2>1. BeingWritten(f)' = BeingWritten(f)
    BY <1>1 DEF BeingWritten
  <2>2. cache'[f] = cache[f]
    BY StepFiles DEF IInv
  <2> QED BY <2>1, <2>2 DEF memoBar
<1>4. ASSUME pc[p] # "write", pc'[p] # "write", cache' = cache PROVE memoBar' = memoBar
  <2>1. \A f \in Files : BeingWritten(f)' = BeingWritten(f)
    BY <1>1, <1>4 DEF BeingWritten
  <2> QED BY <1>4, <2>1 DEF memoBar
<1> QED BY <1>2, <1>3, <1>4

LEMMA SameBar ==
  ASSUME IInv, NEW p \in Procs, Step(p) \/ Crash(p), pc[p] # "write", pc'[p] # "write",
         cache' = cache, clientBar'[p] = clientBar[p]
  PROVE  UNCHANGED Memo!memoVars
<1>1. clientBar' = clientBar
  BY OthersBar DEF clientBar
<1>2. memoBar' = memoBar /\ tool' = tool
  BY OthersBar, StepFiles DEF IInv
<1> QED BY <1>1, <1>2 DEF Memo!memoVars

LEMMA LeaveBar ==
  ASSUME IInv, NEW p \in Procs, Step(p) \/ Crash(p), pc[p] # "write",
         cache' = cache, Gone(p), pc[p] \notin DelPcs
  PROVE  Memo!Leave(p)
<1>1. pc'[p] = "idle"
  BY GoneLocals DEF IInv
<1>2. memoBar' = memoBar /\ tool' = tool
  BY <1>1, OthersBar, StepFiles DEF IInv
<1>3. clientBar'[p] = <<"idle">>
  BY <1>1 DEF clientBar, MissPcs
<1>4. clientBar' = [clientBar EXCEPT ![p] = <<"idle">>]
  BY <1>3, OthersBar DEF clientBar
<1>5. clientBar[p] # <<"idle">>
  <2>1. pc[p] \in HitPcs \cup MissPcs
    BY StepLocals DEF IInv, TypeOK, PCs
  <2>2. clientBar[p][1] \in {"asked", "told"}
    BY <2>1 DEF clientBar, HitPcs, MissPcs
  <2> QED BY <2>2
<1> QED BY <1>2, <1>4, <1>5 DEF Memo!Leave, Memo!Idle

LEMMA AskedBar ==
  ASSUME NEW p \in Procs, pc[p] \in MissPcs \cup {"test", "cat"}
  PROVE  clientBar[p] = <<"asked", req[p], nc[p]>>
BY DEF clientBar, MissPcs

LEMMA ToldBar ==
  ASSUME IInv, NEW p \in Procs, Step(p) \/ Crash(p), pc'[p] = "cleanup"
  PROVE  clientBar' = [clientBar EXCEPT ![p] = <<"told", req[p], nc[p], ret'[p]>>]
<1>1. req'[p] = req[p] /\ nc'[p] = nc[p]
  BY StepLocals DEF IInv
<1>2. clientBar'[p] = <<"told", req[p], nc[p], ret'[p]>>
  BY <1>1 DEF clientBar
<1> QED BY <1>2, OthersBar DEF clientBar

(* No other process writes the result file of a process that works on it.  *)
LEMMA NotWritten ==
  ASSUME IInv, NEW p \in Procs, pc[p] # "idle", pc[p] # "write"
  PROVE  ~BeingWritten(File(p))
BY Alone DEF BeingWritten, IInv, MissPcs

(* CheckMemo speaks of the same tests.                                     *)
LEMMA SameTests ==
  /\ \A r \in Req : Memo!Things(r) = Things(r)
  /\ \A r \in Req : \A thing : Memo!Answer(r, thing) = Answer(r, thing)
<1>1. Memo!SizeSet = SizeSet
  BY DEF Memo!SizeSet, SizeSet
<1>2. ASSUME NEW r \in Req PROVE Memo!Things(r) = Things(r)
  BY <1>1 DEF Memo!Things, Things
<1>3. ASSUME NEW r \in Req, NEW thing PROVE Memo!Answer(r, thing) = Answer(r, thing)
  BY <1>1
    DEF Memo!Answer, Memo!SizeofAnswer, Memo!ProgAnswer, Memo!CompilerAnswer, Memo!CustomAnswer, Answer, SizeofAnswer, ProgAnswer, CompilerAnswer, CustomAnswer
<1> QED BY <1>2, <1>3

LEMMA RefinementInit == Init => Memo!Init
<1> SUFFICES ASSUME Init PROVE Memo!Init
  OBVIOUS
<1>1. memoBar = [f \in Files |-> None]
  BY DEF Init, memoBar
<1>2. clientBar = [p \in Procs |-> Memo!Idle]
  BY DEF Init, clientBar, MissPcs, Memo!Idle
<1>3. memoBar = [f \in Memo!Files |-> None]
  BY <1>1, BarTypes
<1>4. tool \in [Req -> UNION {Things(r) : r \in Req}] /\ \A r \in Req : tool[r] \in Things(r)
  BY DEF Init
<1>5. /\ UNION {Memo!Things(r) : r \in Req} = UNION {Things(r) : r \in Req}
      /\ \A r \in Req : Memo!Things(r) = Things(r)
  BY SameTests
<1> QED BY <1>2, <1>3, <1>4, <1>5 DEF Memo!Init

LEMMA RefinementStep ==
  ASSUME IInv, "write" \notin CrashAt, NEW p \in Procs, Step(p) \/ Crash(p)
  PROVE  [Memo!Next]_(Memo!memoVars)
<1> USE DEF Goto
<1>f. PICK f \in Files : f = File(p)
  BY FileType DEF IInv, TypeOK, File
<1>0. /\ req[p] \in Req /\ nc[p] \in NoCacheValues /\ tool' = tool
      /\ f = <<KeyOf[req[p]], nc[p]>> /\ f = File(p) /\ Memo!Files = Files
  BY <1>f, StepFiles, BarTypes DEF IInv, File, TypeOK
<1>own. SourceOK(p) /\ ProgressOK(p) /\ TypeOK
  BY DEF IInv
<1>1. CASE Test(p) \/ Trunc(p) \/ WriteIncludes(p) \/ WriteBody(p)
  <2>1. /\ pc[p] \in (MissPcs \ {"write"}) \cup {"test"}
        /\ pc'[p] \in (MissPcs \ {"write"}) \cup {"cat"} /\ cache' = cache
        /\ req' = req /\ nc' = nc
    BY <1>1, <1>own DEF Test, Trunc, WriteIncludes, WriteBody, TypeOK, MissPcs, locals
  <2>2. clientBar'[p] = clientBar[p]
    BY <2>1 DEF clientBar, MissPcs
  <2> QED BY <1>1, <2>1, <2>2, SameBar DEF MissPcs
<1>2. CASE Compile(p) \/ (Run(p) /\ ~Gone(p))
  <2>1. /\ pc[p] \in {"compile", "run"} /\ pc'[p] \in {"trunc", "open", "purge"}
        /\ cache' = cache /\ req' = req /\ nc' = nc
    BY <1>2, <1>own DEF Compile, Run, Answered, TypeOK, files
  <2>2. clientBar'[p] = clientBar[p]
    BY <2>1 DEF clientBar, MissPcs
  <2> QED BY <1>2, <2>1, <2>2, SameBar
<1>3. CASE Cat(p) /\ cache[f] # None
  <2>1. /\ pc[p] = "cat" /\ pc'[p] = "cleanup" /\ cache' = cache /\ ret'[p] = cache[f]
    BY <1>0, <1>3, <1>own DEF Cat, TypeOK, files
  <2>2. ~BeingWritten(f) /\ nc[p] # "1"
    BY <1>0, <2>1, <1>own, NotWritten DEF ProgressOK
  <2>3. memoBar[f] = cache[f] /\ memoBar' = memoBar
    BY <1>0, <2>1, <2>2, OthersBar DEF memoBar
  <2>4. clientBar[p] = <<"asked", req[p], nc[p]>>
    BY <2>1, AskedBar
  <2>5. clientBar' = [clientBar EXCEPT ![p] = <<"told", req[p], nc[p], memoBar[f]>>]
    BY <2>1, <2>3, ToldBar
  <2>6. Memo!Recall(p, req[p], nc[p])
    BY <1>0, <1>3, <2>2, <2>3, <2>4, <2>5 DEF Memo!Recall
  <2> QED BY <1>0, <2>6 DEF Memo!Next
<1>4. CASE Open(p)
  <2>1. /\ pc[p] = "open" /\ pc'[p] = "write" /\ req' = req /\ nc' = nc
    BY <1>4, <1>own DEF Open, TypeOK, locals
  <2>2. File(p)' = f
    BY <1>0, <2>1 DEF File
  <2>3. BeingWritten(f)' /\ ~BeingWritten(f)
    BY <1>0, <2>1, <2>2, NotWritten DEF BeingWritten
  <2>4. cache[f] = None
    BY <1>0, <1>own, <2>1 DEF ProgressOK, MissPcs
  <2>5. memoBar'[f] = memoBar[f]
    BY <1>0, <2>3, <2>4 DEF memoBar
  <2>6. memoBar' = memoBar
    BY <1>0, <2>5, OthersBar DEF memoBar
  <2>7. clientBar'[p] = clientBar[p]
    BY <2>1 DEF clientBar, MissPcs
  <2>8. clientBar' = clientBar
    BY <2>7, OthersBar DEF clientBar
  <2> QED BY <1>0, <2>6, <2>8 DEF Memo!memoVars
<1>5. CASE Write(p) \/ Purge(p)
  <2> DEFINE a == Answer(req[p], tool[req[p]])
  <2>1. /\ pc[p] \in {"write", "purge"} /\ pc'[p] = "cleanup" /\ req' = req /\ nc' = nc
        /\ ret'[p] = ret[p] /\ ret[p] = a
    BY <1>5, <1>own DEF Write, Purge, TypeOK, locals, ProgressOK
  <2>2. clientBar[p] = <<"asked", req[p], nc[p]>>
    BY <2>1, AskedBar DEF MissPcs
  <2>3. clientBar' = [clientBar EXCEPT ![p] = <<"told", req[p], nc[p], a>>]
    BY <2>1, ToldBar
  <2>4. /\ nc[p] = "1" \/ memoBar[f] = None
        /\ memoBar' = IF nc[p] = "1" THEN memoBar ELSE [memoBar EXCEPT ![f] = a]
    <3>1. CASE Purge(p)
      <4>1. pc[p] = "purge" /\ nc[p] = "1" /\ cache' = cache
        BY <3>1, <1>own DEF Purge, ProgressOK
      <4> QED BY <2>1, <4>1, OthersBar
    <3>2. CASE Write(p)
      <4>1. pc[p] = "write" /\ nc[p] # "1" /\ cache'[f] = a
        BY <1>0, <2>1, <3>2, <1>own DEF Write, ProgressOK, TypeOK
      <4>2. BeingWritten(f)
        BY <1>0, <4>1 DEF BeingWritten
      <4>3. ~BeingWritten(f)'
        <5>1. File(p)' = f /\ pc'[p] # "write"
          BY <1>0, <2>1 DEF File
        <5>2. \A q \in Procs \ {p} : pc'[q] = pc[q] /\ File(q)' = File(q)
          BY StepLocals, <1>own DEF File
        <5>3. \A q \in Procs \ {p} : pc[q] = "write" => File(q) # f
          BY <1>0, <4>1, Alone DEF IInv, MissPcs
        <5> QED BY <5>1, <5>2, <5>3 DEF BeingWritten
      <4>4. memoBar[f] = None /\ memoBar'[f] = a
        BY <1>0, <4>1, <4>2, <4>3 DEF memoBar
      <4>5. memoBar' = [memoBar EXCEPT ![f] = a]
        BY <1>0, <4>4, OthersBar DEF memoBar
      <4> QED BY <4>1, <4>4, <4>5
    <3> QED BY <1>5, <3>1, <3>2
  <2>5. Memo!WorkOut(p, req[p], nc[p])
    BY <1>0, <2>2, <2>3, <2>4, SameTests DEF Memo!WorkOut
  <2> QED BY <1>0, <2>5 DEF Memo!Next
<1>6. CASE Cleanup(p)
  <2>1. /\ pc[p] = "cleanup" /\ pc'[p] = "print" /\ cache' = cache
        /\ req' = req /\ nc' = nc /\ ret' = ret
    BY <1>6, <1>own DEF Cleanup, TypeOK, locals
  <2>2. clientBar'[p] = clientBar[p]
    BY <2>1 DEF clientBar
  <2> QED BY <1>6, <2>1, <2>2, SameBar
<1>7. CASE RmCache(p)
  <2>1. /\ pc[p] = "rmcache" /\ pc'[p] \in {"rmtmp", "exit"} /\ cache'[f] = None
    BY <1>0, <1>7, <1>own DEF RmCache, TypeOK
  <2>2. clientBar'[p] = clientBar[p]
    BY <2>1 DEF clientBar, MissPcs
  <2>3. clientBar' = clientBar
    BY <2>2, OthersBar DEF clientBar
  <2>4. memoBar'[f] = None
    BY <1>0, <2>1 DEF memoBar
  <2>5. memoBar' = [memoBar EXCEPT ![f] = None]
    BY <1>0, <2>4, OthersBar DEF memoBar
  <2>6. Memo!Forget(f)
    BY <1>0, <2>3, <2>5 DEF Memo!Forget
  <2> QED BY <1>0, <2>6 DEF Memo!Next
<1>8. CASE RmTmp(p)
  <2>1. pc[p] = "rmtmp" /\ pc'[p] = "exit" /\ cache' = cache
    BY <1>8, <1>own DEF RmTmp, TypeOK
  <2>2. clientBar'[p] = clientBar[p]
    BY <2>1 DEF clientBar, MissPcs
  <2> QED BY <1>8, <2>1, <2>2, SameBar
<1>9. CASE Gone(p) /\ UNCHANGED files /\ pc[p] # "write"
  <2>1. pc'[p] = "idle" /\ cache' = cache
    BY <1>9, <1>own, GoneLocals DEF files
  <2>2. CASE pc[p] \in DelPcs
    <3>1. clientBar'[p] = clientBar[p]
      BY <2>1, <2>2 DEF clientBar, DelPcs, MissPcs
    <3> QED BY <1>9, <2>1, <3>1, SameBar
  <2>3. CASE pc[p] \notin DelPcs
    <3>1. Memo!Leave(p)
      BY <1>9, <2>1, <2>3, LeaveBar
    <3> QED BY <3>1 DEF Memo!Next
  <2> QED BY <2>2, <2>3
<1>10. CASE (Cat(p) /\ cache[f] = None) \/ (Run(p) /\ Gone(p)) \/ Finish(p) \/ Exit(p) \/ Crash(p)
  <2>1. Gone(p) /\ UNCHANGED files /\ pc[p] # "write"
    BY <1>0, <1>10 DEF Cat, Run, Finish, Exit, Crash
  <2> QED BY <1>9, <2>1
<1> QED
  BY <1>1, <1>2, <1>3, <1>4, <1>5, <1>6, <1>7, <1>8, <1>10 DEF Step

LEMMA RefinementNext ==
  IInv /\ "write" \notin CrashAt /\ [Next]_vars => [Memo!Next]_(Memo!memoVars)
<1> SUFFICES ASSUME IInv, "write" \notin CrashAt, [Next]_vars
             PROVE  [Memo!Next]_(Memo!memoVars)
  OBVIOUS
<1> USE DEF Goto
<1>own. TypeOK
  BY DEF IInv
<1>1. ASSUME NEW p \in Procs, Step(p) \/ Crash(p) PROVE [Memo!Next]_(Memo!memoVars)
  BY <1>1, RefinementStep
<1>2. ASSUME NEW p \in Procs, pc[p] = "idle", pc'[p] \in {"test", "rmcache"},
             \A q \in Procs \ {p} : /\ pc'[q] = pc[q] /\ req'[q] = req[q]
                                    /\ nc'[q] = nc[q] /\ ret'[q] = ret[q],
             UNCHANGED files
      PROVE  /\ memoBar' = memoBar /\ tool' = tool
             /\ \A q \in Procs \ {p} : clientBar'[q] = clientBar[q]
  <2>1. \A f \in Files : BeingWritten(f)' = BeingWritten(f)
    BY <1>2 DEF BeingWritten, File
  <2>2. memoBar' = memoBar /\ tool' = tool
    BY <1>2, <2>1 DEF memoBar, files
  <2>3. ASSUME NEW q \in Procs \ {p} PROVE clientBar'[q] = clientBar[q]
    BY <1>2 DEF clientBar
  <2> QED BY <2>2, <2>3
<1>3. ASSUME NEW p \in Procs, NEW r \in Req, NEW v \in NoCacheValues, Start(p, r, v)
      PROVE  [Memo!Next]_(Memo!memoVars)
  <2>1. /\ pc[p] = "idle" /\ pc'[p] = "test" /\ req'[p] = r /\ nc'[p] = v
        /\ \A q \in Procs \ {p} : /\ pc'[q] = pc[q] /\ req'[q] = req[q]
                                   /\ nc'[q] = nc[q] /\ ret'[q] = ret[q]
        /\ UNCHANGED files
    BY <1>3, <1>own DEF Start, TypeOK
  <2>2. /\ memoBar' = memoBar /\ tool' = tool
        /\ \A q \in Procs \ {p} : clientBar'[q] = clientBar[q]
    BY <1>2, <2>1
  <2>3. clientBar[p] = Memo!Idle /\ clientBar'[p] = <<"asked", r, v>>
    BY <2>1 DEF clientBar, MissPcs, Memo!Idle
  <2>4. clientBar' = [clientBar EXCEPT ![p] = <<"asked", r, v>>]
    BY <2>2, <2>3 DEF clientBar
  <2>5. Memo!Ask(p, r, v)
    BY <2>2, <2>3, <2>4 DEF Memo!Ask
  <2> QED BY <2>5 DEF Memo!Next
<1>4. ASSUME NEW p \in Procs, NEW r \in Req, NEW v \in NoCacheValues,
             NEW o \in {"-d", "-D"}, StartDelete(p, r, v, o)
      PROVE  UNCHANGED Memo!memoVars
  <2>1. /\ pc[p] = "idle" /\ pc'[p] = "rmcache"
        /\ \A q \in Procs \ {p} : /\ pc'[q] = pc[q] /\ req'[q] = req[q]
                                   /\ nc'[q] = nc[q] /\ ret'[q] = ret[q]
        /\ UNCHANGED files
    BY <1>4, <1>own DEF StartDelete, TypeOK
  <2>2. /\ memoBar' = memoBar /\ tool' = tool
        /\ \A q \in Procs \ {p} : clientBar'[q] = clientBar[q]
    BY <1>2, <2>1
  <2>3. clientBar'[p] = clientBar[p]
    BY <2>1 DEF clientBar, MissPcs
  <2>4. clientBar' = clientBar
    BY <2>2, <2>3 DEF clientBar
  <2> QED BY <2>2, <2>4 DEF Memo!memoVars
<1>5. ASSUME NEW r \in Req, NEW thing \in Things(r), Change(r, thing)
      PROVE  [Memo!Next]_(Memo!memoVars)
  <2>1. /\ \A p \in Procs : pc[p] = "idle"
        /\ tool' = [tool EXCEPT ![r] = thing] /\ cache' = cache
        /\ pc' = pc /\ req' = req /\ nc' = nc /\ ret' = ret
    BY <1>5 DEF Change, procs, locals
  <2>2. memoBar' = memoBar /\ clientBar' = clientBar
    BY <2>1 DEF memoBar, clientBar, BeingWritten, File
  <2>3. \A p \in Procs : clientBar[p][1] # "asked"
    <3>1. \A p \in Procs : clientBar[p] = <<"idle">>
      BY <2>1 DEF clientBar, MissPcs
    <3> QED BY <3>1
  <2>4. Memo!Change(r, thing)
    BY <2>1, <2>2, <2>3 DEF Memo!Change
  <2>5. thing \in Memo!Things(r)
    BY SameTests
  <2> QED BY <2>4, <2>5 DEF Memo!Next
<1>6. ASSUME UNCHANGED vars PROVE UNCHANGED Memo!memoVars
  <2>1. memoBar' = memoBar /\ clientBar' = clientBar /\ tool' = tool
    BY <1>6 DEF memoBar, clientBar, BeingWritten, File, vars, files, procs, locals
  <2> QED BY <2>1 DEF Memo!memoVars
<1> QED BY <1>1, <1>3, <1>4, <1>5, <1>6 DEF Next

(* Under the documented discipline, and when no process is killed between  *)
(* truncating a result file and writing it, the scripts implement the memo *)
(* of CheckMemo for any number of processes and tests.                     *)
THEOREM MemoCorrect ==
  ASSUME Overlap = FALSE, "write" \notin CrashAt PROVE Spec => MemoSpec
<1>1. IInv /\ [Next]_vars => [Memo!Next]_(Memo!memoVars)
  BY RefinementNext
<1> QED BY <1>1, RefinementInit, Invariance, PTL DEF Spec, MemoSpec, Memo!Spec
=============================================================================
