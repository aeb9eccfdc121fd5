----------------------------- MODULE CheckCache -----------------------------
(***************************************************************************)
(* The mkc_check_* scripts (scripts/mkc_check_common.sh and the scripts    *)
(* that source it) sharing one MKC_CACHEDIR. Every process is one script;  *)
(* files are named by $pathpart and $MKC_NOCACHE only, so all processes    *)
(* that run the same test use the same files. Each system call on a shared *)
(* file is a step of its own; a process may be killed where CrashAt says.  *)
(***************************************************************************)
EXTENDS CheckTests

CONSTANTS
  Procs,          \* the processes (subprojects of a parallel make)
  NoCacheValues,  \* values of MKC_NOCACHE in use: "", "1", "yes"
  None,           \* no such cache file
  DeleteTmp,      \* MKC_DELETE_TMPFILES = 1
  Overlap,        \* may a test start while another process runs the same one
  CrashAt         \* program points where a process may be killed

VARIABLES
  tool,     \* request |-> what the toolchain has to say about it now
  cache,    \* _mkc_*.res: None or the answer in it ("" when truncated)
  tmpc,     \* _mkc_*.c: the pieces written into it
  tmperr,   \* the _mkc_*.err files that exist
  held,     \* processes whose open descriptor still is the file of that name
  pc, req, nc, opt, round, ret   \* the shell variables of every process

files == <<tool, cache, tmpc, tmperr>>
locals == <<req, nc, opt, round, ret>>
procs == <<held, pc, locals>>
vars == <<files, procs>>

(* Values for the variables of a process that is not there.                *)
NoReq   == CHOOSE r \in Req : TRUE
NoValue == CHOOSE v \in NoCacheValues : TRUE

Files == Keys \X NoCacheValues
File(p) == <<KeyOf[req[p]], nc[p]>>

HitPcs  == {"test", "cat", "cleanup", "print"}
MissPcs == {"trunc", "include", "body", "compile", "run", "open", "write", "purge"}
DelPcs  == {"rmcache", "rmtmp", "exit"}
PCs     == {"idle"} \cup HitPcs \cup MissPcs \cup DelPcs

ASSUME CacheAssumption ==
  /\ NoCacheValues \subseteq {"", "1", "yes"} /\ NoCacheValues # {}
  /\ DeleteTmp \in BOOLEAN /\ Overlap \in BOOLEAN
  /\ CrashAt \subseteq PCs
  /\ None \notin Answers
-----------------------------------------------------------------------------
(* Contents of the test program, as the pieces appended to it.             *)
NoFile     == <<<<"none">>>>
Garbled    == <<<<"garbled">>>>
Incs(r)    == <<"include", r, 0>>
Body(r, n) == <<"body", r, n>>
Includes(r) == Kind[r] # "funclib"     \* funclib writes no #include
Head1(r)   == IF Includes(r) THEN <<Incs(r)>> ELSE <<>>
Source(r, n) == Append(Head1(r), Body(r, n))

Pieces == {<<"none">>, <<"garbled">>} \cup ({"include"} \X Req \X {0})
            \cup UNION {{<<"body", r, n>> : n \in Rounds(r)} : r \in Req}

(* Text written at the start of a file that another process may have       *)
(* written to since it was opened: the same text leaves it as it is.       *)
WriteAtStart(old, piece) ==
  IF old = <<>> THEN <<piece>> ELSE IF old[1] = piece THEN old ELSE Garbled

AppendTo(old, piece) == IF old = NoFile THEN <<piece>> ELSE Append(old, piece)

(* What the compiler may say of content c when asked about round n of r. A *)
(* header test compiles whenever every #include in the file does: its body *)
(* is a tentative definition. Any other mixture is left open.              *)
Verdicts(c, r, n) ==
  IF c = NoFile THEN {FALSE}
  ELSE IF c = Source(r, n) THEN {Compiles(r, n, tool[r])}
  ELSE IF Kind[r] = "header" /\ c # Garbled
       THEN {\A i \in 1..Len(c) : c[i][1] = "include" => tool[c[i][2]] = "present"}
       ELSE BOOLEAN
-----------------------------------------------------------------------------
Init ==
  /\ tool \in [Req -> UNION {Things(r) : r \in Req}]
  /\ \A r \in Req : tool[r] \in Things(r)
  /\ cache = [f \in Files |-> None]
  /\ tmpc = [f \in Files |-> NoFile]
  /\ tmperr = {}
  /\ held = {}
  /\ pc = [p \in Procs |-> "idle"]
  /\ req = [p \in Procs |-> NoReq]
  /\ nc = [p \in Procs |-> NoValue]
  /\ opt = [p \in Procs |-> ""]
  /\ round = [p \in Procs |-> 1]
  /\ ret = [p \in Procs |-> ""]

Goto(p, label) == pc' = [pc EXCEPT ![p] = label]

(* The documented discipline (mk-configure(7), BUGS): tests run one by one *)
(* in `mkcmake configure'; a parallel make then only finds cached results. *)
MayStart(f) ==
  \/ Overlap
  \/ \A q \in Procs : pc[q] # "idle" => File(q) # f
  \/ /\ cache[f] # None /\ f[2] # "1"
     /\ \A q \in Procs : pc[q] # "idle" /\ File(q) = f => pc[q] \in HitPcs

Start(p, r, v) ==
  /\ pc[p] = "idle"
  /\ MayStart(<<KeyOf[r], v>>)
  /\ req' = [req EXCEPT ![p] = r]
  /\ nc' = [nc EXCEPT ![p] = v]
  /\ Goto(p, "test")
  /\ UNCHANGED <<files, held, opt, round, ret>>

(* The script is called with -d or -D.                                     *)
StartDelete(p, r, v, o) ==
  LET mode == DeleteMode(Kind[r], o) IN
  /\ pc[p] = "idle"
  /\ mode # "none"
  /\ Overlap \/ \A q \in Procs : pc[q] # "idle" => File(q) # <<KeyOf[r], v>>
  /\ req' = [req EXCEPT ![p] = r]
  /\ nc' = [nc EXCEPT ![p] = v]
  /\ opt' = [opt EXCEPT ![p] = o]
  /\ Goto(p, "rmcache")
  /\ UNCHANGED <<files, held, round, ret>>

(* The process is gone: killed, stopped by set -e, or finished.            *)
Gone(p) ==
  /\ Goto(p, "idle")
  /\ held' = held \ {p}
  /\ opt' = [opt EXCEPT ![p] = ""]
  /\ round' = [round EXCEPT ![p] = 1]
  /\ ret' = [ret EXCEPT ![p] = ""]
  /\ req' = [req EXCEPT ![p] = NoReq]
  /\ nc' = [nc EXCEPT ![p] = NoValue]
-----------------------------------------------------------------------------
(* if test "$MKC_NOCACHE" != 1 && test -f "$_cache"; otherwise the test is *)
(* run with its standard error in $tmperr.                                 *)
Test(p) ==
  /\ pc[p] = "test"
  /\ \/ /\ nc[p] # "1" /\ cache[File(p)] # None
        /\ Goto(p, "cat")
        /\ UNCHANGED tmperr
     \/ /\ nc[p] = "1" \/ cache[File(p)] = None
        /\ Goto(p, IF UsesTmpc(req[p]) THEN "trunc" ELSE "run")
        /\ tmperr' = tmperr \cup {File(p)}
  /\ UNCHANGED <<tool, cache, tmpc, held, locals>>

(* ret=`cat "$cache"`: set -e ends the script if the file has gone.        *)
Cat(p) ==
  /\ pc[p] = "cat"
  /\ IF cache[File(p)] = None
     THEN Gone(p)
     ELSE /\ ret' = [ret EXCEPT ![p] = cache[File(p)]]
          /\ Goto(p, "cleanup")
          /\ UNCHANGED <<held, req, nc, opt, round>>
  /\ UNCHANGED files

(* Mutant: get_includes >> "$tmpc".                                        *)
TruncAppends(p) ==
  /\ pc[p] = "trunc"
  /\ tmpc' = [tmpc EXCEPT ![File(p)] = IF @ = NoFile THEN <<>> ELSE @]
  /\ held' = held \cup {p}
  /\ Goto(p, IF Includes(req[p]) THEN "include" ELSE "body")
  /\ UNCHANGED <<tool, cache, tmperr, locals>>

(* The shell opens "$tmpc" for writing.                                    *)
Trunc(p) ==
  /\ pc[p] = "trunc"
  /\ tmpc' = [tmpc EXCEPT ![File(p)] = <<>>]
  /\ held' = held \cup {p}
  /\ Goto(p, IF Includes(req[p]) THEN "include" ELSE "body")
  /\ UNCHANGED <<tool, cache, tmperr, locals>>

(* What is written to a file that was removed meanwhile is lost.           *)
WriteHeld(p, piece) ==
  /\ tmpc' = IF p \in held THEN [tmpc EXCEPT ![File(p)] = WriteAtStart(@, piece)] ELSE tmpc
  /\ held' = held \ {p}

WriteIncludes(p) ==
  /\ pc[p] = "include"
  /\ WriteHeld(p, Incs(req[p]))
  /\ Goto(p, "body")
  /\ UNCHANGED <<tool, cache, tmperr, locals>>

(* cat >> "$tmpc" after get_includes, but cat > "$tmpc" in funclib.        *)
WriteBody(p) ==
  LET piece == Body(req[p], round[p]) IN
  /\ pc[p] = "body"
  /\ IF Includes(req[p])
     THEN tmpc' = [tmpc EXCEPT ![File(p)] = AppendTo(@, piece)] /\ UNCHANGED held
     ELSE WriteHeld(p, piece)
  /\ Goto(p, "compile")
  /\ UNCHANGED <<tool, cache, tmperr, locals>>

(* Mutant: the answer is cached whatever MKC_NOCACHE is.                   *)
AnsweredAndCached(p, a) ==
  /\ ret' = [ret EXCEPT ![p] = a]
  /\ Goto(p, "open")
  /\ UNCHANGED round

Answered(p, a) ==
  /\ ret' = [ret EXCEPT ![p] = a]
  /\ Goto(p, IF nc[p] = "1" THEN "purge" ELSE "open")
  /\ UNCHANGED round

(* Mutant: the loop over the sizes tries the same size for ever.           *)
CompileSameRound(p) ==
  /\ pc[p] = "compile"
  /\ \E ok \in Verdicts(tmpc[File(p)], req[p], round[p]) :
       LET a == Decide(req[p], round[p], ok) IN
       IF a = Again THEN Goto(p, "trunc") /\ UNCHANGED <<round, ret>> ELSE Answered(p, a)
  /\ UNCHANGED <<files, held, req, nc, opt>>

Compile(p) ==
  /\ pc[p] = "compile"
  /\ \E ok \in Verdicts(tmpc[File(p)], req[p], round[p]) :
       LET a == Decide(req[p], round[p], ok) IN
       IF a = Again
       THEN /\ round' = [round EXCEPT ![p] = @ + 1]
            /\ Goto(p, "trunc")
            /\ UNCHANGED ret
       ELSE Answered(p, a)
  /\ UNCHANGED <<files, held, req, nc, opt>>

(* Tests that write nothing shared: a custom program, mkc_which -x, the    *)
(* compiler type ($TMPDIR/mk-c.$$.c). A custom command that fails ends the *)
(* script before anything is cached.                                       *)
Run(p) ==
  /\ pc[p] = "run"
  /\ IF tool[req[p]] = "fails"
     THEN Gone(p)
     ELSE /\ Answered(p, Answer(req[p], tool[req[p]]))
          /\ UNCHANGED <<held, req, nc, opt>>
  /\ UNCHANGED files

(* echo "$ret" > "$_cache": the shell truncates, then echo writes.         *)
Open(p) ==
  /\ pc[p] = "open"
  /\ cache' = [cache EXCEPT ![File(p)] = ""]
  /\ held' = held \cup {p}
  /\ Goto(p, "write")
  /\ UNCHANGED <<tool, tmpc, tmperr, locals>>

Write(p) ==
  /\ pc[p] = "write"
  /\ cache' = IF p \in held THEN [cache EXCEPT ![File(p)] = ret[p]] ELSE cache
  /\ held' = held \ {p}
  /\ Goto(p, "cleanup")
  /\ UNCHANGED <<tool, tmpc, tmperr, locals>>

(* Processes that hold the named file of f open at one of these points.    *)
Holding(f, labels) == {q \in held : File(q) = f /\ pc[q] \in labels}

RmSource(f) ==
  /\ tmpc' = [tmpc EXCEPT ![f] = NoFile]
  /\ held' = held \ Holding(f, {"include", "body"})

(* MKC_NOCACHE=1: rm -f $tmpc $tmpo $tmpexe $tmperr.                       *)
Purge(p) ==
  /\ pc[p] = "purge"
  /\ RmSource(File(p))
  /\ tmperr' = tmperr \ {File(p)}
  /\ Goto(p, "cleanup")
  /\ UNCHANGED <<tool, cache, locals>>

(* Mutant: KEEP_SOURCE for every kind of test.                             *)
CleanupKeepsSource(p) ==
  /\ pc[p] = "cleanup"
  /\ tmperr' = IF DeleteTmp /\ Kind[req[p]] # "compiler" THEN tmperr \ {File(p)} ELSE tmperr
  /\ Goto(p, "print")
  /\ UNCHANGED <<tool, cache, tmpc, held, locals>>

(* cleanup: with MKC_DELETE_TMPFILES=1 the .c (kept by custom tests) and   *)
(* .err files go; mkc_check_compiler does not call it.                     *)
Cleanup(p) ==
  /\ pc[p] = "cleanup"
  /\ IF DeleteTmp /\ UsesTmpc(req[p])
     THEN RmSource(File(p)) ELSE UNCHANGED <<tmpc, held>>
  /\ tmperr' = IF DeleteTmp /\ Kind[req[p]] # "compiler" THEN tmperr \ {File(p)} ELSE tmperr
  /\ Goto(p, "print")
  /\ UNCHANGED <<tool, cache, locals>>

(* echo $ret                                                               *)
Finish(p) ==
  /\ pc[p] = "print"
  /\ Gone(p)
  /\ UNCHANGED files

(* rm -f "$cache"; with delcache=all the temporary files are next.         *)
RmCache(p) ==
  /\ pc[p] = "rmcache"
  /\ cache' = [cache EXCEPT ![File(p)] = None]
  /\ held' = held \ Holding(File(p), {"write"})
  /\ Goto(p, IF DeleteMode(Kind[req[p]], opt[p]) = "all" THEN "rmtmp" ELSE "exit")
  /\ UNCHANGED <<tool, tmpc, tmperr, locals>>

RmTmp(p) ==
  /\ pc[p] = "rmtmp"
  /\ RmSource(File(p))
  /\ tmperr' = tmperr \ {File(p)}
  /\ Goto(p, "exit")
  /\ UNCHANGED <<tool, cache, locals>>

(* exit 0                                                                  *)
Exit(p) ==
  /\ pc[p] = "exit"
  /\ Gone(p)
  /\ UNCHANGED files
-----------------------------------------------------------------------------
Crash(p) ==
  /\ pc[p] \in CrashAt \ {"idle"}
  /\ Gone(p)
  /\ UNCHANGED files

(* Somebody installs, removes or upgrades something between two runs.      *)
Change(r, thing) ==
  /\ \A p \in Procs : pc[p] = "idle"
  /\ tool' = [tool EXCEPT ![r] = thing]
  /\ UNCHANGED <<cache, tmpc, tmperr, procs>>

Step(p) ==
  \/ Test(p) \/ Cat(p) \/ Trunc(p) \/ WriteIncludes(p) \/ WriteBody(p)
  \/ Compile(p) \/ Run(p) \/ Open(p) \/ Write(p) \/ Purge(p)
  \/ Cleanup(p) \/ Finish(p) \/ RmCache(p) \/ RmTmp(p) \/ Exit(p)

Next ==
  \/ \E p \in Procs : Step(p) \/ Crash(p)
  \/ \E p \in Procs, r \in Req, v \in NoCacheValues :
       \/ Start(p, r, v)
       \/ \E o \in {"-d", "-D"} : StartDelete(p, r, v, o)
  \/ \E r \in Req : \E thing \in Things(r) : Change(r, thing)

Spec == Init /\ [][Next]_vars

(* The operating system runs every started process.                        *)
FairSpec == Spec /\ \A p \in Procs : WF_vars(Step(p))
-----------------------------------------------------------------------------
TypeOK ==
  /\ tool \in [Req -> UNION {Things(r) : r \in Req}]
  /\ \A r \in Req : tool[r] \in Things(r)
  /\ cache \in [Files -> Answers \cup {None}]
  /\ tmpc \in [Files -> Seq(Pieces)]
  /\ tmperr \subseteq Files
  /\ held \subseteq Procs
  /\ pc \in [Procs -> PCs]
  /\ req \in [Procs -> Req]
  /\ nc \in [Procs -> NoCacheValues]
  /\ opt \in [Procs -> {"", "-d", "-D"}]
  /\ ret \in [Procs -> Answers]
  /\ round \in [Procs -> Nat]
  /\ \A p \in Procs : /\ round[p] \in Rounds(req[p])
                      /\ pc[p] \in {"idle", "test"} => round[p] = 1

(***************************************************************************)
(* The compiler is shown the program its test has written, whatever killed *)
(* processes left in the directory and whatever other tests run: the rest  *)
(* of the answer's correctness rests on this (check_itself, the two steps  *)
(* get_includes > $tmpc and cat >> $tmpc before $CC).                      *)
(***************************************************************************)
OwnSource ==
  \A p \in Procs : pc[p] = "compile" => tmpc[File(p)] = Source(req[p], round[p])

(***************************************************************************)
(* With MKC_DELETE_TMPFILES=1, once no process works on a test nothing but *)
(* the result is left of it (cleanup; custom tests stopped by set -e and   *)
(* mkc_check_compiler leave their .err file).                              *)
(***************************************************************************)
NoLitter ==
  DeleteTmp =>
    \A f \in Files :
      (\A p \in Procs : pc[p] = "idle" \/ File(p) # f)
        => /\ tmpc[f] = NoFile
           /\ f \in tmperr => \E r \in Req : KeyOf[r] = f[1] /\ Kind[r] \in {"compiler", "custom"}

(***************************************************************************)
(* Every script that was started ends, however the others interfere: the   *)
(* loop of mkc_check_sizeof over the sizes and the two rounds of `type'    *)
(* run out.                                                                *)
(***************************************************************************)
Terminates == \A p \in Procs : pc[p] # "idle" ~> pc[p] = "idle"
-----------------------------------------------------------------------------
(* Refinement: the result file is the memory of CheckMemo, except that an  *)
(* entry being written is not there yet; a process that has its answer has *)
(* told it.                                                                *)
BeingWritten(f) == \E p \in Procs : pc[p] = "write" /\ File(p) = f

memoBar == [f \in Files |-> IF BeingWritten(f) THEN None ELSE cache[f]]
clientBar ==
  [p \in Procs |->
     IF pc[p] \in {"cleanup", "print"} THEN <<"told", req[p], nc[p], ret[p]>>
     ELSE IF pc[p] \in MissPcs \cup {"test", "cat"} THEN <<"asked", req[p], nc[p]>>
     ELSE <<"idle">>]

Memo == INSTANCE CheckMemo WITH memo <- memoBar, world <- tool, client <- clientBar

(***************************************************************************)
(* Under the documented discipline the scripts are a memo of the truth: an *)
(* answer is the toolchain's own when it is worked out, is repeated until  *)
(* it is deleted, and neither tests running beside it, nor MKC_NOCACHE=1   *)
(* runs of the same test, nor processes killed elsewhere disturb it.       *)
(***************************************************************************)
MemoSpec == Memo!Spec
-----------------------------------------------------------------------------
(* mkc_check_header(1): "it prints either 1 (true) or 0 (false)".          *)
HeaderPrintsBit ==
  \A p \in Procs : pc[p] = "print" /\ Kind[req[p]] = "header" => ret[p] \in {"0", "1"}
=============================================================================
