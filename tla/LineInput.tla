----------------------------- MODULE LineInput ------------------------------
(***************************************************************************)
(* A program writes a file of lines: what has a meaning it escapes, lines  *)
(* it breaks, and it adds comments. Another reads it with fparseln.        *)
(***************************************************************************)
EXTENDS Fparseln

CONSTANTS
  Params,       \* str and flags
  Ordinary,     \* characters that mean themselves
  MaxParts,     \* what the writer puts into the file, at most
  FaultLines    \* where something may fail, counted from the line a call begins at

(* Each may be off (NUL). A character has one meaning; only escapes and    *)
(* continuations may share theirs.                                         *)
ASSUME LineAssumption ==
  /\ \A p \in Params : /\ nl \notin {p.esc, p.con, p.com}
                       /\ p.com = NUL \/ p.com \notin {p.esc, p.con}
                       /\ Ordinary \cap {nl, NUL, p.esc, p.con, p.com} = {}
                       /\ p.flags \subseteq {"esc", "cont", "comm", "rest"}
  /\ MaxParts \in Nat /\ FaultLines \subseteq Nat \ {0}

VARIABLES
  params,
  written,      \* what has been written: [is, c]
  unread,       \* what fparseln has not read yet
  got,          \* the lines it has returned, with *lineno
  reader        \* "off", "on", "end"; "failed" after a failure

lineVars == <<params, written, unread, got, reader>>

NoFault == [of |-> "none", line |-> 0]
Faults == [of : {"getline", "realloc"}, line : FaultLines]

Part(is, c) == [is |-> is, c |-> c]

(* What a part is in the file. A line goes on behind con; what is in a     *)
(* comment may look as if it went on too.                                  *)
InFile(part, p) ==
  CASE part.is = "char"    -> <<part.c>>
    [] part.is = "escaped" -> <<p.esc, part.c>>
    [] part.is = "goeson"  -> <<p.con, nl>>
    [] part.is = "comment" -> IF p.con = NUL THEN <<p.com, nl>> ELSE <<p.com, p.con, nl>>
    [] part.is = "end"     -> <<nl>>

LineInit ==
  /\ params \in Params
  /\ written = <<>> /\ unread = <<>> /\ got = <<>> /\ reader = "off"

Write(part) ==
  /\ reader = "off" /\ Len(written) < MaxParts
  /\ written' = Append(written, part)
  /\ unread' = unread \o InFile(part, params)
  /\ UNCHANGED <<params, got, reader>>

Open == reader = "off" /\ reader' = "on" /\ UNCHANGED <<params, written, unread, got>>

Lineno == IF got = <<>> THEN 0 ELSE Last(got).lineno

ReadLine(fault) ==
  /\ reader = "on"
  /\ LET r == fparseln(unread, params, fault) IN
     /\ unread' = r.rest
     /\ got' = IF r.line = NoBuf THEN got
               ELSE Append(got, [text |-> r.line, lineno |-> Lineno + r.read])
     /\ reader' = IF fault # NoFault THEN "failed" ELSE IF r.line = NoBuf THEN "end" ELSE "on"
  /\ UNCHANGED <<params, written>>

LineNext ==
  \/ \E c \in Ordinary : Write(Part("char", c))
  \/ /\ params.esc # NUL
     /\ \E c \in (Ordinary \cup {params.esc, params.con, params.com}) \ {NUL} : Write(Part("escaped", c))
  \/ params.con # NUL /\ Write(Part("goeson", nl))
  \/ params.com # NUL /\ Write(Part("comment", nl))
  \/ Write(Part("end", nl))
  \/ Open
  \/ \E fault \in Faults \cup {NoFault} : ReadLine(fault)
-----------------------------------------------------------------------------
(* What the writer means: a line is ended by an end, and by a comment when *)
(* it has anything before the comment; a last line need not be ended.      *)
Mean(m, part, p) ==
  LET char  == IF part.is = "escaped" /\ ~skipesc(part.c, p) THEN <<p.esc, part.c>> ELSE <<part.c>>
      over  == part.is = "end" \/ (part.is = "comment" /\ m.text # <<>>)
      lines == IF part.is \in {"char", "escaped"} THEN m.lines ELSE m.lines + 1
  IN  [done  |-> IF over THEN Append(m.done, [text |-> m.text, lineno |-> lines]) ELSE m.done,
       text  |-> IF over THEN <<>> ELSE IF lines # m.lines THEN m.text ELSE m.text \o char,
       lines |-> lines]

Meant ==
  LET mean[n \in 0..Len(written)] ==
        IF n = 0 THEN [done |-> <<>>, text |-> <<>>, lines |-> 0] ELSE Mean(mean[n - 1], written[n], params)
      m == mean[Len(written)]
  IN  IF m.text = <<>> THEN m.done
      ELSE Append(m.done, [text |-> m.text, lineno |-> m.lines + 1])

(***************************************************************************)
(* fparseln returns the lines the writer means, one by one, each with the  *)
(* number of lines read so far, and NULL after the last. When something    *)
(* fails in it, what it returns is the beginning of a line, if anything.   *)
(***************************************************************************)
LinesRight ==
  /\ reader \in {"off", "on"} => IsPrefix(got, Meant)
  /\ reader = "end" => got = Meant
  /\ reader = "failed" /\ ~IsPrefix(got, Meant) =>
       /\ Len(got) <= Len(Meant) /\ IsPrefix(Front(got), Meant)
       /\ IsPrefix(Last(got).text, Meant[Len(got)].text)

LineSpec == LineInit /\ [][LineNext]_lineVars
=============================================================================
