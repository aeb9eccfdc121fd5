------------------------------ MODULE Fparseln ------------------------------
(***************************************************************************)
(* One call of fparseln (features/fparseln/mkc_fparseln.c): a line of a    *)
(* file without its comment, joined with the lines it goes on in. str and  *)
(* flags are in p = [esc, con, com, flags].                                *)
(***************************************************************************)
EXTENDS Integers, FiniteSets, SequencesExt

nl == "nl"
NUL == "NUL"
NoBuf == <<NUL>>        \* buf == NULL

(* Mutant: any escape character before it escapes a character.             *)
isescapedOnce(s, i, esc) == esc # NUL /\ i > 1 /\ s[i - 1] = esc

(* An odd number of escape characters comes before s[i].                   *)
isescaped(s, i, esc) ==
  /\ esc # NUL
  /\ Cardinality({k \in 1..(i - 1) : \A j \in k..(i - 1) : s[j] = esc}) % 2 = 1

(* What getline reads, and what it leaves.                                 *)
LineLen(file) == Min({i \in DOMAIN file : file[i] = nl} \cup {Len(file)})
LineOf(file) == SubSeq(file, 1, LineLen(file))
AfterLine(file) == SubSeq(file, LineLen(file) + 1, Len(file))

Uncommented(line, p) ==
  LET starts == {i \in DOMAIN line : p.com # NUL /\ line[i] = p.com /\ ~isescaped(line, i, p.esc)}
  IN  IF starts = {} THEN line ELSE SubSeq(line, 1, Min(starts) - 1)

Chomped(text) == IF text # <<>> /\ Last(text) = nl THEN Front(text) ELSE text

GoesOn(text, p) ==
  text # <<>> /\ p.con # NUL /\ Last(text) = p.con /\ ~isescaped(text, Len(text), p.esc)

(* What one line adds to buf, and whether another is to be read (cnt). A   *)
(* line with nothing but a comment is skipped only when it is the first.   *)
AddLine(buf, line, p) ==
  LET text  == Uncommented(line, p)
      bare  == Chomped(text)
      again == GoesOn(bare, p)
      part  == IF again THEN Front(bare) ELSE bare
      cnt   == again \/ (text = <<>> /\ text # line /\ buf = NoBuf)
  IN  [cnt |-> cnt,
       buf |-> IF part = <<>> /\ (cnt \/ buf # NoBuf) THEN buf
               ELSE IF buf = NoBuf THEN part ELSE buf \o part]

(* One round of the loop, with cnt: the next getline, and what its line    *)
(* adds. fault = [of, line]: getline or realloc fails at that line.        *)
Round(g, p, fault) ==
  LET read == g.read + 1
      r    == AddLine(g.buf, LineOf(g.rest), p)
      gone == r.buf # g.buf /\ fault = [of |-> "realloc", line |-> read]
  IN  IF g.rest = <<>> \/ fault = [of |-> "getline", line |-> read]
      THEN [buf |-> g.buf, rest |-> AfterLine(g.rest), read |-> read, cnt |-> FALSE]
      ELSE [buf |-> IF gone THEN NoBuf ELSE r.buf, rest |-> AfterLine(g.rest), read |-> read,
            cnt |-> ~gone /\ r.cnt]

(* Every round but the last takes something from the file.                 *)
Gather(file, p, fault) ==
  LET start == [buf |-> NoBuf, rest |-> file, read |-> 0, cnt |-> TRUE]
      after[n \in 0..Len(file) + 1] ==
        IF n = 0 THEN start
        ELSE LET g == after[n - 1] IN IF g.cnt THEN Round(g, p, fault) ELSE g
  IN  after[Len(file) + 1]

(* Whether FPARSELN_UNESC... take the escape character away before c.      *)
skipesc(c, p) ==
  \/ c = p.com /\ "comm" \in p.flags
  \/ c = p.con /\ "cont" \in p.flags
  \/ c = p.esc /\ "esc" \in p.flags
  \/ c \notin {p.com, p.con, p.esc} /\ "rest" \in p.flags

(* An escape character is held back until it is known what it is before:   *)
(* the last of a string is dropped.                                        *)
Unescaped(s, p) ==
  LET done[n \in 0..Len(s)] ==
        IF n = 0 THEN [text |-> <<>>, held |-> FALSE]
        ELSE LET u == done[n - 1] IN
             IF u.held
             THEN [text |-> (IF skipesc(s[n], p) THEN u.text ELSE Append(u.text, p.esc)) \o <<s[n]>>,
                   held |-> FALSE]
             ELSE IF s[n] = p.esc THEN [text |-> u.text, held |-> TRUE]
             ELSE [text |-> Append(u.text, s[n]), held |-> FALSE]
  IN  done[Len(s)].text

(* The line or NULL, what is left in the file, what is added to *lineno.   *)
fparseln(file, p, fault) ==
  LET g == Gather(file, p, fault) IN
  [line |-> IF p.flags # {} /\ p.esc # NUL /\ g.buf # NoBuf THEN Unescaped(g.buf, p) ELSE g.buf,
   rest |-> g.rest, read |-> g.read]
=============================================================================
