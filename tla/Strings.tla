------------------------------ MODULE Strings -------------------------------
(***************************************************************************)
(* A program that puts a string together in a buffer of siz bytes, with    *)
(* strlcpy and strlcat or with their wrappers of efun, allocates memory    *)
(* through efun, and one that takes a string apart with stresep.           *)
(***************************************************************************)
EXTENDS CStrings

CONSTANTS
  MaxSiz,
  Pieces,       \* strings it copies
  MaxText       \* how many parts the string to take apart has, at most

ASSUME StringsAssumption == MaxSiz \in Nat /\ Pieces \subseteq Seq(STRING)

VARIABLES
  job,          \* what the program is for: "build", "separate" or "quote"
  siz, dst,     \* the buffer, as a string or full to its last byte
  asked,        \* what would be there if there were room
  told,         \* a call has returned siz or more
  reach,        \* bytes of dst the last call wrote
  efunc,        \* "err", "exit", or "own": one that returns
  lenient,      \* failures may be overlooked: efunc has been the program's own, or
                \* it has called strlcpy or strlcat themselves
  running,
  held,         \* what the last wrapper of an allocation returned: [null, size]
  delims, esc,
  text,         \* the parts of the string to take apart: [is, c]
  str, stringp, \* its memory and *stringp: 0 for NULL
  toks,         \* the tokens stresep has returned
  quoted        \* what shquote was called with and what it did

pathVars == <<siz, dst, asked, told, reach>>
efunVars == <<efunc, lenient, running, held>>
sepVars == <<delims, esc, text, str, stringp, toks>>
stringVars == <<job, pathVars, efunVars, sepVars, quoted>>

NoQuote == [arg |-> <<>>, size |-> 0, done |-> [ret |-> -1, buf |-> <<>>]]

StringInit ==
  /\ job \in {"build", "separate", "quote"}
  /\ siz \in IF job = "build" THEN 0..MaxSiz ELSE {0}
  /\ dst = <<>> /\ asked = <<>> /\ told = FALSE /\ reach = 0
  /\ efunc = "err" /\ lenient = FALSE /\ running = TRUE
  /\ held = [null |-> FALSE, size |-> 0]
  /\ delims = {":"} /\ esc \in IF job = "separate" THEN {"\\", Nul} ELSE {Nul}
  /\ text = <<>> /\ str = <<>> /\ stringp = 0 /\ toks = <<>>
  /\ quoted = NoQuote

Building == job = "build" /\ running /\ UNCHANGED <<job, sepVars, quoted>>
Separating == job = "separate" /\ UNCHANGED <<job, pathVars, efunVars, esc, delims, quoted>>
-----------------------------------------------------------------------------
(* A call of efunc: err and exit do not return.                            *)
Efunc == running' = (efunc = "own")

esetfunc(f) ==
  /\ Building
  /\ efunc' = IF f = "NULL" THEN "exit" ELSE f
  /\ lenient' = (lenient \/ f = "own")
  /\ UNCHANGED <<pathVars, running, held>>

Stored(r, want, before) ==
  /\ dst' = r.dst /\ reach' = r.reach
  /\ asked' = want
  /\ told' = (before \/ r.ret >= siz)
  /\ UNCHANGED siz

Strlcpy(src) ==
  /\ Building
  /\ Stored(strlcpy(src, siz), src, FALSE)
  /\ lenient' = TRUE
  /\ UNCHANGED <<efunc, running, held>>

Strlcat(src) ==
  /\ Building /\ Len(asked) <= MaxSiz
  /\ Stored(strlcat(dst, src, siz), asked \o src, told)
  /\ lenient' = TRUE
  /\ UNCHANGED <<efunc, running, held>>

(* Somebody else has filled the buffer and written no NUL.                 *)
Fill ==
  /\ Building /\ asked = <<>> /\ siz > 0
  /\ dst' = [i \in 1..siz |-> "a"] /\ asked' = dst'
  /\ UNCHANGED <<siz, told, reach, efunVars>>

Efailed(failed) ==
  /\ IF failed THEN Efunc ELSE UNCHANGED running
  /\ UNCHANGED <<efunc, lenient, held>>

Estrlcpy(src) ==
  /\ Building
  /\ Stored(strlcpy(src, siz), src, FALSE)
  /\ Efailed(strlcpy(src, siz).ret >= siz)

Estrlcat(src) ==
  /\ Building /\ Len(asked) <= MaxSiz
  /\ Stored(strlcat(dst, src, siz), asked \o src, told)
  /\ Efailed(strlcat(dst, src, siz).ret >= siz)

(* emalloc, ecalloc, erealloc: NULL is a failure only when something was   *)
(* asked for (n bytes of one, n blocks of s).                              *)
Ealloc(n, s, null) ==
  /\ Building
  /\ null \/ (n > 0 /\ s > 0)
  /\ held' = [null |-> null, size |-> n * s]
  /\ IF null /\ n # 0 /\ s # 0 THEN Efunc ELSE UNCHANGED running
  /\ UNCHANGED <<pathVars, efunc, lenient>>

(* The others: any failure of the function goes to efunc.                  *)
Einformed(failed) ==
  /\ Building
  /\ held' = [null |-> failed, size |-> 1]
  /\ IF failed THEN Efunc ELSE UNCHANGED running
  /\ UNCHANGED <<pathVars, efunc, lenient>>

Edup(failed) == Einformed(failed)       \* estrdup, estrndup
Ecall(failed) == Einformed(failed)      \* ereallocarr, efopen, easprintf, evasprintf, estrtoi, estrtou
-----------------------------------------------------------------------------
(* The string to take apart: a character of a token, an escaped one, or    *)
(* what ends a token.                                                      *)
AddText(is, c) ==
  /\ Separating /\ str = <<>> /\ Len(text) < MaxText
  /\ is = "escaped" => esc # Nul
  /\ text' = Append(text, [is |-> is, c |-> c])
  /\ UNCHANGED <<str, stringp, toks>>

InMemory ==
  FlattenSeq([i \in DOMAIN text |-> IF text[i].is = "escaped" THEN <<esc, text[i].c>> ELSE <<text[i].c>>])

TakeApart ==
  /\ Separating /\ str = <<>> /\ text # <<>>
  /\ str' = Append(InMemory, Nul) /\ stringp' = 1
  /\ UNCHANGED <<text, toks>>

Stresep ==
  /\ Separating /\ stringp # 0
  /\ LET r == stresep(str, stringp, delims, esc) IN
     str' = r.mem /\ stringp' = r.stringp /\ toks' = Append(toks, r.tok)
  /\ UNCHANGED text

Shquote(arg, bufsize) ==
  /\ job = "quote" /\ quoted = NoQuote
  /\ quoted' = [arg |-> arg, size |-> bufsize, done |-> shquote(arg, bufsize)]
  /\ UNCHANGED <<job, pathVars, efunVars, sepVars>>

ShChars == {"a", Quote, "\\"}
ShArgs == UNION {[1..n -> ShChars] : n \in 0..3}

StringNext ==
  \/ \E src \in Pieces : Strlcpy(src) \/ Strlcat(src) \/ Estrlcpy(src) \/ Estrlcat(src)
  \/ Fill
  \/ \E f \in {"NULL", "err", "own"} : esetfunc(f)
  \/ \E n, s \in 0..1, null \in BOOLEAN : Ealloc(n, s, null)
  \/ \E failed \in BOOLEAN : Edup(failed) \/ Ecall(failed)
  \/ \E c \in {"a", ":", "\\"} : AddText("escaped", c)
  \/ AddText("char", "a") \/ AddText("delim", ":")
  \/ TakeApart \/ Stresep
  \/ \E arg \in ShArgs, bufsize \in {2, 3, 5, 8, 9, 12, 15} : Shquote(arg, bufsize)
-----------------------------------------------------------------------------
(* Nothing is written past siz, the buffer is the beginning of what was    *)
(* asked for, and whoever compares what is returned with siz learns of     *)
(* every cut: a program with the wrappers and an efunc that does not       *)
(* return goes on neither with a cut string nor with a null pointer.       *)
PathRight ==
  /\ reach <= siz
  /\ IsPrefix(dst, asked)
  /\ dst # asked => told
  /\ told => dst # asked \/ Len(dst) >= siz
  /\ running /\ ~lenient => (siz > 0 => dst = asked) /\ (held.null => held.size = 0)

(* The tokens, as they were before anything in them was escaped.           *)
Tokens ==
  LET tokens[k \in 0..Len(text)] ==
        IF k = 0 THEN <<<<>>>>
        ELSE LET before == tokens[k - 1]
             IN  IF text[k].is = "delim" THEN Append(before, <<>>)
                 ELSE Append(Front(before), Append(Last(before), text[k].c))
  IN  tokens[Len(text)]

TokensRight ==
  /\ IsPrefix(toks, Tokens)
  /\ str # <<>> /\ stringp = 0 => toks = Tokens

(* What sh makes of a word: in quotes all is taken as it is, outside \     *)
(* takes the next character.                                               *)
ShRead(w) ==
  LET read[k \in 0..Len(w)] ==
        IF k = 0 THEN [inside |-> FALSE, escaped |-> FALSE, word |-> <<>>]
        ELSE LET r == read[k - 1] IN
             IF w[k] = Quote /\ ~r.escaped THEN [r EXCEPT !.inside = ~@]
             ELSE IF w[k] = "\\" /\ ~r.inside /\ ~r.escaped THEN [r EXCEPT !.escaped = TRUE]
             ELSE [r EXCEPT !.escaped = FALSE, !.word = Append(@, w[k])]
  IN  read[Len(w)]

(* The word ends where the quotes do.                                      *)
QuotedRight ==
  quoted # NoQuote =>
    LET done == quoted.done IN
    IF done.ret = -1 THEN quoted.size <= Len(Quoted(quoted.arg))
    ELSE /\ ShRead(done.buf) = [inside |-> FALSE, escaped |-> FALSE, word |-> quoted.arg]
         /\ done.ret = Len(done.buf) /\ Len(done.buf) < quoted.size

(***************************************************************************)
(* What is cut is known to be cut, tokens come back as they were escaped,  *)
(* and sh reads a quoted argument as the argument.                         *)
(***************************************************************************)
StringsRight == PathRight /\ TokensRight /\ QuotedRight

StringSpec == StringInit /\ [][StringNext]_stringVars
=============================================================================
