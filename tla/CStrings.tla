------------------------------ MODULE CStrings ------------------------------
(***************************************************************************)
(* strlcpy, strlcat, stresep and shquote (src/features), one call each. A  *)
(* string is a sequence of characters without its NUL.                     *)
(***************************************************************************)
EXTENDS Integers, FiniteSets, SequencesExt

Least(a, b) == IF a < b THEN a ELSE b

Nul == "NUL"
Quote == "'"

(* What is in dst afterwards, what is returned, and how many bytes of dst  *)
(* were written.                                                           *)
strlcpy(src, siz) ==
  LET kept == SubSeq(src, 1, Least(Len(src), siz - 1))
  IN  [dst |-> kept, ret |-> Len(src), reach |-> IF siz = 0 THEN 0 ELSE Len(kept) + 1]

(* Mutant: what is returned is what fits.                                  *)
strlcatShort(dst, src, siz) ==
  LET kept == SubSeq(src, 1, Least(Len(src), siz - Len(dst) - 1))
  IN  IF Len(dst) >= siz THEN [dst |-> dst, ret |-> siz, reach |-> 0]
      ELSE [dst |-> dst \o kept, ret |-> Len(dst \o kept), reach |-> Len(dst \o kept) + 1]

(* dst may be longer than siz says: then nothing is written.               *)
strlcat(dst, src, siz) ==
  LET dlen == Least(Len(dst), siz)
      kept == SubSeq(src, 1, Least(Len(src), siz - dlen - 1))
  IN  IF dlen = siz THEN [dst |-> dst, ret |-> siz + Len(src), reach |-> 0]
      ELSE [dst |-> dst \o kept, ret |-> dlen + Len(src), reach |-> dlen + Len(kept) + 1]

(* stresep works in the memory of the string: mem[s] is *s. An escape      *)
(* character is closed up by memmove of l bytes, and the character behind  *)
(* it is stepped over. It returns when it meets a delimiter or the end.    *)
Closed(mem, s, l) == [i \in DOMAIN mem |-> IF i \in (s - 1)..(s + l - 2) THEN mem[i + 1] ELSE mem[i]]

Escape(mem, s, esc) == esc # Nul /\ mem[s] = esc

(* The memory when the loop from tok has passed k bytes: of the l bytes    *)
(* that end with the NUL, l - k are left.                                  *)
ClosedUp(mem, tok, l, esc) ==
  LET closed[k \in 0..l - 1] ==
        IF k = 0 THEN mem
        ELSE LET before == closed[k - 1]
             IN  IF Escape(before, tok + k - 1, esc) THEN Closed(before, tok + k, l - k) ELSE before
  IN  closed

Stops(mem, s, delim, esc) == ~Escape(mem, s, esc) /\ mem[s] \in delim \cup {Nul}

Separate(mem, tok, l, delim, esc) ==
  LET closed == ClosedUp(mem, tok, l, esc)
      k == Min({i \in 0..l - 1 : Stops(closed[i], tok + i, delim, esc)})
      s == tok + k
  IN  IF closed[k][s] = Nul THEN [mem |-> closed[k], stringp |-> 0]
      ELSE [mem |-> [closed[k] EXCEPT ![s] = Nul], stringp |-> s + 1]

TextAt(mem, tok) == SubSeq(mem, tok, Min({i \in tok..Len(mem) : mem[i] = Nul}) - 1)

(* The token, the memory, and *stringp: 0 for NULL.                        *)
stresep(mem, stringp, delim, esc) ==
  LET r == Separate(mem, stringp, Len(TextAt(mem, stringp)) + 1, delim, esc)
  IN  [mem |-> r.mem, stringp |-> r.stringp, tok |-> TextAt(r.mem, stringp)]

(* -1 when buf has less than len + 1 bytes, len when there is no buf.      *)
Quoted(arg) ==
  <<Quote>> \o FlattenSeq([i \in DOMAIN arg |-> IF arg[i] = Quote THEN <<Quote, "\\", Quote, Quote>>
                                                ELSE <<arg[i]>>]) \o <<Quote>>
shquote(arg, bufsize) ==
  LET len == 2 + Len(arg) + 3 * Cardinality({i \in DOMAIN arg : arg[i] = Quote})
  IN  IF bufsize < len + 1 THEN [ret |-> -1, buf |-> <<>>] ELSE [ret |-> len, buf |-> Quoted(arg)]
=============================================================================
