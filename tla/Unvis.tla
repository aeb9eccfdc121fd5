------------------------------- MODULE Unvis --------------------------------
(***************************************************************************)
(* unvis (features/vis/mkc_unvis.c): one call of the decoder. Its state is *)
(* what *astate and *cp hold between calls. A char has 8 bits here and is  *)
(* never negative.                                                         *)
(***************************************************************************)
EXTENDS Vis

CONSTANT nv      \* the table of names: <<name, value>>, a name is a sequence of bytes

Decoder(st, cp) == [st |-> st, is |-> 0, cp |-> cp]
Ground == Decoder("GROUND", 0)

(* What a call leaves and returns: <<decoder, return code>>.               *)
Valid(cp) == <<Decoder("GROUND", cp), "VALID">>

(* Mutant: *astate is set only where the third digit is looked for.        *)
PushStays(cp) == <<Decoder("OCTAL2", cp), "VALIDPUSH">>

Push(cp) == <<Decoder("GROUND", cp), "VALIDPUSH">>

More(st, cp) == <<Decoder(st, cp), "NOCHAR">>
Bad(cp) == <<Decoder("GROUND", cp), "SYNBAD">>

IsUpperHex(c) == IsDigit(c) \/ c \in 65..70
IsHex(c) == IsUpperHex(c) \/ c \in 97..102
HexValue(c) == IF IsDigit(c) THEN c - 48 ELSE IF c \in 65..70 THEN c - 55 ELSE c - 87

(* cp |= b                                                                 *)
Bit(x, i) == (x \div 2^i) % 2
Or(x, y) == LET bit(i) == IF Bit(x, i) = 1 \/ Bit(y, i) = 1 THEN 2^i ELSE 0
            IN  bit(0) + bit(1) + bit(2) + bit(3) + bit(4) + bit(5) + bit(6) + bit(7)

InGround(c, flags) ==
  IF c = ch.bslash /\ "noescape" \notin flags      THEN More("START", 0)
  ELSE IF c = ch.percent /\ "httpstyle" \in flags  THEN More("HEX1", 0)
  ELSE IF c = ch.amp /\ "http1866" \in flags       THEN More("AMP", 0)
  ELSE IF c = ch.equal /\ "mimestyle" \in flags    THEN More("MIME1", 0)
  ELSE                                                  Valid(c)

(* What a letter after \ stands for, and \\ and \E                         *)
Named == [l \in {Letter[b] : b \in DOMAIN Letter} \cup {ch.bslash, 69} |->
  CASE l = ch.bslash -> ch.bslash [] l = 69 -> 27
    [] OTHER -> CHOOSE b \in DOMAIN Letter : Letter[b] = l]

InStart(c, cp) ==
  CASE c \in DOMAIN Named -> Valid(Named[c])
    [] IsOctal(c)         -> More("OCTAL2", c - 48)
    [] c = ch.M           -> More("META", 128)
    [] c = ch.caret       -> More("CTRL", cp)
    [] c = 120            -> More("HEX", cp)
    [] c \in {ch.nl, 36}  -> More("GROUND", cp)
    [] OTHER              -> Bad(cp)

(* S_STRING: the names are sorted; the first that goes on with c, from the *)
(* one found so far, as long as the letter before is the same.             *)
At(j, i) == IF i < Len(nv[j][1]) THEN nv[j][1][i + 1] ELSE ch.nul
InString(c, ia, is) ==
  LET uc == IF c = ch.semi THEN ch.nul ELSE c
      alike == {j \in DOMAIN nv : j > ia /\ \A k \in (ia + 1)..j : is = 0 \/ At(k, is - 1) = At(ia + 1, is - 1)}
      hits == {j \in alike : At(j, is) = uc}
      first == CHOOSE j \in hits : \A k \in hits : j <= k
  IN  IF hits = {}        THEN Bad(ia)
      ELSE IF uc = ch.nul THEN Valid(nv[first][2])
      ELSE                     <<[st |-> "STRING", is |-> is + 1, cp |-> first - 1], "NOCHAR">>

unvis(d, c, flags) ==
  LET cp == d.cp IN
  CASE d.st = "GROUND"  -> InGround(c, flags)
    [] d.st = "START"   -> InStart(c, cp)
    [] d.st = "META"    -> IF c = ch.minus THEN More("META1", cp)
                           ELSE IF c = ch.caret THEN More("CTRL", cp) ELSE Bad(cp)
    [] d.st = "META1"   -> Valid(Or(cp, c))
    [] d.st = "CTRL"    -> Valid(Or(cp, IF c = ch.quest THEN 127 ELSE c % 32))
    [] d.st = "OCTAL2"  -> IF IsOctal(c) THEN More("OCTAL3", (cp * 8 + c - 48) % 256) ELSE Push(cp)
    [] d.st = "OCTAL3"  -> IF IsOctal(c) THEN Valid((cp * 8 + c - 48) % 256) ELSE Push(cp)
    [] d.st = "HEX"     -> IF IsHex(c) THEN More("HEX2", HexValue(c)) ELSE Bad(cp)
    [] d.st = "HEX1"    -> IF IsHex(c) THEN More("HEX2", HexValue(c)) ELSE Push(cp)
    [] d.st = "HEX2"    -> IF IsHex(c) THEN Valid(Or(HexValue(c), (cp * 16) % 256)) ELSE Push(cp)
    [] d.st = "MIME1"   -> IF c \in {ch.nl, ch.cr} THEN More("EATCRNL", cp)
                           ELSE IF IsUpperHex(c) THEN More("MIME2", HexValue(c)) ELSE Bad(cp)
    [] d.st = "MIME2"   -> IF IsUpperHex(c) THEN Valid(Or(HexValue(c), (cp * 16) % 256)) ELSE Bad(cp)
    [] d.st = "EATCRNL" -> IF c \in {ch.nl, ch.cr} THEN More("EATCRNL", cp)
                           ELSE IF c = ch.equal THEN More("MIME1", cp) ELSE Valid(c)
    [] d.st = "AMP"     -> IF c = ch.hash THEN More("NUMBER", 0) ELSE InString(c, 0, 0)
    [] d.st = "STRING"  -> InString(c, cp, d.is)
    [] d.st = "NUMBER"  -> IF c = ch.semi THEN <<d, "VALID">>
                           ELSE IF IsDigit(c) THEN More("NUMBER", (cp + cp * 10 + c - 48) % 256) ELSE Bad(cp)

(* The call with UNVIS_END.                                                *)
unvisEnd(d) ==
  IF d.st \in {"OCTAL2", "OCTAL3", "HEX2"} THEN <<Decoder("GROUND", d.cp), "VALID">>
  ELSE IF d.st = "GROUND"                  THEN <<d, "NOCHAR">>
  ELSE                                          <<d, "SYNBAD">>
=============================================================================
