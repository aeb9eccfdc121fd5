-------------------------------- MODULE Vis ---------------------------------
(***************************************************************************)
(* vis (features/vis/mkc_vis.c) for characters of one byte: what a byte is *)
(* encoded as, given the flags and the byte that follows it.               *)
(***************************************************************************)
EXTENDS Naturals, Sequences

ch == [nul |-> 0, nl |-> 10, cr |-> 13, sp |-> 32, hash |-> 35, percent |-> 37, amp |-> 38,
       star |-> 42, minus |-> 45, zero |-> 48, semi |-> 59, equal |-> 61, quest |-> 63,
       at |-> 64, M |-> 77, bslash |-> 92, caret |-> 94]

IsGraph(c) == c \in 33..126
IsCntrl(c) == c < 32 \/ c = 127
IsSpace(c) == c \in {ch.sp} \cup 9..13
IsDigit(c) == c \in 48..57
IsAlnum(c) == IsDigit(c) \/ c \in 65..90 \/ c \in 97..122
IsOctal(c) == c \in 48..55
IsWhite(c) == c \in {ch.sp, 9, ch.nl}
IsSafe(c) == c \in {7, 8, ch.cr}

(* The i-th hexadecimal digit, xtoa; a is 97 for small and 65 for capital  *)
(* letters.                                                                *)
HexDigit(i, a) == IF i < 10 THEN ch.zero + i ELSE a + i - 10
Hex(c, a) == <<HexDigit(c \div 16, a), HexDigit(c % 16, a)>>

(* \n, \r, \b, \a, \v, \t, \f, \s                                          *)
Letter == [c \in 7..13 \cup {ch.sp} |->
  CASE c = 10 -> 110 [] c = 13 -> 114 [] c = 8 -> 98 [] c = 7 -> 97
    [] c = 11 -> 118 [] c = 9 -> 116 [] c = 12 -> 102 [] c = 32 -> 115]

Octal(c) == <<ch.bslash, ch.zero + (c \div 64), ch.zero + ((c \div 8) % 8), ch.zero + (c % 8)>>

(* Mutant: \0 is not told from \0 and the octal digits that follow.        *)
CStyleShortNul(c, nextc) ==
  IF c \in DOMAIN Letter THEN <<ch.bslash, Letter[c]>>
  ELSE IF c = ch.nul    THEN <<ch.bslash, ch.zero>>
  ELSE                        <<ch.bslash, c>>

CStyle(c, nextc) ==
  IF c \in DOMAIN Letter THEN <<ch.bslash, Letter[c]>>
  ELSE IF c = ch.nul    THEN <<ch.bslash, ch.zero>> \o (IF IsOctal(nextc) THEN <<ch.zero, ch.zero>> ELSE <<>>)
  ELSE                        <<ch.bslash, c>>

MetaCntrl(c, flags) ==
  (IF "noslash" \in flags THEN <<>> ELSE <<ch.bslash>>)
  \o (IF c >= 128 THEN <<ch.M>> ELSE <<>>)
  \o (IF IsCntrl(c % 128) THEN <<ch.caret, IF c % 128 = 127 THEN ch.quest ELSE (c % 128) + ch.at>>
                          ELSE <<ch.minus, c % 128>>)

do_mbyte(c, flags, nextc, iswextra) ==
  IF "cstyle" \in flags /\ (c \in DOMAIN Letter \cup {ch.nul} \/ IsGraph(c)) THEN CStyle(c, nextc)
  ELSE IF iswextra \/ c % 128 = ch.sp \/ "octal" \in flags                  THEN Octal(c)
  ELSE                                                                          MetaCntrl(c, flags)

(* Bytes to encode besides; the terminator of the list is found in it too. *)
ExtraList(flags, extra) ==
  extra \cup {ch.nul}
        \cup (IF "glob" \in flags THEN {ch.star, ch.quest, 91, ch.hash} ELSE {})
        \cup (IF "sp" \in flags THEN {ch.sp} ELSE {})
        \cup (IF "tab" \in flags THEN {9} ELSE {})
        \cup (IF "nl" \in flags THEN {ch.nl} ELSE {})
        \cup (IF "noslash" \in flags THEN {} ELSE {ch.bslash})

do_svis(c, flags, nextc, extra) ==
  IF c \notin extra /\ (IsGraph(c) \/ IsWhite(c) \/ ("safe" \in flags /\ IsSafe(c)))
  THEN <<c>>
  ELSE do_mbyte(c, flags, nextc, c \in extra)

(* $ - _ . + ! * ' ( ) ,                                                   *)
do_hvis(c, flags, nextc, extra) ==
  IF IsAlnum(c) \/ c \in {36, ch.minus, 95, 46, 43, 33, ch.star, 39, 40, 41, 44}
  THEN do_svis(c, flags, nextc, extra)
  ELSE <<ch.percent>> \o Hex(c, 97)

(* A space at the end of a line, what is out of range, and # $ @ [ \ ] ^   *)
(* ` { | } ~ with the terminator of that list.                             *)
do_mvis(c, flags, nextc, extra) ==
  IF /\ c # ch.nl
     /\ \/ IsSpace(c) /\ nextc \in {ch.cr, ch.nl}
        \/ ~IsSpace(c) /\ (c < 33 \/ c = ch.equal \/ c > 126)
        \/ c \in {ch.nul, ch.hash, 36, ch.at, 91, ch.bslash, 93, ch.caret, 96, 123, 124, 125, 126}
  THEN <<ch.equal>> \o Hex(c, 65)
  ELSE do_svis(c, flags, nextc, extra)

Encode(c, flags, nextc, extra) ==
  IF "httpstyle" \in flags      THEN do_hvis(c, flags, nextc, ExtraList(flags, extra))
  ELSE IF "mimestyle" \in flags THEN do_mvis(c, flags, nextc, ExtraList(flags, extra))
  ELSE                               do_svis(c, flags, nextc, ExtraList(flags, extra))
=============================================================================
