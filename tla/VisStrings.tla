----------------------------- MODULE VisStrings -----------------------------
(***************************************************************************)
(* The functions of mkc_vis.c and mkc_unvis.c on whole strings: lengths,   *)
(* and the limits of the buffers they write to. Characters of one byte.    *)
(***************************************************************************)
EXTENDS Unvis, SequencesExt

CONSTANTS
  VisBytes, VisFlags, VisExtra,
  MaxString,    \* length of the strings
  Limits        \* sizes of buffers

Unlimited == 1000

(* Some flags write what cannot be read again: see Decodable of VisCodec.  *)
ASSUME VisAssumption ==
  /\ VisBytes \subseteq 0..255
  /\ \A f \in VisFlags : /\ f \cap {"noslash", "noescape"} = {}
                         /\ "cstyle" \in f => "glob" \notin f
                         /\ "http1866" \in f => ch.amp \notin VisBytes
  /\ MaxString \in Nat /\ Limits \subseteq Nat

Uncut(bytes) == SubSeq(bytes, 1, Min({i \in DOMAIN bytes : bytes[i] = ch.nul}) - 1)

(* The byte after the last is the NUL of calloc, save for a single one:    *)
(* then the next is read too.                                              *)
Encoded(mbsrc, len, flags, extra) ==
  FlattenSeq([i \in 1..len |->
    Encode(mbsrc[i], flags, IF i < len \/ len = 1 THEN mbsrc[i + 1] ELSE ch.nul, extra)])

(* What is returned, the string in mbdst, and how many bytes were written. *)
Output(bytes, maxolen) ==
  LET olen == IF Len(bytes) < maxolen THEN Len(bytes) ELSE maxolen
  IN  [ret |-> olen, text |-> SubSeq(bytes, 1, olen), reach |-> olen + 1]

(* mblength = 0 asks for the whole string. An allocation may fail: calloc, *)
(* or the one of makeextralist.                                            *)
istrsenvisx(mbsrc, mblength, flags, extra, dlen, fails) ==
  CASE fails = "calloc" -> [ret |-> -1, text |-> <<>>, reach |-> 0]
    [] fails = "extra" ->  [ret |-> IF dlen = 0 THEN -1 ELSE 0, text |-> <<>>, reach |-> IF dlen = 0 THEN 0 ELSE 1]
    [] OTHER -> Output(Encoded(mbsrc, IF mblength = 0 THEN Len(Uncut(mbsrc)) ELSE mblength, flags, extra), dlen)

(* vis and nvis; svis and snvis: a byte and the next.                      *)
vis(c, nextc, flags, dlen, fails) == istrsenvisx(<<c, nextc>>, 1, flags, {}, dlen, fails)
svis(c, nextc, flags, dlen, fails) == istrsenvisx(<<c, nextc>>, 1, flags, VisExtra, dlen, fails)
(* strvis and strnvis, strsvis and strsnvis: up to the NUL.                *)
strvis(mbsrc, flags, dlen, fails) == istrsenvisx(mbsrc, 0, flags, {}, dlen, fails)
strsvis(mbsrc, flags, dlen, fails) == istrsenvisx(mbsrc, 0, flags, VisExtra, dlen, fails)
(* strvisx, strnvisx, strenvisx, and those with an extra list: len bytes.  *)
strvisx(mbsrc, len, flags, dlen, fails) == istrsenvisx(mbsrc, len, flags, {}, dlen, fails)
strsvisx(mbsrc, len, flags, dlen, fails) == istrsenvisx(mbsrc, len, flags, VisExtra, dlen, fails)

(* Mutant: the room for the terminator is not looked at.                   *)
CheckspaceLast(dst, dlen) == TRUE

CheckLast(dst, dlen) == Len(dst) < dlen

(* What the loop does with what unvis has returned.                        *)
Answered(t, r, dlen) ==
  LET stores == r[2] \in {"VALID", "VALIDPUSH"}
      fails == r[2] = "SYNBAD" \/ (stores /\ Len(t.text) >= dlen)
  IN  [decoder |-> r[1], text |-> IF stores /\ ~fails THEN Append(t.text, r[1].cp) ELSE t.text,
       failed |-> fails, again |-> ~fails /\ r[2] = "VALIDPUSH"]

Given(t, c, dlen, flags) == Answered(t, unvis(t.decoder, c, flags), dlen)

(* A byte that is pushed back is given again, to the ground state, which   *)
(* pushes nothing back.                                                    *)
Again(t, c, dlen, flags) == IF t.again THEN Given(t, c, dlen, flags) ELSE t

Fed(t, c, dlen, flags) == IF t.failed THEN t ELSE Again(Given(t, c, dlen, flags), c, dlen, flags)

Unfed == [decoder |-> Ground, text |-> <<>>, failed |-> FALSE, again |-> FALSE]

(* At the end of src: UNVIS_END, and the NUL.                              *)
Finished(t, dlen) ==
  LET r == unvisEnd(t.decoder)
      stores == r[2] = "VALID"
      text == IF stores THEN Append(t.text, r[1].cp) ELSE t.text
  IN  IF t.failed \/ (stores /\ Len(t.text) >= dlen) THEN [ret |-> -1, text |-> t.text]
      ELSE [ret |-> IF CheckLast(text, dlen) THEN Len(text) ELSE -1, text |-> text]

strnunvisx(src, dlen, flags) ==
  LET fed[i \in 0..Len(src)] == IF i = 0 THEN Unfed ELSE Fed(fed[i - 1], src[i], dlen, flags)
  IN  Finished(fed[Len(src)], dlen)

strunvisx(src, flags) == strnunvisx(src, Unlimited, flags)
strunvis(src) == strnunvisx(src, Unlimited, {})
strnunvis(src, dlen) == strnunvisx(src, dlen, {})
-----------------------------------------------------------------------------
VARIABLES
  source,       \* bytes in memory, the last a NUL
  asFlags,
  visLimit,     \* dlen of vis
  encoded,      \* what vis was asked for: [all, out, extra, complete]
  decoded,      \* what unvis made of that
  unvisLimit

visVars == <<source, asFlags, visLimit, encoded, decoded, unvisLimit>>

Nothing == [ret |-> -2, text |-> <<>>, reach |-> 0]
NotYet == [of |-> <<>>, out |-> Nothing]

VisInit ==
  /\ source \in UNION {[1..n -> VisBytes] : n \in 1..MaxString}
  /\ asFlags \in VisFlags
  /\ visLimit = 0 /\ unvisLimit = 0
  /\ encoded = NotYet
  /\ decoded = Nothing

Mem == Append(source, ch.nul)

EncodedAs(of, out, limit) ==
  /\ encoded = NotYet
  /\ encoded' = [of |-> of, out |-> out]
  /\ visLimit' = limit
  /\ UNCHANGED <<source, asFlags, decoded, unvisLimit>>

(* With VIS_CSTYLE a graphic byte of the list becomes \ and itself, which  *)
(* unvis reads as something else or refuses: not asked for here.           *)
WithExtra == "cstyle" \notin asFlags

EncodeString(limit, fails) ==
  \/ EncodedAs(Uncut(Mem), strvis(Mem, asFlags, limit, fails), limit)
  \/ WithExtra /\ EncodedAs(Uncut(Mem), strsvis(Mem, asFlags, limit, fails), limit)

EncodeBlock(len, limit, fails) ==
  \/ EncodedAs(SubSeq(source, 1, len), strvisx(Mem, len, asFlags, limit, fails), limit)
  \/ WithExtra /\ EncodedAs(SubSeq(source, 1, len), strsvisx(Mem, len, asFlags, limit, fails), limit)

EncodeOne(limit, fails) ==
  \/ EncodedAs(<<Mem[1]>>, vis(Mem[1], Mem[2], asFlags, limit, fails), limit)
  \/ WithExtra /\ EncodedAs(<<Mem[1]>>, svis(Mem[1], Mem[2], asFlags, limit, fails), limit)

DecodeString(limit) ==
  /\ encoded.out.ret >= 0 /\ decoded = Nothing
  /\ unvisLimit' = limit
  /\ LET r == IF limit = Unlimited
              THEN IF asFlags = {} THEN strunvis(encoded.out.text) ELSE strunvisx(encoded.out.text, asFlags)
              ELSE IF asFlags = {} THEN strnunvis(encoded.out.text, limit)
                   ELSE strnunvisx(encoded.out.text, limit, asFlags)
     IN  decoded' = [ret |-> r.ret, text |-> r.text,
                     reach |-> Len(r.text) + (IF r.ret >= 0 THEN 1 ELSE 0)]
  /\ UNCHANGED <<source, asFlags, visLimit, encoded>>

VisNext ==
  \/ \E limit \in Limits \cup {Unlimited}, fails \in {"none", "calloc", "extra"} :
       \/ EncodeString(limit, fails) \/ EncodeOne(limit, fails)
       \/ \E len \in DOMAIN source : EncodeBlock(len, limit, fails)
  \/ \E limit \in Limits \cup {Unlimited} : DecodeString(limit)
-----------------------------------------------------------------------------
(***************************************************************************)
(* An encoding that is shorter than its limit is whole, and decoding gives *)
(* it back when there is room for it and a NUL; of one that was cut comes  *)
(* back the beginning, or that with a last byte which is not right. The    *)
(* decoder writes nothing past its limit, the encoder one byte at most.    *)
(***************************************************************************)
VisRight ==
  /\ encoded.out.reach <= visLimit + 1
  /\ decoded.reach <= unvisLimit
  /\ LET whole == encoded.out.ret < visLimit /\ encoded.out.ret > 0 IN
     /\ decoded.ret >= 0 => IF whole THEN decoded.text = encoded.of
                            ELSE decoded.text = <<>> \/ IsPrefix(Front(decoded.text), encoded.of)
     /\ decoded.ret = -1 /\ whole => unvisLimit <= Len(encoded.of)

VisSpec == VisInit /\ [][VisNext]_visVars
=============================================================================
