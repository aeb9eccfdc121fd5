------------------------------ MODULE VisCodec ------------------------------
(***************************************************************************)
(* strvis and strunvis as a pipe: each byte of a string of any length is   *)
(* encoded with the byte that follows it, and what comes out is decoded    *)
(* byte by byte, with the pushing back that strnunvisx does (`goto again').*)
(***************************************************************************)
EXTENDS Unvis

CONSTANTS
  Bytes,        \* the bytes strings are made of
  FlagSets,     \* the flags both sides are called with; "svis" for strsvis
  Extra         \* its mbextra

End == 256      \* no byte

ASSUME CodecAssumption ==
  Bytes \subseteq 0..255 /\ Extra \subseteq Bytes
  /\ nv \in Seq(Seq(1..255) \X (0..255))

VARIABLES
  flags,
  next,         \* the byte to encode next, or End
  ahead,        \* its encoding, or what unvis has still to be given of it
  lag,          \* the bytes that were encoded and are not decoded yet
  decoder,
  code          \* what the last call returned; the byte is in *cp

vars == <<flags, next, ahead, lag, decoder, code>>

Init ==
  /\ flags \in FlagSets
  /\ next \in Bytes
  /\ ahead = <<>> /\ lag = <<>>
  /\ decoder = Ground
  /\ code = "NOCHAR"

(* The byte after the last is the NUL that calloc left there. Where names  *)
(* are decoded, an & is written as a name.                                 *)
EncodeByte(n) ==
  /\ ahead = <<>> /\ next # End
  /\ "http1866" \in flags => next # ch.amp
  /\ ahead' = Encode(next, flags, IF n = End THEN ch.nul ELSE n,
                      IF "svis" \in flags THEN Extra ELSE {})
  /\ lag' = Append(lag, next)
  /\ next' = n
  /\ UNCHANGED <<flags, decoder, code>>

(* A name of RFC 1866, written by somebody else.                           *)
EncodeName(j, n) ==
  /\ ahead = <<>> /\ next # End
  /\ "http1866" \in flags
  /\ ahead' = <<ch.amp>> \o nv[j][1] \o <<ch.semi>>
  /\ lag' = Append(lag, nv[j][2])
  /\ next' = n
  /\ UNCHANGED <<flags, decoder, code>>

(* What strnunvisx does with what a call returned.                         *)
Take(result) ==
  /\ decoder' = result[1]
  /\ code' = result[2]
  /\ lag' = IF code' \in {"VALID", "VALIDPUSH"} /\ lag # <<>> THEN Tail(lag) ELSE lag

(* Mutant: the byte that was pushed back is forgotten.                     *)
DecodeByteOnce ==
  /\ ahead # <<>>
  /\ Take(unvis(decoder, Head(ahead), flags))
  /\ ahead' = Tail(ahead)
  /\ UNCHANGED <<flags, next>>

DecodeByte ==
  /\ ahead # <<>>
  /\ Take(unvis(decoder, Head(ahead), flags))
  /\ ahead' = IF code' = "VALIDPUSH" THEN ahead ELSE Tail(ahead)
  /\ UNCHANGED <<flags, next>>

DecodeEnd ==
  /\ ahead = <<>> /\ next = End /\ decoder.st # "GROUND"
  /\ Take(unvisEnd(decoder))
  /\ UNCHANGED <<flags, next, ahead>>

Next ==
  \/ \E n \in Bytes \cup {End} : EncodeByte(n) \/ \E j \in DOMAIN nv : EncodeName(j, n)
  \/ DecodeByte \/ DecodeEnd

Spec == Init /\ [][Next]_vars
FairSpec == Spec /\ WF_vars(DecodeByte)
-----------------------------------------------------------------------------
(***************************************************************************)
(* Every byte comes back as it was, in its place: whatever unvis says it   *)
(* has decoded is the oldest byte that is not decoded yet, nothing that    *)
(* vis writes is refused, and at the end nothing is missing.               *)
(***************************************************************************)
RoundTrip ==
  [][DecodeByte \/ DecodeEnd =>
       /\ code' # "SYNBAD"
       /\ code' \in {"VALID", "VALIDPUSH"} => lag # <<>> /\ decoder'.cp = Head(lag)]_vars

(* Between two bytes the decoder is in its ground state only when it has   *)
(* said all it was given: nothing is swallowed.                            *)
NothingLost == ahead = <<>> /\ decoder.st = "GROUND" => lag = <<>>

(* The flags whose encodings can be read again.                            *)
Decodable(f) ==
  /\ f \cap {"noslash", "noescape"} = {}
  /\ "cstyle" \in f => /\ "glob" \notin f
                       /\ "svis" \in f => \A c \in Extra : IsGraph(c) => c = ch.bslash

(* The table of names is sorted, as S_STRING needs it: names with a        *)
(* common beginning are neighbours. No name is there twice, and none has a *)
(* ; or begins like a number.                                              *)
Agree(i, j, n) == \A k \in 0..n - 1 : At(i, k) = At(j, k)
NamesRight ==
  /\ \A j \in DOMAIN nv : /\ nv[j][1] # <<>> /\ nv[j][1][1] # ch.hash
                          /\ \A i \in DOMAIN nv[j][1] : nv[j][1][i] # ch.semi
  /\ \A i, j \in DOMAIN nv : nv[i][1] = nv[j][1] => i = j
  /\ \A i, j \in DOMAIN nv : \A k \in i..j, n \in 1..Len(nv[j][1]) : Agree(i, j, n) => Agree(k, j, n)

(* No byte is pushed back for ever: the decoder takes all it is given.     *)
Taken == ahead # <<>> ~> ahead = <<>>
=============================================================================
