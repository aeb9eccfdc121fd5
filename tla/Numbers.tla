------------------------------ MODULE Numbers -------------------------------
(***************************************************************************)
(* strtoi, strtou and humanize_number (src/features), one call each.       *)
(***************************************************************************)
EXTENDS Reallocs

CONSTANTS
  IntMax,       \* intmax_t is -IntMax-1..IntMax, uintmax_t 0..2*IntMax+1
  Texts,        \* [value, digits, trail]: a number, what follows it or not
  Bounds,       \* pairs lo, hi
  Amounts, HnLengths, SuffixLens, Scales, HnFlags

IntMin == -IntMax - 1
UintMax == 2 * IntMax + 1

(* strtoimax and strtoumax of the C library: the value, errno apart.       *)
strtoimax(text) ==
  IF ~text.digits THEN 0 ELSE IF text.value > IntMax THEN IntMax ELSE IF text.value < IntMin THEN IntMin ELSE text.value
strtoumax(text) ==
  IF ~text.digits THEN 0
  ELSE IF text.value > UintMax \/ text.value < -UintMax THEN UintMax ELSE text.value % (UintMax + 1)

(* _STANDALONE is defined: errno of the call above is not looked at.       *)
Ranged(im, text, lo, hi) ==
  LET status == IF ~text.digits THEN "ECANCELED" ELSE IF text.trail THEN "ENOTSUP" ELSE "0"
      outside == IF status = "0" THEN "ERANGE" ELSE status
  IN  IF im < lo THEN [res |-> lo, status |-> outside]
      ELSE IF im > hi THEN [res |-> hi, status |-> outside]
      ELSE [res |-> im, status |-> status]

strtoi(text, lo, hi) == Ranged(strtoimax(text), text, lo, hi)
strtou(text, lo, hi) == Ranged(strtoumax(text), text, lo, hi)
-----------------------------------------------------------------------------
Abs(n) == IF n < 0 THEN -n ELSE n

Digits(n) == LET digits[m \in 0..n] == IF m < 10 THEN 1 ELSE 1 + digits[m \div 10] IN digits[n]
Power(b, n) == LET power[k \in 0..n] == IF k = 0 THEN 1 ELSE b * power[k - 1] IN power[n]

maxscale == 7

(* Room for a sign, a digit, a prefix, the separator and the suffix.       *)
BaseLen(bytes, suffix, flags) ==
  (IF bytes < 0 THEN 3 ELSE 2) + (IF "nospace" \in flags THEN 0 ELSE 1) + suffix

Divisor(flags) == IF "1000" \in flags THEN 1000 ELSE 1024

(* Mutant: that rounding may need one more column is forgotten.            *)
TooWideFloor(hundredths, max) == hundredths >= max

TooWide(hundredths, max) == hundredths >= max - 50

(* The amount in each unit, and the smallest unit whose columns suffice.   *)
Quotients(hundredths, divisor) ==
  LET amount[i \in 0..maxscale] == IF i = 0 THEN hundredths ELSE amount[i - 1] \div divisor IN amount

Fitting(amount, max) ==
  CHOOSE i \in 0..maxscale :
    /\ i = maxscale \/ ~TooWide(amount[i], max)
    /\ \A j \in 0..(i - 1) : TooWide(amount[j], max)

(* What is written: a number, in tenths or whole, and the prefix's place.  *)
(* The sign goes with the whole part.                                      *)
Shown(bytes, hundredths, i, len, suffix, flags) ==
  LET base  == BaseLen(bytes, suffix, flags)
      sign  == IF bytes < 0 THEN -1 ELSE 1
      tenth == hundredths < 995 /\ i > 0 /\ "decimal" \in flags
      b     == (hundredths + 5) \div 10
      whole == sign * (IF tenth THEN b \div 10 ELSE (hundredths + 50) \div 100)
      ret   == Digits(Abs(whole)) + (IF whole < 0 THEN 1 ELSE 0) + (IF tenth THEN 2 ELSE 0)
               + (IF "nospace" \in flags THEN 0 ELSE 1)
               + (IF i > 0 \/ "B" \in flags THEN 1 ELSE 0) + suffix
  IN  IF tenth /\ len < base + 3 THEN [ret |-> -1]
      ELSE [ret |-> ret, whole |-> whole, tenth |-> IF tenth THEN b % 10 ELSE -1, at |-> i]

HN_GETSCALE == 16
HN_AUTOSCALE == 32

(* suffix is its length.                                                   *)
humanize_number(len, bytes, suffix, scale, flags) ==
  LET auto    == scale >= HN_GETSCALE
      columns == len - BaseLen(bytes, suffix, flags)
      amount  == Quotients(100 * Abs(bytes), Divisor(flags))
      at      == IF auto THEN Fitting(amount, 100 * Power(10, columns)) ELSE scale
  IN  IF (~auto /\ scale >= maxscale) \/ columns < 1 THEN [ret |-> -1]
      ELSE IF scale = HN_GETSCALE THEN [ret |-> at]
      ELSE Shown(bytes, amount[at], at, len, suffix, flags)
-----------------------------------------------------------------------------
(* Bounds are of one of the two types. An amount of 64 bits is not a       *)
(* hundredth of the unit behind the last prefix.                           *)
ASSUME NumbersAssumption ==
  /\ IntMax \in Nat
  /\ Texts \subseteq [value : Int, digits : BOOLEAN, trail : BOOLEAN]
  /\ Bounds \subseteq Int \X Int /\ \A b \in Bounds : IntMin <= b[1] /\ b[1] <= b[2] /\ b[2] <= UintMax
  /\ HnLengths \subseteq Nat /\ SuffixLens \subseteq Nat
  /\ Scales \subseteq 0..15 \cup {HN_GETSCALE, HN_AUTOSCALE}
  /\ \A bytes \in Amounts : bytes \in Int /\ \A d \in {1000, 1024} : Quotients(100 * Abs(bytes), d)[maxscale] = 0

VARIABLE call   \* the last call, with its arguments and what it returned

numberVars == <<arrayVars, call>>

NoCall == [fn |-> "none"]

NumberInit == ArrayInit /\ call = NoCall

Strto(text, lo, hi) ==
  \/ hi <= IntMax /\ call' = [fn |-> "strtoi", text |-> text, lo |-> lo, hi |-> hi, r |-> strtoi(text, lo, hi)]
  \/ lo >= 0 /\ call' = [fn |-> "strtou", text |-> text, lo |-> lo, hi |-> hi, r |-> strtou(text, lo, hi)]

Humanize(len, bytes, suffix, scale, flags) ==
  call' = [fn |-> "humanize", len |-> len, bytes |-> bytes, suffix |-> suffix, scale |-> scale,
           flags |-> flags, r |-> humanize_number(len, bytes, suffix, scale, flags)]

NumberNext ==
  \/ call = NoCall /\ ArrayNext /\ UNCHANGED call
  \/ /\ call = NoCall /\ block = NoBlock /\ verdict = "ok" /\ request = array /\ UNCHANGED arrayVars
     /\ \/ \E text \in Texts, b \in Bounds : Strto(text, b[1], b[2])
        \/ \E len \in HnLengths, bytes \in Amounts, suffix \in SuffixLens, scale \in Scales, flags \in HnFlags :
             Humanize(len, bytes, suffix, scale, flags)

NumberSpec == NumberInit /\ [][NumberNext]_numberVars
-----------------------------------------------------------------------------
(* What is returned is in the range; a status of 0 means that it is the    *)
(* number in the text and nothing else is there, but for a number that     *)
(* does not fit the type.                                                  *)
StrtoRight ==
  call.fn \in {"strtoi", "strtou"} =>
    LET t == call.text
        type == IF call.fn = "strtoi" THEN IntMin..IntMax ELSE 0..UintMax IN
    /\ call.r.res \in call.lo..call.hi
    /\ call.r.status = "0" => t.digits /\ ~t.trail /\ (t.value \in type => call.r.res = t.value)
    /\ t.digits /\ ~t.trail /\ t.value \in call.lo..call.hi =>
         call.r = [res |-> t.value, status |-> "0"]

(* The number written is the amount to the nearest unit (or tenth of one)  *)
(* of its prefix. Where the scale is chosen, the text fits with its NUL,   *)
(* has the sign of the amount, and a smaller unit would not have fitted;   *)
(* HN_GETSCALE tells that scale.                                           *)
Nearest(n, unit, amount) == 2 * Abs(n * unit - amount) <= unit

HumanizeRight ==
  call.fn = "humanize" /\ call.r.ret >= 0 =>
    LET x == Abs(call.bytes)
        d == Divisor(call.flags)
        columns == call.len - BaseLen(call.bytes, call.suffix, call.flags)
        r == call.r IN
    call.scale # HN_GETSCALE =>
      /\ IF r.tenth >= 0 THEN Nearest(10 * Abs(r.whole) + r.tenth, Power(d, r.at), 10 * x)
         ELSE Nearest(Abs(r.whole), Power(d, r.at), x)
      /\ call.scale = HN_AUTOSCALE =>
           /\ r.ret < call.len
           /\ call.bytes < 0 => r.whole <= (IF r.tenth >= 0 THEN -1 ELSE 0)
           /\ r.at > 0 => 2 * x + Power(d, r.at - 1) >= 2 * Power(10, columns) * Power(d, r.at - 1)
           /\ r.at = humanize_number(call.len, call.bytes, call.suffix, HN_GETSCALE, call.flags).ret

(***************************************************************************)
(* Numbers are read and written as they are, and arrays have room.         *)
(***************************************************************************)
NumbersRight == RoomForAll /\ StrtoRight /\ HumanizeRight
=============================================================================
