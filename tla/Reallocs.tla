------------------------------ MODULE Reallocs ------------------------------
(***************************************************************************)
(* reallocarr and reallocarray (src/features): an array that grows and     *)
(* shrinks, and the product that must not overflow a size_t. Half of the   *)
(* bits of a size_t count up to SQRT_SIZE_MAX - 1.                         *)
(***************************************************************************)
EXTENDS Integers

CONSTANTS SQRT_SIZE_MAX, NoBlock

ASSUME SizeAssumption ==
  /\ SQRT_SIZE_MAX \in Nat /\ SQRT_SIZE_MAX > 1
  /\ NoBlock \notin Nat

SIZE_MAX == SQRT_SIZE_MAX * SQRT_SIZE_MAX - 1
SizeT == 0..SIZE_MAX
Product(n, s) == (n * s) % (SIZE_MAX + 1)

VARIABLES
  block,        \* bytes of the block the program has, or NoBlock
  array,        \* the array it has in it: [number, size]
  verdict,      \* what the last call said: "ok", "overflow", "memory"
  request       \* and what for

arrayVars == <<block, array, verdict, request>>

Array(n, s) == [number |-> n, size |-> s]

ArrayInit ==
  /\ block = NoBlock
  /\ array = Array(0, 0) /\ request = Array(0, 0)
  /\ verdict = "ok"

Says(v, n, s) == verdict' = v /\ request' = Array(n, s)

(* realloc(ptr, n * s) of the C library. A failure leaves the old block.   *)
Realloc(n, s) ==
  \/ block' = Product(n, s) /\ array' = Array(n, s) /\ Says("ok", n, s)
  \/ UNCHANGED <<block, array>> /\ Says("memory", n, s)

Overflows(n, s) == (n >= SQRT_SIZE_MAX \/ s >= SQRT_SIZE_MAX) /\ n > SIZE_MAX \div s

Reallocarr(n, s) ==
  \/ /\ n = 0 \/ s = 0
     /\ block' = NoBlock /\ array' = Array(0, 0) /\ Says("ok", n, s)
  \/ /\ n # 0 /\ s # 0 /\ Overflows(n, s)
     /\ UNCHANGED <<block, array>> /\ Says("overflow", n, s)
  \/ /\ n # 0 /\ s # 0 /\ ~Overflows(n, s)
     /\ Realloc(n, s)

Reallocarray(n, s) ==
  LET over == (n >= SQRT_SIZE_MAX \/ s >= SQRT_SIZE_MAX) /\ n > 0 /\ SIZE_MAX \div n < s IN
  \/ over /\ UNCHANGED <<block, array>> /\ Says("overflow", n, s)
  \/ ~over /\ Realloc(n, s)

ArrayNext == \E n, s \in SizeT : Reallocarr(n, s) \/ Reallocarray(n, s)

ArraySpec == ArrayInit /\ [][ArrayNext]_arrayVars
-----------------------------------------------------------------------------
(* The block has room for every element, the product taken as it is and    *)
(* not cut to a size_t; and nothing is refused that a size_t can hold.     *)
RoomForAll ==
  /\ block # NoBlock => block = array.number * array.size
  /\ verdict = "overflow" => request.number * request.size > SIZE_MAX
=============================================================================
