---------------------------- MODULE LineBuffers -----------------------------
(***************************************************************************)
(* The buffers lines are read into: one that a program gives to getline    *)
(* and getdelim in turns, and the pool of fgetln, which goes round. A line *)
(* is known by its stream and its number, and has a length.                *)
(***************************************************************************)
EXTENDS Integers

CONSTANTS
  Streams,
  MaxLines,             \* lines in a stream, at most
  Lengths,              \* lengths of lines
  Sizes,                \* what the program's buffer is allocated with
  Failing,              \* which allocation of a call may fail, 0 for none
  BUFSIZ,
  FILEBUF_POOL_ITEMS,
  None

VARIABLES
  fb_pool, fb_pool_cur,
  own,          \* the program's buffer
  lines,        \* how many lines each stream has given
  last,         \* the last line fgetln returned for a stream, and its slot
  moves,        \* moves of fb_pool_cur since then
  wild,         \* a line was written through a null pointer
  failed        \* an allocation has failed

bufferVars == <<fb_pool, fb_pool_cur, own, lines, last, moves, wild, failed>>

(* size: what is allocated, 0 for NULL; n: what *n says; reach: the last   *)
(* byte written.                                                           *)
Buffer(size, n) == [size |-> size, n |-> n, reach |-> 0, holds |-> None]

ASSUME StreamsAssumption ==
  None \notin Streams /\ Lengths \subseteq Nat \ {0} /\ Failing \subseteq Nat /\ MaxLines \in Nat

ASSUME SizesAssumption ==
  /\ \A n \in Sizes : n \in Nat \ {1}       \* getdelim writes two bytes
  /\ BUFSIZ \in Nat /\ BUFSIZ > 1 /\ FILEBUF_POOL_ITEMS \in Nat \ {0}

Slots == 0..(FILEBUF_POOL_ITEMS - 1)

BufferInit ==
  /\ fb_pool = [i \in Slots |-> [fp |-> None, buf |-> Buffer(0, 0)]]
  /\ fb_pool_cur = 0
  /\ own \in {Buffer(n, n) : n \in Sizes}
  /\ lines = [s \in Streams |-> 0]
  /\ last = [s \in Streams |-> None]
  /\ moves = [s \in Streams |-> 0]
  /\ wild = FALSE /\ failed = FALSE

(* The sizes a buffer goes through until there is room.                    *)
Grown(n, least) ==
  LET size[g \in 0..least] == IF g = 0 THEN n ELSE (size[g - 1] * 3) \div 2 + 2 IN size
Doubled(n, least) ==
  LET size[g \in 0..least] == IF g = 0 THEN n ELSE 2 * size[g - 1] IN size

FirstGrowth(sizes, least) ==
  CHOOSE g \in DOMAIN sizes : sizes[g] >= least /\ \A h \in 0..(g - 1) : sizes[h] < least

(* What a call leaves: the buffer, and whether the line is in it. The      *)
(* fails-th allocation fails, none for 0.                                  *)
Filled(b, size, len, line) ==
  [buf |-> [size |-> size, n |-> size, reach |-> len, holds |-> line], ok |-> TRUE, wild |-> FALSE]

(* Mutant: no room is kept for the terminator.                             *)
getlineTight(b, len, line, fails) ==
  LET sizes == Grown(b.n, len) IN Filled(b, sizes[FirstGrowth(sizes, len)], len, line)

(* realloc's result is put into *lineptr before it is looked at, the size  *)
(* into *n before the call: NULL with a size is what a failure leaves.     *)
getline(b, len, line, fails) ==
  LET sizes == Grown(b.n, len + 1)
      g     == FirstGrowth(sizes, len + 1) IN
  IF b.size = 0 /\ b.n > 1 THEN [buf |-> b, ok |-> FALSE, wild |-> TRUE]
  ELSE IF fails \in 1..g THEN [buf |-> Buffer(0, sizes[fails]), ok |-> FALSE, wild |-> FALSE]
  ELSE Filled(b, sizes[g], len, line)

(* Room for a character and a terminator is made after each character,     *)
(* save the delimiter.                                                     *)
getdelim(b, len, delimited, line, fails) ==
  LET k     == IF b.size = 0 THEN 1 ELSE 0          \* malloc is the first
      start == IF b.size = 0 THEN BUFSIZ ELSE b.n
      least == IF delimited THEN len + 2 ELSE len + 3
      sizes == Doubled(start, least)
      g     == IF len = 1 /\ delimited THEN 0 ELSE FirstGrowth(sizes, least)
  IN  IF fails = 1 /\ k = 1 THEN [buf |-> Buffer(0, BUFSIZ), ok |-> FALSE, wild |-> FALSE]
      ELSE IF fails - k \in 1..g
      THEN LET n == sizes[fails - k - 1]
           IN  [buf |-> Buffer(n, n), ok |-> FALSE, wild |-> FALSE]
      ELSE Filled(b, sizes[g], len, line)

ReadOwn(r, s) ==
  /\ own' = r.buf
  /\ wild' = r.wild
  /\ failed' = (failed \/ ~r.ok)
  /\ lines' = [lines EXCEPT ![s] = @ + 1]
  /\ UNCHANGED <<fb_pool, fb_pool_cur, last, moves>>

Getline(s, len, fails) == lines[s] < MaxLines /\ ReadOwn(getline(own, len, <<s, lines[s]>>, fails), s)

Getdelim(s, len, delimited, fails) ==
  lines[s] < MaxLines /\ ReadOwn(getdelim(own, len, delimited, <<s, lines[s]>>, fails), s)

(* The slot of the last call serves a call for the same stream again.      *)
Serves(s) == fb_pool[fb_pool_cur].fp \in {s, None}

Slot(s) == IF Serves(s) THEN fb_pool_cur ELSE (fb_pool_cur + 1) % FILEBUF_POOL_ITEMS

Moved(s) == IF Serves(s) THEN moves ELSE [t \in Streams |-> moves[t] + 1]

Fgetln(s, len, fails) ==
  LET i == Slot(s)
      line == <<s, lines[s]>>
      r == getline(fb_pool[i].buf, len, line, fails) IN
  /\ lines[s] < MaxLines
  /\ fb_pool_cur' = i
  /\ fb_pool' = [fb_pool EXCEPT ![i] = [fp |-> s, buf |-> r.buf]]
  /\ wild' = r.wild
  /\ failed' = (failed \/ ~r.ok)
  /\ lines' = [lines EXCEPT ![s] = @ + 1]
  /\ last' = [last EXCEPT ![s] = IF r.ok THEN [line |-> line, slot |-> i] ELSE None]
  /\ moves' = IF r.ok THEN [Moved(s) EXCEPT ![s] = 0] ELSE Moved(s)
  /\ UNCHANGED own

(* At the end of a stream: the slot is taken all the same.                 *)
FgetlnEnd(s) ==
  /\ lines[s] = MaxLines
  /\ \A t \in Streams : moves[t] <= FILEBUF_POOL_ITEMS
  /\ fb_pool_cur' = Slot(s)
  /\ fb_pool' = [fb_pool EXCEPT ![Slot(s)].fp = s]
  /\ moves' = Moved(s)
  /\ UNCHANGED <<own, lines, last, wild, failed>>

OwnNext ==
  ~wild /\ \E s \in Streams, len \in Lengths, fails \in Failing :
    Getline(s, len, fails) \/ \E d \in BOOLEAN : Getdelim(s, len, d, fails)

PoolNext ==
  ~wild /\ \E s \in Streams : FgetlnEnd(s) \/ \E len \in Lengths, fails \in Failing : Fgetln(s, len, fails)

BufferSpec == BufferInit /\ [][OwnNext \/ PoolNext]_bufferVars
-----------------------------------------------------------------------------
(***************************************************************************)
(* The line fgetln returned last for a stream stays as it is until the     *)
(* cursor has gone round the pool; each line has fitted into its buffer    *)
(* with its terminator; and until an allocation fails nothing is written   *)
(* through a null pointer.                                                 *)
(***************************************************************************)
LinesKept ==
  /\ \A s \in Streams : last[s] # None /\ moves[s] < FILEBUF_POOL_ITEMS =>
       fb_pool[last[s].slot].buf.holds = last[s].line
  /\ \A b \in {own} \cup {fb_pool[i].buf : i \in Slots} :
       IF b.size # 0 THEN b.n = b.size /\ b.reach < b.size ELSE failed \/ b.n = 0
  /\ wild => failed
=============================================================================
