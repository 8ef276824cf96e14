------------------------------- MODULE Bitmap -------------------------------
(***************************************************************************)
(* Fixed-size arrays of bits: the allocation map of sfs.  A word is the    *)
(* set of its bits that are 1.                                             *)
(***************************************************************************)
EXTENDS Naturals, Sequences, FiniteSets, FiniteSetsExt

CONSTANTS BITS_PER_WORD, Sizes   \* bits of a word (8), and of the maps looked at

ASSUME BitmapAssumption == BITS_PER_WORD \in Nat \ {0} /\ Sizes \subseteq Nat

VARIABLES
  bits,       \* [nbits, v], or "none"
  marked,     \* the numbers given out and not given back
  answer      \* of bitmap_alloc: a number, or "ENOSPC", as a set of at most one number

mapvars == <<bits, marked, answer>>

DIVROUNDUP(a, b) == (a + b - 1) \div b
WORD_ALLBITS == 0..BITS_PER_WORD - 1
NoMap == [nbits |-> 0, v |-> <<>>, here |-> FALSE]

BitmapInit == bits = NoMap /\ marked = {} /\ answer = {}

\* Leftover bits of the last word are in use from the start.
bitmap_create(n) ==
  /\ ~bits.here
  /\ LET words == DIVROUNDUP(n, BITS_PER_WORD) IN
     bits' = [nbits |-> n, here |-> TRUE,
              v |-> [ix \in 1..words |-> IF ix = words /\ words > n \div BITS_PER_WORD
                                         THEN {j \in WORD_ALLBITS : j >= n - (words - 1) * BITS_PER_WORD} ELSE {}]]
  /\ marked' = {} /\ answer' = {}

bitmap_translate(index) == [ix |-> index \div BITS_PER_WORD + 1, mask |-> {index % BITS_PER_WORD}]
bitmap_isset(index) == bitmap_translate(index).mask \subseteq bits.v[bitmap_translate(index).ix]

\* The first word that is not full, and its first bit that is 0.
bitmap_alloc ==
  /\ bits.here
  /\ LET open == {ix \in DOMAIN bits.v : bits.v[ix] # WORD_ALLBITS} IN
     IF open = {} THEN answer' = {} /\ UNCHANGED <<bits, marked>>
     ELSE LET ix == Min(open)  offset == Min(WORD_ALLBITS \ bits.v[ix])  index == (ix - 1) * BITS_PER_WORD + offset IN
          bits' = [bits EXCEPT !.v[ix] = @ \union {offset}] /\ marked' = marked \union {index} /\ answer' = {index}

bitmap_mark(index) ==
  /\ bits.here /\ index < bits.nbits /\ ~bitmap_isset(index)
  /\ LET w == bitmap_translate(index) IN bits' = [bits EXCEPT !.v[w.ix] = @ \union w.mask]
  /\ marked' = marked \union {index} /\ answer' = {}

bitmap_unmark(index) ==
  /\ bits.here /\ index < bits.nbits /\ bitmap_isset(index)
  /\ LET w == bitmap_translate(index) IN bits' = [bits EXCEPT !.v[w.ix] = @ \ w.mask]
  /\ marked' = marked \ {index} /\ answer' = {}

bitmap_destroy == bits.here /\ bits' = NoMap /\ marked' = {} /\ answer' = {}

BitmapNext ==
  \/ bitmap_alloc \/ bitmap_destroy
  \/ \E n \in Sizes : bitmap_create(n)
  \/ \E index \in 0..bits.nbits - 1 : bitmap_mark(index) \/ bitmap_unmark(index)

(***************************************************************************)
(* Properties.                                                             *)
(***************************************************************************)

\* The bits that are set are the numbers given out, and no number past the
\* end is ever given out, though the words have bits for some.
BitsExact == bits.here => marked \subseteq 0..bits.nbits - 1 /\ \A index \in 0..bits.nbits - 1 : bitmap_isset(index) <=> index \in marked

\* bitmap_alloc gives the lowest free number, and refuses only when there is none.
LowestFirst ==
  [][bitmap_alloc => LET free == (0..bits.nbits - 1) \ marked IN answer' = IF free = {} THEN {} ELSE {Min(free)}]_mapvars
=============================================================================
