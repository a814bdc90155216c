---------------------------- MODULE PriceBitmap ----------------------------
(***************************************************************************)
(* The three-level occupancy bitmap behind the price levels: l0 holds one  *)
(* bit per index, l1 one bit per l0 word that is not zero, l2 one bit per  *)
(* l1 word that is not zero.  A word is the set of its bits that are set.  *)
(* The predecessor and successor searches read the summaries instead of    *)
(* the empty words, so they are right only while the summaries are exact.  *)
(***************************************************************************)
EXTENDS Integers

CONSTANTS
  WordBits,    \* bits per word (64)
  L1Words,     \* kL1Words (16); l2 is one word, so at most WordBits
  Invalid      \* kInvalid

ASSUME BitmapAssumption ==
  /\ WordBits \in Nat \ {0}
  /\ L1Words \in 1 .. WordBits

L0Words == L1Words * WordBits
NumBits == L0Words * WordBits
Index   == 0 .. NumBits - 1
Word    == SUBSET (0 .. WordBits - 1)

VARIABLES l0, l1, l2
bitmapVars == <<l0, l1, l2>>

BitmapInit ==
  /\ l0 = [w \in 0 .. L0Words - 1 |-> {}]
  /\ l1 = [w \in 0 .. L1Words - 1 |-> {}]
  /\ l2 = {}
-----------------------------------------------------------------------------
\* Word and bit of an index, or of the number of a word, one level up.
WordOf(i) == i \div WordBits
BitOf(i)  == i % WordBits

Join(w, b) == w * WordBits + b

Set(i) ==
  LET w0 == WordOf(i)
      w1 == WordOf(w0)
  IN  /\ l0' = [l0 EXCEPT ![w0] = @ \cup {BitOf(i)}]
      /\ l1' = [l1 EXCEPT ![w1] = @ \cup {BitOf(w0)}]
      /\ l2' = l2 \cup {w1}

\* Mutant of Reset: an l0 word that empties clears its l2 bit too, without a
\* look at the rest of the l1 word.
ResetSummaries(i) ==
  LET w0 == WordOf(i)
      w1 == WordOf(w0)
  IN  /\ l0' = [l0 EXCEPT ![w0] = @ \ {BitOf(i)}]
      /\ l1' = IF l0'[w0] # {} THEN l1
                               ELSE [l1 EXCEPT ![w1] = @ \ {BitOf(w0)}]
      /\ l2' = IF l0'[w0] # {} THEN l2 ELSE l2 \ {w1}

Reset(i) ==
  LET w0 == WordOf(i)
      w1 == WordOf(w0)
  IN  /\ l0' = [l0 EXCEPT ![w0] = @ \ {BitOf(i)}]
      /\ l1' = IF l0'[w0] # {} THEN l1
                               ELSE [l1 EXCEPT ![w1] = @ \ {BitOf(w0)}]
      /\ l2' = IF l0'[w0] # {} \/ l1'[w1] # {} THEN l2 ELSE l2 \ {w1}

Test(i) == BitOf(i) \in l0[WordOf(i)]

IsEmpty == l2 = {}

BitHigh(word) == CHOOSE b \in word : \A c \in word : c <= b
BitLow(word)  == CHOOSE b \in word : \A c \in word : b <= c

HighestIn(w0) == IF l0[w0] = {} THEN Invalid ELSE Join(w0, BitHigh(l0[w0]))
LowestIn(w0)  == IF l0[w0] = {} THEN Invalid ELSE Join(w0, BitLow(l0[w0]))

Clamped(i) == IF i >= NumBits THEN NumBits - 1 ELSE i

\* Highest set bit at or below i, or Invalid.
FindHighestAtOrBelow(i) ==
  LET w0     == WordOf(Clamped(i))
      w1     == WordOf(w0)
      bits   == {b \in l0[w0] : b <= BitOf(Clamped(i))}
      l1bits == {b \in l1[w1] : b < BitOf(w0)}
      l2bits == {b \in l2 : b < w1}
  IN  CASE bits # {}                     -> Join(w0, BitHigh(bits))
        [] bits = {} /\ l1bits # {}      -> HighestIn(Join(w1, BitHigh(l1bits)))
        [] bits = {} /\ l1bits = {} /\ l2bits # {} ->
             LET up == BitHigh(l2bits)
             IN  IF l1[up] = {} THEN Invalid
                                ELSE HighestIn(Join(up, BitHigh(l1[up])))
        [] OTHER                         -> Invalid

\* Lowest set bit at or above i, or Invalid.
FindLowestAtOrAbove(i) ==
  IF i >= NumBits THEN Invalid ELSE
  LET w0     == WordOf(i)
      w1     == WordOf(w0)
      bits   == {b \in l0[w0] : b >= BitOf(i)}
      l1bits == {b \in l1[w1] : b > BitOf(w0)}
      l2bits == {b \in l2 : b > w1}
  IN  CASE bits # {}                     -> Join(w0, BitLow(bits))
        [] bits = {} /\ l1bits # {}      -> LowestIn(Join(w1, BitLow(l1bits)))
        [] bits = {} /\ l1bits = {} /\ l2bits # {} ->
             LET up == BitLow(l2bits)
             IN  IF l1[up] = {} THEN Invalid
                                ELSE LowestIn(Join(up, BitLow(l1[up])))
        [] OTHER                         -> Invalid

BitmapNext == \E i \in Index : Set(i) \/ Reset(i)

BitmapSpec == BitmapInit /\ [][BitmapNext]_bitmapVars
-----------------------------------------------------------------------------
\* The indices that are set.
Members == {i \in Index : Test(i)}

\* What the two searches must return for the set M of indices.
IsPredecessor(r, i, M) ==
  \/ r = Invalid /\ \A m \in M : m > i
  \/ r \in M /\ r <= i /\ \A m \in M : m <= i => m <= r
IsSuccessor(r, i, M) ==
  \/ r = Invalid /\ \A m \in M : m < i
  \/ r \in M /\ r >= i /\ \A m \in M : m >= i => r <= m

\* The searches answer from the summaries what a scan of every bit would: for
\* every argument, those past the last index included, findHighestAtOrBelow
\* finds the nearest set index at or below it and findLowestAtOrAbove the
\* nearest at or above it, and empty() is right.  After any Set and Reset a
\* summary bit is set exactly when the word below it is not empty.
SearchesExact ==
  LET M == Members
  IN  /\ \A w \in 0 .. L1Words - 1 :
           l1[w] = {b \in 0 .. WordBits - 1 : l0[Join(w, b)] # {}}
      /\ l2 = {w \in 0 .. L1Words - 1 : l1[w] # {}}
      /\ \A i \in 0 .. NumBits : /\ IsPredecessor(FindHighestAtOrBelow(i), i, M)
                                /\ IsSuccessor(FindLowestAtOrAbove(i), i, M)
      /\ IsEmpty <=> M = {}
=============================================================================
