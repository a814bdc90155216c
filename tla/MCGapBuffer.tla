---------------------------- MODULE MCGapBuffer ----------------------------
\* A table of four slots, five sequence numbers (one more than fit), and for
\* one of them a second, conflicting content and an oversized one; every hash
\* function.  Sequence numbers are only hashed and compared, so the four that
\* have one content are interchangeable.
EXTENDS GapBuffer, TLC

CONSTANTS n1, n2, n3, n4, n5

MCPackets == {[seq |-> s, content |-> "a"] : s \in {n1, n2, n3, n4, n5}}
               \cup {[seq |-> n1, content |-> c] : c \in {"b", Oversize}}

Interchangeable == Permutations({n2, n3, n4, n5})
=============================================================================
