------------------------------ MODULE MCBooks ------------------------------
\* Two books over one arena that runs out of pages, and levels that hold two
\* orders.  Stock locates and order references are only compared and used as
\* indices, so the stocks, and the references, are interchangeable.
EXTENDS OrderBook, TLC

CONSTANTS b1, b2, r1, r2, r3

Interchangeable == Permutations({b1, b2}) \cup Permutations({r1, r2, r3})
=============================================================================
