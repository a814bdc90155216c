---------------------------- MODULE MCTableUse -----------------------------
\* One reference with a slot of its own and three that share four buckets.
\* The three are only hashed and compared, and every hash is tried, so they
\* are interchangeable.
EXTENDS TableUse, TLC

CONSTANTS d1, f1, f2, f3

Interchangeable == Permutations({f1, f2, f3})
=============================================================================
