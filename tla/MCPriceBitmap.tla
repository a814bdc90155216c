--------------------------- MODULE MCPriceBitmap ---------------------------
\* Two l1 words of three bits: every one of the 2^18 sets of indices.
EXTENDS PriceBitmap
=============================================================================
