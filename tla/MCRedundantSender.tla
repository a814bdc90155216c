------------------------- MODULE MCRedundantSender -------------------------
EXTENDS RedundantSender
=============================================================================
