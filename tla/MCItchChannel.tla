--------------------------- MODULE MCItchChannel ---------------------------
EXTENDS ItchChannel
=============================================================================
