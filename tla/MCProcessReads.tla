--------------------------- MODULE MCProcessReads ---------------------------
EXTENDS ProcessReads
=============================================================================
