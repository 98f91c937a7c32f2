--------------------------- MODULE MCErasureReads ---------------------------
EXTENDS MCErasureStore, ErasureReads
=============================================================================
