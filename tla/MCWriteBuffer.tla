--------------------------- MODULE MCWriteBuffer ---------------------------
EXTENDS WriteBuffer
=============================================================================
