----------------------------- MODULE MCRingBuf -----------------------------
EXTENDS RingBuf
=============================================================================
