--------------------------- MODULE MCPlutoRxQueue ---------------------------
EXTENDS PlutoRxQueue
=============================================================================
