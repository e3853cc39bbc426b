------------------------------- MODULE MCFec -------------------------------
EXTENDS Fec

\* x^4 + x + 1, and the shortened (12, 4) code that corrects two errors.
MCPrim == {0, 1, 4}
\* Five groups of three bits, six checks.
MCAddrs == <<<<0, 3>>, <<1, 4, 5>>, <<2, 5>>, <<0, 1>>, <<3, 4>>>>
MCFrames == {{}, {1, 3}, {0, 1, 2}}
============================================================================
