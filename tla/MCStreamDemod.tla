--------------------------- MODULE MCStreamDemod ---------------------------
EXTENDS StreamDemod

MCDrifts == {0, 1}
=============================================================================
