---------------------------- MODULE MCTransport ----------------------------
EXTENDS Transport

MCFrames(c, s) == [e \in Ends |-> IF e = "client" THEN c ELSE s]

\* TCP: two frames one way, or one each way.
MCTraffics == {MCFrames(2, 0), MCFrames(1, 1)}
=============================================================================
