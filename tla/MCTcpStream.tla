---------------------------- MODULE MCTcpStream ----------------------------
EXTENDS TcpStream

MCFrames(c, s) == [e \in Ends |-> IF e = "client" THEN c ELSE s]

\* Two frames one way, or one each way.
MCTraffics == {MCFrames(2, 0), MCFrames(1, 1)}
=============================================================================
