----------------------------- MODULE Transport -----------------------------
(***************************************************************************)
(* The streaming library offers two transports for the same frames; an     *)
(* application opens one of them (streaming/README, "API Usage"), and the  *)
(* other stays as it is.                                                   *)
(***************************************************************************)
EXTENDS TcpStream, UdpLink

VARIABLE transport

transportVars == <<transport, vars, udpVars>>

\* What the other transport would have been used for makes no difference.
TransportInit ==
  /\ Init /\ UdpInit
  /\ \/ transport = "tcp" /\ first = CHOOSE f \in FirstSeqs : TRUE
     \/ transport = "udp" /\ traffic = CHOOSE q \in Traffics : TRUE

TcpStep == transport = "tcp" /\ Next /\ UNCHANGED <<transport, udpVars>>
UdpStep == transport = "udp" /\ UdpNext /\ UNCHANGED <<transport, vars>>

TransportNext == TcpStep \/ UdpStep

\* The kernel ends what a call waits for when it can, as in FairSpec; nothing
\* is assumed of the applications, of the networks, or of signals.
TransportSpec ==
  /\ TransportInit /\ [][TransportNext]_transportVars
  /\ \A e \in Ends : WF_vars(Sending(e)) /\ WF_vars(Receiving(e))
  /\ WF_udpVars(UdpWaiting)

\* The variables have their types; no call holds more than a frame, no
\* connection more than its window and no socket more datagrams than it has room for.
TransportTypeOK == TypeOK /\ UdpTypeOK
============================================================================
