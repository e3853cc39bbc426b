----------------------------- MODULE TcpStream -----------------------------
(***************************************************************************)
(* streaming/src/tcp.c and streaming/src/protocol.c: one TCP connection,   *)
(* from the listening socket to the close of both ends, carrying frames of *)
(* one size in both directions.  A call that waits (dvbs2x_tcp_send,       *)
(* dvbs2x_tcp_recv) is a step for its beginning, one for each send or recv *)
(* of the kernel, and one for the way it returns.  The applications are    *)
(* those of streaming/README: any legal order of calls.                    *)
(*                                                                         *)
(* Frame k of an end consists of the units k * FrameLen ..                 *)
(* (k + 1) * FrameLen - 1; the first stands for the magic.  The CRC is     *)
(* ideal.  Calls that fail and leave everything as it was are stuttering:  *)
(* a refused connect, an accept that times out, a send or recv that is     *)
(* interrupted and repeated.                                               *)
(***************************************************************************)
EXTENDS Naturals, Sequences

CONSTANTS
  FrameLen,     \* units of a frame
  Traffics,     \* bounds: how many frames each end sends
  Window        \* units a connection holds between send and recv

ASSUME TcpAssumption ==
  /\ FrameLen \in Nat \ {0}
  /\ Traffics \subseteq [{"client", "server"} -> Nat]
  /\ Window \in Nat \ {0}

Ends == {"client", "server"}
Peer(e) == CHOOSE p \in Ends : p # e
Smaller(a, b) == IF a < b THEN a ELSE b

\* What dvbs2x_tcp_recv last returned: a count, or one of these.
Again == FrameLen + 1      \* -EAGAIN: the kernel's timeout
Broken == FrameLen + 2     \* any other errno
None == FrameLen + 3       \* not yet returned

VARIABLES
  traffic,    \* how many frames each end will send
  listener,   \* the server's listening socket
  at,         \* what each end is doing
  timeo,      \* SO_SNDTIMEO and SO_RCVTIMEO of each socket: set or not
  part,       \* units left to send, or received so far, in the running call
  seq,        \* number of each end's next frame
  ret,        \* what each end's recv returned
  stream,     \* the units on their way to each end
  reset,      \* the connection broke, and whether the end has been told
  \* history, read by no guard: the frames the decoder accepted, whether it
  \* refused one, whether a call failed
  accepted, refused, failed

history == <<accepted, refused, failed>>
vars == <<traffic, listener, at, timeo, part, seq, ret, stream, reset, history>>

Frame(k) == [j \in 1 .. FrameLen |-> k * FrameLen + j - 1]

Init ==
  /\ traffic \in Traffics
  /\ listener = "none"
  /\ at = [e \in Ends |-> "none"]
  /\ timeo = [e \in Ends |-> [send |-> FALSE, recv |-> FALSE]]
  /\ part = [e \in Ends |-> <<>>]
  /\ seq = [e \in Ends |-> 0]
  /\ ret = [e \in Ends |-> None]
  /\ stream = [e \in Ends |-> <<>>]
  /\ reset = [e \in Ends |-> "no"]
  /\ accepted = [e \in Ends |-> <<>>]
  /\ refused = [e \in Ends |-> FALSE]
  /\ failed = FALSE
-----------------------------------------------------------------------------
(* The connection                                                          *)

\* socket, bind, listen: from now on the kernel takes connections.
ServerInit ==
  /\ listener = "none" /\ listener' = "open"
  /\ UNCHANGED <<traffic, at, timeo, part, seq, ret, stream, reset, history>>

\* The connection stands before the server accepts it.  The timeout of the
\* connect stays on the socket, for send and for recv.
Connect(timed) ==
  /\ at["client"] = "none" /\ listener = "open"
  /\ at' = [at EXCEPT !["client"] = "idle"]
  /\ timeo' = [timeo EXCEPT !["client"] = [send |-> timed, recv |-> timed]]
  /\ UNCHANGED <<traffic, listener, part, seq, ret, stream, reset, history>>

\* The client may have sent and closed already.
Accept ==
  /\ at["server"] = "none" /\ at["client"] # "none" /\ listener = "open"
  /\ at' = [at EXCEPT !["server"] = "idle"]
  /\ UNCHANGED <<traffic, listener, timeo, part, seq, ret, stream, reset, history>>

Breaks == reset' = [e \in Ends |-> IF reset[e] = "no" THEN "pending" ELSE reset[e]]

\* dvbs2x_tcp_close of the listening socket; a connection nobody accepted
\* is reset.
CloseListener ==
  /\ listener = "open" /\ listener' = "closed"
  /\ IF at["client"] # "none" /\ at["server"] = "none"
     THEN Breaks ELSE UNCHANGED reset
  /\ UNCHANGED <<traffic, at, timeo, part, seq, ret, stream, history>>

\* The network resets the connection; some of what was on its way is lost.
Break ==
  /\ at["client"] # "none" /\ \A e \in Ends : reset[e] = "no"
  /\ Breaks
  /\ \E kept \in [Ends -> 0 .. Window] :
       stream' = [e \in Ends |-> SubSeq(stream[e], 1, Smaller(kept[e], Len(stream[e])))]
  /\ UNCHANGED <<traffic, listener, at, timeo, part, seq, ret, history>>

\* dvbs2x_tcp_close of an end: shutdown and close.
Close(e) ==
  /\ at[e] = "idle"
  /\ at' = [at EXCEPT ![e] = "closed"]
  /\ stream' = [stream EXCEPT ![e] = <<>>]
  /\ UNCHANGED <<traffic, listener, timeo, part, seq, ret, reset, history>>
-----------------------------------------------------------------------------
(* dvbs2x_tcp_send                                                         *)

\* The application encodes its next frame and sends it.
BeginSend(e) ==
  /\ at[e] = "idle" /\ seq[e] < traffic[e]
  /\ at' = [at EXCEPT ![e] = "send"]
  /\ part' = [part EXCEPT ![e] = Frame(seq[e])]
  /\ UNCHANGED <<traffic, listener, timeo, seq, ret, stream, reset, history>>

\* send takes n units; those for a peer that has closed go nowhere.
Takes(e, n) ==
  IF at[Peer(e)] = "closed"
  THEN UNCHANGED stream
  ELSE /\ Len(stream[Peer(e)]) + n <= Window
       /\ stream' = [stream EXCEPT ![Peer(e)] = @ \o SubSeq(part[e], 1, n)]

SendPart(e) ==
  /\ at[e] = "send" /\ reset[e] = "no"
  /\ \E n \in 1 .. Len(part[e]) :
       /\ Takes(e, n)
       /\ part' = [part EXCEPT ![e] = SubSeq(@, n + 1, Len(@))]
       /\ IF n = Len(part[e])
          THEN /\ at' = [at EXCEPT ![e] = "idle"]
               /\ seq' = [seq EXCEPT ![e] = @ + 1]
          ELSE UNCHANGED <<at, seq>>
  /\ UNCHANGED <<traffic, listener, timeo, ret, reset, history>>

\* An error; what was sent of the frame remains sent.  The application tries
\* the frame again or goes on with the next.
SendFails(e) ==
  /\ at' = [at EXCEPT ![e] = "idle"]
  /\ part' = [part EXCEPT ![e] = <<>>]
  /\ seq' \in {seq, [seq EXCEPT ![e] = @ + 1]}
  /\ failed' = TRUE
  /\ UNCHANGED <<traffic, listener, timeo, ret, stream, accepted, refused>>

SendTimesOut(e) ==
  /\ at[e] = "send" /\ timeo[e].send
  /\ reset[e] = "no" /\ at[Peer(e)] # "closed" /\ Len(stream[Peer(e)]) = Window
  /\ SendFails(e)
  /\ UNCHANGED reset

SendBroken(e) ==
  /\ at[e] = "send"
  /\ reset[e] # "no" \/ at[Peer(e)] = "closed"
  /\ SendFails(e)
  /\ reset' = [reset EXCEPT ![e] = IF @ = "pending" THEN "told" ELSE @]

Sending(e) == SendPart(e) \/ SendTimesOut(e) \/ SendBroken(e)
-----------------------------------------------------------------------------
(* dvbs2x_tcp_recv and dvbs2x_frame_decode                                 *)

InRecv(e) == at[e] \in {"recv", "timed recv"}

\* A timeout is set on the socket and takes the one of send away; without one
\* the socket is left as it is.
BeginRecv(e, timed) ==
  /\ at[e] = "idle"
  /\ at' = [at EXCEPT ![e] = IF timed THEN "timed recv" ELSE "recv"]
  /\ timeo' = [timeo EXCEPT ![e] = IF timed THEN [send |-> FALSE, recv |-> TRUE] ELSE @]
  /\ ret' = [ret EXCEPT ![e] = None]
  /\ UNCHANGED <<traffic, listener, part, seq, stream, reset, history>>

Magic(buf) == buf # <<>> /\ buf[1] % FrameLen = 0

\* Length, magic and CRC.
Decodes(buf) ==
  /\ Len(buf) = FrameLen /\ Magic(buf)
  /\ \A j \in 1 .. FrameLen : buf[j] = buf[1] + j - 1

\* The call returns a count; the application decodes what it got.
Return(e, buf) ==
  /\ at' = [at EXCEPT ![e] = "idle"]
  /\ part' = [part EXCEPT ![e] = <<>>]
  /\ ret' = [ret EXCEPT ![e] = Len(buf)]
  /\ accepted' = IF Decodes(buf) THEN [accepted EXCEPT ![e] = Append(@, buf)] ELSE accepted
  /\ refused' = [refused EXCEPT ![e] = @ \/ (buf # <<>> /\ ~Decodes(buf))]

\* Faulty variant of RecvPart: each recv asks for the whole frame.
RecvPartWhole(e) ==
  /\ InRecv(e)
  /\ \E n \in 1 .. Smaller(FrameLen, Len(stream[e])) :
       LET buf == part[e] \o SubSeq(stream[e], 1, n)
       IN /\ stream' = [stream EXCEPT ![e] = SubSeq(@, n + 1, Len(@))]
          /\ IF Len(buf) = FrameLen
             THEN Return(e, buf)
             ELSE /\ part' = [part EXCEPT ![e] = buf]
                  /\ UNCHANGED <<at, ret, accepted, refused>>
  /\ UNCHANGED <<traffic, listener, timeo, seq, reset, failed>>

\* Faulty variant of RecvPart: the call returns what the first recv gave.
RecvPartOnce(e) ==
  /\ InRecv(e)
  /\ \E n \in 1 .. Smaller(FrameLen, Len(stream[e])) :
       /\ Return(e, SubSeq(stream[e], 1, n))
       /\ stream' = [stream EXCEPT ![e] = SubSeq(@, n + 1, Len(@))]
  /\ UNCHANGED <<traffic, listener, timeo, seq, reset, failed>>

RecvPart(e) ==
  /\ InRecv(e)
  /\ \E n \in 1 .. Smaller(FrameLen - Len(part[e]), Len(stream[e])) :
       LET buf == part[e] \o SubSeq(stream[e], 1, n)
       IN /\ stream' = [stream EXCEPT ![e] = SubSeq(@, n + 1, Len(@))]
          /\ IF Len(buf) = FrameLen
             THEN Return(e, buf)
             ELSE /\ part' = [part EXCEPT ![e] = buf]
                  /\ UNCHANGED <<at, ret, accepted, refused>>
  /\ UNCHANGED <<traffic, listener, timeo, seq, reset, failed>>

\* Faulty variant of RecvClosed: the end of the stream is not looked for, and
\* the call reads on.
RecvClosedGoesOn(e) ==
  /\ InRecv(e) /\ stream[e] = <<>>
  /\ reset[e] = "told" \/ (reset[e] = "no" /\ at[Peer(e)] = "closed")
  /\ UNCHANGED vars

\* The end of the stream: what has been received so far, none included, is
\* returned as a count.
RecvClosed(e) ==
  /\ InRecv(e) /\ stream[e] = <<>>
  /\ reset[e] = "told" \/ (reset[e] = "no" /\ at[Peer(e)] = "closed")
  /\ Return(e, part[e])
  /\ UNCHANGED <<traffic, listener, timeo, seq, stream, reset, failed>>

\* An error; the part received is lost to the caller.
RecvFails(e, error) ==
  /\ at' = [at EXCEPT ![e] = "idle"]
  /\ part' = [part EXCEPT ![e] = <<>>]
  /\ ret' = [ret EXCEPT ![e] = error]
  /\ failed' = TRUE
  /\ UNCHANGED <<traffic, listener, timeo, seq, stream, accepted, refused>>

Quiet(e) == stream[e] = <<>> /\ reset[e] = "no" /\ at[Peer(e)] # "closed"

\* Faulty variant of RecvTimesOut: an answer in time is not told from none.
RecvTimesOutAsEnd(e) ==
  /\ InRecv(e) /\ timeo[e].recv /\ Quiet(e)
  /\ Return(e, part[e])
  /\ UNCHANGED <<traffic, listener, timeo, seq, stream, reset, failed>>

RecvTimesOut(e) ==
  /\ InRecv(e) /\ timeo[e].recv /\ Quiet(e)
  /\ RecvFails(e, Again)
  /\ UNCHANGED reset

RecvBroken(e) ==
  /\ InRecv(e) /\ stream[e] = <<>> /\ reset[e] = "pending"
  /\ RecvFails(e, Broken)
  /\ reset' = [reset EXCEPT ![e] = "told"]

Receiving(e) == RecvPart(e) \/ RecvClosed(e) \/ RecvTimesOut(e) \/ RecvBroken(e)
-----------------------------------------------------------------------------
Next ==
  \/ ServerInit \/ Accept \/ CloseListener \/ Break
  \/ \E timed \in BOOLEAN : Connect(timed)
  \/ \E e \in Ends : \/ BeginSend(e) \/ Sending(e)
                     \/ \E timed \in BOOLEAN : BeginRecv(e, timed)
                     \/ Receiving(e) \/ Close(e)

Spec == Init /\ [][Next]_vars

\* The kernel ends what a call waits for when it can; nothing is assumed of
\* the applications, or of the network's bringing units or taking them.
FairSpec == Spec /\ \A e \in Ends : WF_vars(Sending(e)) /\ WF_vars(Receiving(e))
-----------------------------------------------------------------------------
(* Properties                                                              *)

\* The variables have their types; no call holds more than a frame and the
\* connection no more than its window (streaming/src/tcp.c:198 and 246).
TypeOK ==
  /\ traffic \in Traffics
  /\ listener \in {"none", "open", "closed"}
  /\ at \in [Ends -> {"none", "idle", "send", "recv", "timed recv", "closed"}]
  /\ timeo \in [Ends -> [send : BOOLEAN, recv : BOOLEAN]]
  /\ \A e \in Ends : /\ part[e] \in Seq(Nat) /\ Len(part[e]) <= FrameLen
                     /\ stream[e] \in Seq(Nat) /\ Len(stream[e]) <= Window
                     /\ accepted[e] \in Seq(Seq(Nat))
                     /\ seq[e] \in 0 .. traffic[e]
  /\ ret \in [Ends -> 0 .. None]
  /\ reset \in [Ends -> {"no", "pending", "told"}]
  /\ refused \in [Ends -> BOOLEAN] /\ failed \in BOOLEAN

\* However the kernel cuts the units, and whatever calls time out in the
\* middle of a frame: what the decoder accepts are frames the peer sent, in
\* order and once each; and until a call fails it accepts every one.
StreamIntact ==
  \A e \in Ends :
    /\ \A i \in 1 .. Len(accepted[e]) :
         /\ \E k \in 0 .. seq[Peer(e)] : accepted[e][i] = Frame(k)
         /\ i > 1 => accepted[e][i - 1][1] < accepted[e][i][1]
    /\ ~failed => /\ ~refused[e]
                  /\ \A i \in 1 .. Len(accepted[e]) : accepted[e][i] = Frame(i - 1)

\* Unless a call failed, dvbs2x_tcp_recv returns 0 only when the peer has
\* closed and every frame it ever sent has been received: the end of the stream is
\* not confused with a timeout or with a break.
ZeroMeansClosed ==
  \A e \in Ends :
    ret[e] = 0 /\ ~failed => /\ at[Peer(e)] = "closed"
                             /\ Len(accepted[e]) = seq[Peer(e)]

\* A call on a socket with a timeout returns, and so does a call that waits for
\* a peer that has closed: neither end is left waiting for one that is gone.
CallsEnd ==
  \A e \in Ends :
    /\ (InRecv(e) /\ (timeo[e].recv \/ at[Peer(e)] = "closed")) ~> ~InRecv(e)
    /\ (at[e] = "send" /\ (timeo[e].send \/ at[Peer(e)] = "closed")) ~> (at[e] # "send")

\* streaming/include/dvbs2x_tcp.h:105: "Receive timeout in milliseconds (0 =
\* block forever)".  A call without a timeout does not time out.
ZeroBlocksForever ==
  [][\A e \in Ends : at[e] = "recv" => ret'[e] # Again]_vars
=============================================================================
