------------------------------ MODULE UdpLink ------------------------------
(***************************************************************************)
(* streaming/src/udp.c and the sequence numbers of dvbs2x_protocol.h: a    *)
(* sender numbers its frames and sends each in a datagram; the network     *)
(* loses, doubles and reorders them; the receiver waits for them, with or  *)
(* without a timeout, and takes a frame if its number is after the last,   *)
(* as streaming/README:161 does.                                           *)
(*                                                                         *)
(* Frame k is its place in the order of sending; its number on the wire    *)
(* wraps at SeqModulus.                                                    *)
(***************************************************************************)
EXTENDS Integers, Sequences

CONSTANTS
  SeqModulus,  \* 2^32
  NumFrames,   \* bound: frames the sender makes
  FirstSeqs,   \* the number it may give the first
  Overtaken,   \* bound: by how many newer frames one may be overtaken
  InboxSize    \* datagrams the receiver's socket holds

ASSUME UdpAssumption ==
  /\ SeqModulus \in Nat \ {0} /\ SeqModulus % 2 = 0
  /\ Overtaken \in Nat /\ 2 * Overtaken <= SeqModulus
  /\ NumFrames \in Nat
  /\ FirstSeqs \subseteq 0 .. SeqModulus - 1
  /\ InboxSize \in Nat \ {0}

UdpFrames == 0 .. NumFrames - 1
Half == SeqModulus \div 2

VARIABLES
  first,       \* the number of frame 0
  made,        \* frames the sender has encoded
  peer_set,
  net,         \* the datagrams on their way
  inbox,       \* and those in the receiver's socket
  receiver,    \* "none", "idle", "select", "recvfrom", "closed"
  interrupted, \* a signal ended the select of the running call
  last_seq,    \* of the receiving application
  \* history, read by no guard: the last frame taken, and what the running or
  \* last call made of the frame it received
  newest, verdict

udpVars == <<first, made, peer_set, net, inbox, receiver, interrupted,
             last_seq, newest, verdict>>

----------------------------------------------------------------------------
(* dvbs2x_protocol.h *)

\* Faulty: the numbers are compared as they are.
seq_comparePlain(a, b) == a - b

\* Faulty: the difference is not read as a signed integer.
seq_compareUnsigned(a, b) == (a - b) % SeqModulus

\* The difference as a signed integer of the same width.
seq_compare(a, b) ==
  LET d == (a - b) % SeqModulus IN IF d < Half THEN d ELSE d - SeqModulus

seq_after(a, b) == seq_compare(a, b) > 0

sequence(k) == (first + k) % SeqModulus

\* The frame that would have the number 0, with which the receiver begins.
Start == IF first < Half THEN -first ELSE SeqModulus - first

----------------------------------------------------------------------------
(* The sender *)

UdpInit ==
  /\ first \in FirstSeqs /\ made = 0 /\ peer_set = FALSE
  /\ net = {} /\ inbox = <<>>
  /\ receiver = "none" /\ interrupted = FALSE
  /\ last_seq = 0 /\ newest = Start /\ verdict = "none"

SetPeer ==
  /\ ~peer_set /\ peer_set' = TRUE
  /\ UNCHANGED <<first, made, net, inbox, receiver, interrupted, last_seq, newest, verdict>>

\* The frame is numbered when it is encoded, whatever becomes of it then.
UdpSendOk ==
  /\ made < NumFrames /\ peer_set
  /\ net' = net \cup {made} /\ made' = made + 1
  /\ UNCHANGED <<first, peer_set, inbox, receiver, interrupted, last_seq, newest, verdict>>

\* -EDESTADDRREQ, -EMSGSIZE or another error of sendto.
UdpSendFails ==
  /\ made < NumFrames
  /\ made' = made + 1
  /\ UNCHANGED <<first, peer_set, net, inbox, receiver, interrupted, last_seq, newest, verdict>>

----------------------------------------------------------------------------
(* The network *)

Lose ==
  /\ \E k \in net : net' = net \ {k}
  /\ UNCHANGED <<first, made, peer_set, inbox, receiver, interrupted, last_seq, newest, verdict>>

\* A datagram that leaves a copy behind arrives again.
Arrive ==
  /\ receiver \notin {"none", "closed"} /\ Len(inbox) < InboxSize
  /\ \E k \in net : /\ made - 1 - k <= Overtaken
                    /\ inbox' = Append(inbox, k)
                    /\ net' \in {net, net \ {k}}
  /\ UNCHANGED <<first, made, peer_set, receiver, interrupted, last_seq, newest, verdict>>

----------------------------------------------------------------------------
(* The receiver *)

Bind ==
  /\ receiver = "none" /\ receiver' = "idle"
  /\ UNCHANGED <<first, made, peer_set, net, inbox, interrupted, last_seq, newest, verdict>>

\* With a timeout the call selects first.
UdpBeginRecv(timed) ==
  /\ receiver = "idle"
  /\ receiver' = IF timed THEN "select" ELSE "recvfrom"
  /\ interrupted' = FALSE /\ verdict' = "none"
  /\ UNCHANGED <<first, made, peer_set, net, inbox, last_seq, newest>>

SelectReady ==
  /\ receiver = "select" /\ inbox # <<>>
  /\ receiver' = "recvfrom"
  /\ UNCHANGED <<first, made, peer_set, net, inbox, interrupted, last_seq, newest, verdict>>

\* Faulty: only an error of select ends the call.
SelectTimesOutGoesOn ==
  /\ receiver = "select" /\ inbox = <<>>
  /\ receiver' = "recvfrom"
  /\ UNCHANGED <<first, made, peer_set, net, inbox, interrupted, last_seq, newest, verdict>>

\* -ETIMEDOUT
SelectTimesOut ==
  /\ receiver = "select" /\ inbox = <<>>
  /\ receiver' = "idle"
  /\ UNCHANGED <<first, made, peer_set, net, inbox, interrupted, last_seq, newest, verdict>>

\* A signal: the call goes on to recvfrom, which has no timeout.
SelectInterrupted ==
  /\ receiver = "select"
  /\ receiver' = "recvfrom" /\ interrupted' = TRUE
  /\ UNCHANGED <<first, made, peer_set, net, inbox, last_seq, newest, verdict>>

\* The datagram fits the buffer, decodes, and its number is looked at.
RecvWhole ==
  /\ receiver = "recvfrom" /\ inbox # <<>>
  /\ receiver' = "idle" /\ inbox' = Tail(inbox)
  /\ LET k == Head(inbox)
     IN IF seq_after(sequence(k), last_seq)
        THEN last_seq' = sequence(k) /\ newest' = k /\ verdict' = "taken"
        ELSE verdict' = "old" /\ UNCHANGED <<last_seq, newest>>
  /\ UNCHANGED <<first, made, peer_set, net, interrupted>>

\* It is cut off at the end of the buffer, and the decoder refuses the rest.
RecvTruncated ==
  /\ receiver = "recvfrom" /\ inbox # <<>>
  /\ receiver' = "idle" /\ inbox' = Tail(inbox)
  /\ UNCHANGED <<first, made, peer_set, net, interrupted, last_seq, newest, verdict>>

UdpClose ==
  /\ receiver = "idle" /\ receiver' = "closed" /\ inbox' = <<>>
  /\ UNCHANGED <<first, made, peer_set, net, interrupted, last_seq, newest, verdict>>

\* What the kernel does for a call that waits.
UdpWaiting == SelectReady \/ SelectTimesOut \/ RecvWhole \/ RecvTruncated

UdpNext ==
  \/ SetPeer \/ UdpSendOk \/ UdpSendFails \/ Lose \/ Arrive
  \/ Bind \/ (\E timed \in BOOLEAN : UdpBeginRecv(timed)) \/ UdpWaiting
  \/ SelectInterrupted \/ UdpClose

UdpSpec == UdpInit /\ [][UdpNext]_udpVars

----------------------------------------------------------------------------
(* Properties *)

\* The variables have their types.
UdpTypeOK ==
  /\ first \in FirstSeqs /\ made \in 0 .. NumFrames /\ peer_set \in BOOLEAN
  /\ net \subseteq UdpFrames
  /\ inbox \in Seq(UdpFrames) /\ Len(inbox) <= InboxSize
  /\ receiver \in {"none", "idle", "select", "recvfrom", "closed"}
  /\ interrupted \in BOOLEAN
  /\ last_seq \in 0 .. SeqModulus - 1
  /\ newest \in Int /\ verdict \in {"none", "taken", "old"}

\* However the network loses, doubles and reorders datagrams, and across the wrap
\* of the numbers: no frame is taken twice or after a newer one, as long as none
\* is overtaken by more than half the numbers there are (dvbs2x_protocol.h:112).
FramesForward == [][RecvWhole /\ verdict' = "taken" => newest' > newest]_udpVars

\* And none is refused as old that is newer than all before it, unless so many were
\* lost in between that half the numbers have passed; the receiver of the
\* README begins as if it had taken a frame with the number 0.
NewerTaken ==
  [][RecvWhole /\ verdict' = "old" =>
       Head(inbox) <= newest \/ Head(inbox) - newest >= Half]_udpVars

\* A receive with a timeout returns, also when nothing ever comes, unless a signal
\* interrupted its select (udp.c:144, where -EINTR goes on to recvfrom).
TimedRecvEnds ==
  (receiver = "select") ~> (receiver \in {"idle", "closed"} \/ interrupted)
=============================================================================
