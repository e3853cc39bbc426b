------------------------------- MODULE TsLink -------------------------------
(***************************************************************************)
(* A transport stream from file to file: the loop of openvlsnr-pluto-tx    *)
(* (tools/openvlsnr-pluto-tx.c) over dvbs2x_ts_tx_push, the radio link as  *)
(* FEC leaves it, and the frame handling of openvlsnr-pluto-rx             *)
(* (tools/openvlsnr-pluto-rx.c) over dvbs2x_ts_rx_push.  Both programs run *)
(* with one MODCOD, and the sender without -r.                             *)
(***************************************************************************)
EXTENDS TsAdaptation

CONSTANTS
  NumPackets,  \* packets in the sender's file; those after them are null
  FileLengths, \* the file may also end after fewer packets
  Fates        \* what the link may do to a frame

ASSUME LinkAssumption == /\ NumPackets \in Nat
                         /\ FileLengths \subseteq 1 .. NumPackets
                         /\ Fates \subseteq {"lost", "header", "garbled"}

VARIABLES
  \* the sender: its place, the file's length, packets pushed, the state of
  \* the mode adapter, what its bbframe buffer holds and what frame_len says
  sender, length, pushed, tx, bbframe, frame_len,
  \* the link: the frame on its way
  air,
  \* the receiver: mode adapter, packets written, whether it has finished
  rx, written, receiver,
  \* history, read by no guard: what became of each frame sent, packets
  \* written without a CRC, whether a frame was sent a second time
  fates, unchecked, repeated

txVars == <<sender, length, pushed, tx, bbframe, frame_len>>
rxVars == <<rx, written, receiver, unchecked>>
vars == <<txVars, air, rxVars, fates, repeated>>

Init ==
  /\ sender = "read" /\ length \in FileLengths /\ pushed = 0
  /\ tx = TxInit /\ bbframe = NoFrame /\ frame_len = 0
  /\ air = <<>>
  /\ rx = RxInit /\ written = <<>> /\ receiver = "running"
  /\ fates = <<>> /\ unchecked = <<>> /\ repeated = FALSE
-----------------------------------------------------------------------------
(* The sender                                                              *)

\* The next packet, a null packet after the file's end, goes into the adapter.
Push == LET out == TxPush(tx, pushed)
        IN /\ tx' = out.tx
           /\ pushed' = pushed + 1
           /\ frame_len' = Len(out.frame.field)
           /\ bbframe' = IF out.frame = NoFrame THEN bbframe ELSE out.frame

\* A packet that fills no frame: continue.
ReadPacket ==
  /\ sender = "read" /\ pushed < length
  /\ Push
  /\ sender' = IF frame_len' = 0 THEN "read" ELSE "send"
  /\ UNCHANGED <<length, air, rxVars, fates, repeated>>

\* send_frame, here and for the tail: the radio takes the frame in bbframe.
Transmit == /\ air = <<>>
            /\ air' = <<bbframe>>

Send ==
  /\ sender = "send"
  /\ Transmit
  /\ sender' = "read"
  /\ UNCHANGED <<length, pushed, tx, bbframe, frame_len, rxVars, fates, repeated>>

EndOfFile ==
  /\ sender = "read" /\ pushed = length
  /\ sender' = IF tx.data = <<>> THEN "flush" ELSE "tail"
  /\ UNCHANGED <<length, pushed, tx, bbframe, frame_len, air, rxVars, fates,
                 repeated>>

\* while (!frame_len): null packets until the frame is full.
PadTail ==
  /\ sender = "tail" /\ frame_len = 0
  /\ Push
  /\ UNCHANGED <<sender, length, air, rxVars, fates, repeated>>

\* frame_len may also be what the last packet of the file left there: the
\* frame in bbframe is then one the radio has had.
SendTail ==
  /\ sender = "tail" /\ frame_len # 0
  /\ Transmit
  /\ repeated' = (pushed = length)
  /\ sender' = "flush"
  /\ UNCHANGED <<length, pushed, tx, bbframe, frame_len, rxVars, fates>>

\* pluto_tx_flush, and the report of what was sent
Flush ==
  /\ sender = "flush" /\ air = <<>>
  /\ sender' = "done"
  /\ UNCHANGED <<length, pushed, tx, bbframe, frame_len, air, rxVars, fates,
                 repeated>>

Sender == ReadPacket \/ Send \/ EndOfFile \/ PadTail \/ SendTail \/ Flush
-----------------------------------------------------------------------------
(* The link and the receiver                                               *)

Fated(fate) == /\ air # <<>> /\ receiver = "running"
               /\ air' = <<>>
               /\ fates' = Append(fates, fate)
               /\ UNCHANGED <<txVars, repeated, receiver, unchecked>>

\* Faulty variant of Handle: an error leaves the reassembly as it is.
HandleKeeps(frame) ==
  LET out == RxPush(rx, frame)
  IN /\ rx' = out.rx
     /\ written' = written \o out.packets

\* process_bbframe, and the reset of the reassembly when it fails.
Handle(frame) ==
  LET out == RxPush(rx, frame)
  IN /\ rx' = IF out.ret = "OK" THEN out.rx ELSE RxInit
     /\ written' = written \o out.packets

Receive ==
  /\ Fated("ok")
  /\ Handle(air[1])

\* A unit of the data field is wrong and BCH did not notice.
ReceiveGarbled ==
  /\ "garbled" \in Fates
  /\ Fated("garbled")
  /\ \E u \in 1 .. FieldLen :
       Handle([air[1] EXCEPT !.field = [@ EXCEPT ![u] = Garbled]])

\* The header's CRC-8 fails: bb_header_read returns an error.
ReceiveBadHeader ==
  /\ "header" \in Fates
  /\ Fated("header")
  /\ rx' = RxInit
  /\ UNCHANGED written

\* No header found, or FEC failed: the receiver counts it and goes on.
Lose ==
  /\ "lost" \in Fates
  /\ Fated("lost")
  /\ UNCHANGED <<rx, written>>

\* The receiver is stopped; ts_rx_finalize_unchecked returns the held packet.
Finalize ==
  /\ receiver = "running" /\ sender = "done" /\ air = <<>>
  /\ receiver' = "done"
  /\ unchecked' = rx.previous
  /\ rx' = RxInit
  /\ UNCHANGED <<txVars, air, written, fates, repeated>>

Next == \/ Sender \/ Receive \/ ReceiveGarbled \/ ReceiveBadHeader \/ Lose
        \/ Finalize

Spec == Init /\ [][Next]_vars
-----------------------------------------------------------------------------
(* Properties                                                              *)

\* Packet k, as far as the receiver writes it: the sync byte is put back.
Matches(packet, k) == \A j \in 2 .. PacketLen : packet[j] = k * PacketLen + j - 1

\* Every packet written under a CRC is one the sender pushed, whole, and they
\* come in order and once each: a packet pieced together across a lost frame,
\* or received with errors, is never written.
WrittenGenuine ==
  /\ \A i \in 1 .. Len(written) :
       \E k \in 0 .. pushed - 1 : Matches(written[i], k)
  /\ \A i, j \in 1 .. Len(written) :
       i < j => written[i][PacketLen] < written[j][PacketLen]

Delivered(k) == \E i \in 1 .. Len(written \o unchecked) :
                  Matches((written \o unchecked)[i], k)

\* Frames (from 1) that carry the units from packet k's first to the last of
\* the packet after it, which completes before k is written.
FramesOf(k) ==
  ((k * PacketLen) \div FieldLen) + 1 .. (((k + 2) * PacketLen - 1) \div FieldLen) + 1

\* How many frames after a damaged one still pay for it.  The first costs a
\* mismatch of SYNCD or of a CRC.  In the two MODCODs with the shortest data
\* fields a frame may complete only one packet, the spliced one: its CRC is
\* then compared in the frame after that.
Reach == IF FieldLen + 1 < 2 * PacketLen THEN 2 ELSE 1

\* Damage is local: a packet that was not written although all its frames were
\* handled lost one of them, or they come within Reach of a damaged frame.
LossIsLocal ==
  ~repeated =>
    \A k \in 0 .. pushed - 1 :
      (\A f \in FramesOf(k) : f <= Len(fates)) /\ ~Delivered(k) =>
        \E f \in FramesOf(k) : \E g \in f - Reach .. f :
          g > 0 /\ fates[g] # "ok"

\* A link without losses loses nothing: when both programs have ended, every
\* packet of the file has been written, the last one unchecked if no null
\* packet completes after it.
Lossless ==
  receiver = "done" /\ ~repeated /\ (\A f \in 1 .. Len(fates) : fates[f] = "ok")
    => \A k \in 0 .. length - 1 : Delivered(k)

FramesSent == Len(fates) - (IF repeated THEN 1 ELSE 0)

\* "sent %llu TS packets in %llu PL frames": when openvlsnr-pluto-tx says so,
\* every unit of the file's packets has been in a frame.
ReportedSent == sender = "done" => FramesSent * FieldLen >= length * PacketLen
=============================================================================
