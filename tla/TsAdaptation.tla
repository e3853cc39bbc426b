---------------------------- MODULE TsAdaptation ----------------------------
(***************************************************************************)
(* MPEG-TS mode adaptation, src/bb_frame.c: dvbs2x_ts_tx_push, which packs *)
(* packets into data fields, and dvbs2x_ts_rx_push, which takes them out.  *)
(*                                                                         *)
(* Time is cut into units.  Packet k (from 0) is the units                 *)
(* k * PacketLen .. (k+1) * PacketLen - 1; the first carries the CRC-8 of  *)
(* packet k - 1 in place of the sync byte.  The CRC is ideal: it vouches   *)
(* for a packet only if it was computed over exactly that packet.          *)
(***************************************************************************)
EXTENDS Integers, Sequences, SequencesExt

CONSTANTS
  PacketLen,   \* DVBS2X_TS_PACKET_BITS
  FieldLen,    \* dfl: bits of a data field
  Capacity     \* packet_capacity the receiving application passes

\* A data field holds more than one packet and no whole number of them, as
\* those of all nine MODCODs do; and RX_PACKET_CAPACITY is more than enough
\* for the packets of one.
ASSUME AdaptationAssumption ==
  /\ PacketLen \in Nat /\ FieldLen \in Nat /\ Capacity \in Nat
  /\ 2 < PacketLen /\ PacketLen < FieldLen /\ FieldLen % PacketLen # 0
  /\ FieldLen <= (Capacity - 1) * PacketLen

Garbled == -1   \* A unit received with errors

Packet(k) == [j \in 1 .. PacketLen |-> k * PacketLen + j - 1]

NoFrame == [syncd |-> 0, field |-> <<>>]

TxInit == [data |-> <<>>, syncd |-> 0]

\* The packet does not fill the data field; it does, and the rest of the
\* packet begins the next one, whose first whole packet is syncd units in.
Kept(tx, bits) == [tx |-> [tx EXCEPT !.data = bits], frame |-> NoFrame]

Filled(tx, bits, syncd) ==
  [tx |-> [data |-> SubSeq(bits, FieldLen + 1, Len(bits)), syncd |-> syncd],
   frame |-> [syncd |-> tx.syncd, field |-> SubSeq(bits, 1, FieldLen)]]

\* Faulty variant of TxPush: SYNCD also counts the unit that filled the frame.
TxPushLate(tx, k) ==
  LET bits == tx.data \o Packet(k)
  IN IF Len(bits) < FieldLen THEN Kept(tx, bits)
     ELSE Filled(tx, bits, (Len(bits) - FieldLen + 1) % PacketLen)

\* What dvbs2x_ts_tx_push makes of packet k: a new state and, once the data
\* field is full, a frame.  A packet that ends with the frame leaves SYNCD 0.
TxPush(tx, k) ==
  LET bits == tx.data \o Packet(k)
  IN IF Len(bits) < FieldLen THEN Kept(tx, bits)
     ELSE Filled(tx, bits, Len(bits) - FieldLen)

\* dvbs2x_ts_rx_init and dvbs2x_ts_rx_reset; previous is <<>> or one packet.
RxInit == [packet |-> <<>>, previous |-> <<>>]

\* Faulty variant of Vouches: the CRC is not compared.
VouchesAlways(marker, packet) == TRUE

\* The marker carries the CRC of this packet, its first unit left out.
Vouches(marker, packet) ==
  \A j \in 2 .. PacketLen : packet[j] = marker - PacketLen + j - 1

Fresh(rx) == rx.packet = <<>> /\ rx.previous = <<>>

\* The SYNCD a frame must have to continue what the receiver holds.
Continues(rx, frame) ==
  frame.syncd = IF rx.packet = <<>> THEN 0 ELSE PacketLen - Len(rx.packet)

Rejected(rx, why, count) ==
  [ret |-> why, rx |-> rx, packets |-> <<>>, count |-> count]

\* dvbs2x_ts_rx_push: a packet is produced when the next one vouches for it.
\* Every error leaves the receiver as it was.
RxPush(rx, frame) ==
  LET start == IF Fresh(rx) THEN frame.syncd ELSE 0
      units == rx.packet \o SubSeq(frame.field, start + 1, Len(frame.field))
      whole == Len(units) \div PacketLen
      found == rx.previous \o
               [k \in 1 .. whole |->
                  SubSeq(units, (k - 1) * PacketLen + 1, k * PacketLen)]
      needed == IF found = <<>> THEN 0 ELSE Len(found) - 1
      after == [packet |-> SubSeq(units, whole * PacketLen + 1, Len(units)),
                previous |-> IF found = <<>> THEN <<>> ELSE <<Last(found)>>]
  IN CASE ~Fresh(rx) /\ ~Continues(rx, frame) -> Rejected(rx, "NOSYNC", 0)
       [] Fresh(rx) /\ frame.syncd > Len(frame.field) -> Rejected(rx, "NOSYNC", 0)
       [] Capacity < needed -> Rejected(rx, "SHORT", needed)
       [] \E k \in 1 .. needed : ~Vouches(found[k + 1][1], found[k])
            -> Rejected(rx, "CRC", 0)
       [] OTHER -> [ret |-> "OK", rx |-> after,
                    packets |-> SubSeq(found, 1, needed), count |-> needed]
=============================================================================
