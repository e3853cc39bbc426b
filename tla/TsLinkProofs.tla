---------------------------- MODULE TsLinkProofs ----------------------------
(***************************************************************************)
(* A transport stream over a link that loses and damages frames, for       *)
(* packets and data fields of any length and files of any size: what is    *)
(* written is genuine, only damage loses packets and only near it, and a   *)
(* link without losses loses nothing.                                      *)
(*                                                                         *)
(* The argument looks at the stream: what the adapter holds, followed by   *)
(* what it takes of the frame.  Its units, those with errors apart, come   *)
(* in order, and a unit in a place where a packet begins is one that a     *)
(* packet begins with.  So a marker that agrees with the packet before it  *)
(* names that packet, and all of the packet is in place.  A packet spliced *)
(* across a loss has no such marker: SYNCD differs, or the CRC does.       *)
(*                                                                         *)
(* For the second part, an adapter is in order when all it holds is        *)
(* genuine, without a gap, and ends with the last frame.  It then takes    *)
(* every undamaged frame and stays in order.  It is in order again one     *)
(* undamaged frame after a damaged one, or two if data fields are shorter  *)
(* than what it can hold.                                                  *)
(***************************************************************************)
EXTENDS TsLink, Counting, TLAPS

-----------------------------------------------------------------------------
(* Packets and data fields                                                 *)

\* The lengths, under names whose values no prover looks at.
P == PacketLen
D == FieldLen

\* The first unit of packet k, of frame i.
From(k) == k * PacketLen
Off(i) == i * FieldLen

\* A unit that is the first of a packet.
Aligned(x) == \E k \in Int : x = From(k)

\* The lengths of the code's MODCODs.
LEMMA Lengths ==
  /\ P \in Nat /\ D \in Nat /\ Capacity \in Nat /\ 2 < P /\ P < D
  /\ PacketLen = P /\ FieldLen = D
BY AdaptationAssumption DEF P, D

\* Packets lie one after the other, and so do data fields.
LEMMA Froms ==
  /\ From(0) = 0 /\ From(1) = P
  /\ \A k \in Int : From(k) \in Int /\ From(k + 1) = From(k) + P /\ From(k - 1) = From(k) - P
  /\ \A k \in Nat : From(k) \in Nat
  /\ \A j, k \in Int : j < k => From(j) + P <= From(k)
  /\ \A j, k \in Int : j <= k => From(j) <= From(k)
<1> DEFINE p == PacketLen
<1>1. p \in Nat \ {0} /\ P = p
  BY Lengths
<1> HIDE DEF p
<1>2. 0 * p = 0 /\ 1 * p = p
  BY <1>1, SMT
<1>3. \A k \in Int : k * p \in Int /\ (k + 1) * p = k * p + p /\ (k - 1) * p = k * p - p
  BY <1>1, SMT
<1>4. \A k \in Nat : k * p \in Nat
  BY <1>1, SMT
<1>5. \A j, k \in Int : j < k => j * p + p <= k * p
  <2> TAKE j, k \in Int
  <2> QED BY <1>1, MultipleApart
<1>6. \A j, k \in Int : j <= k => j * p <= k * p
  <2> SUFFICES ASSUME NEW j \in Int, NEW k \in Int, j <= k PROVE j * p <= k * p
    OBVIOUS
  <2>1. CASE j = k
    BY <1>3, <2>1
  <2>2. CASE j < k
    <3>1. j * p + p <= k * p /\ j * p \in Int /\ k * p \in Int
      BY <1>3, <1>5, <2>2
    <3> QED BY <1>1, <3>1
  <2> QED BY <2>1, <2>2
<1>7. \A k : From(k) = k * p
  BY DEF From, p
<1> QED BY <1>1, <1>2, <1>3, <1>4, <1>5, <1>6, <1>7, Zenon

\* A packet is P units long.
LEMMA FromNext == \A m \in Nat : From(m + 1) \in Nat /\ From(m) \in Nat /\ From(m + 1) = From(m) + P
<1> TAKE m \in Nat
<1>1. m \in Int /\ m + 1 \in Nat
  OBVIOUS
<1> QED BY <1>1, Froms

\* The same of the data fields, D units each.
LEMMA Offs ==
  /\ Off(0) = 0
  /\ \A i \in Int : Off(i) \in Int /\ Off(i + 1) = Off(i) + D /\ Off(i - 1) = Off(i) - D
  /\ \A i \in Nat : Off(i) \in Nat
  /\ \A i, j \in Int : i < j => Off(i) + D <= Off(j)
  /\ \A i, j \in Int : i <= j => Off(i) <= Off(j)
<1> DEFINE p == FieldLen
<1>1. p \in Nat \ {0} /\ D = p
  BY Lengths
<1> HIDE DEF p
<1>2. 0 * p = 0
  BY <1>1, SMT
<1>3. \A k \in Int : k * p \in Int /\ (k + 1) * p = k * p + p /\ (k - 1) * p = k * p - p
  BY <1>1, SMT
<1>4. \A k \in Nat : k * p \in Nat
  BY <1>1, SMT
<1>5. \A j, k \in Int : j < k => j * p + p <= k * p
  <2> TAKE j, k \in Int
  <2> QED BY <1>1, MultipleApart
<1>6. \A j, k \in Int : j <= k => j * p <= k * p
  <2> SUFFICES ASSUME NEW j \in Int, NEW k \in Int, j <= k PROVE j * p <= k * p
    OBVIOUS
  <2>1. CASE j = k
    BY <1>3, <2>1
  <2>2. CASE j < k
    <3>1. j * p + p <= k * p /\ j * p \in Int /\ k * p \in Int
      BY <1>3, <1>5, <2>2
    <3> QED BY <1>1, <3>1
  <2> QED BY <2>1, <2>2
<1>7. \A k : Off(k) = k * p
  BY DEF Off, p
<1> QED BY <1>1, <1>2, <1>3, <1>4, <1>5, <1>6, <1>7, Zenon

\* Starts of packets are whole packets apart.
LEMMA Alignments ==
  /\ \A k \in Int : Aligned(From(k))
  /\ \A x, y \in Int : Aligned(x) /\ Aligned(y) => Aligned(x - y) /\ Aligned(x + y)
  /\ \A x, k \in Int : Aligned(x) => Aligned(x + From(k)) /\ Aligned(x - From(k))
  /\ \A x \in Int : Aligned(x) => Aligned(x - P) /\ Aligned(x + P)
<1> DEFINE p == PacketLen
<1>0. p \in Nat \ {0} /\ \A k : From(k) = k * p
  BY Lengths DEF From
<1> HIDE DEF p
<1>1. \A k \in Int : Aligned(From(k))
  BY DEF Aligned
<1>2. ASSUME NEW x \in Int, NEW y \in Int, Aligned(x), Aligned(y)
      PROVE  Aligned(x - y) /\ Aligned(x + y)
  <2>1. PICK k \in Int : x = From(k)
    BY <1>2 DEF Aligned
  <2>2. PICK j \in Int : y = From(j)
    BY <1>2 DEF Aligned
  <2>3. k * p - j * p = (k - j) * p /\ k * p + j * p = (k + j) * p
    BY <1>0, SMT
  <2>4. x - y = From(k - j) /\ x + y = From(k + j) /\ k - j \in Int /\ k + j \in Int
    BY <1>0, <2>1, <2>2, <2>3
  <2> QED BY <1>1, <2>4
<1>3. \A x, k \in Int : Aligned(x) => Aligned(x + From(k)) /\ Aligned(x - From(k))
  BY <1>1, <1>2, Froms
<1>4. \A x \in Int : Aligned(x) => Aligned(x - P) /\ Aligned(x + P)
  BY <1>3, Froms
<1> QED BY <1>1, <1>2, <1>3, <1>4

\* No start of a packet lies within a packet.
LEMMA AlignedApart ==
  ASSUME NEW x \in Int, NEW y \in Int, Aligned(x), Aligned(y), x < y
  PROVE  x + P <= y
<1>1. PICK k \in Int : x = From(k)
  BY DEF Aligned
<1>2. PICK j \in Int : y = From(j)
  BY DEF Aligned
<1>3. k < j
  <2>1. j <= k => From(j) <= From(k)
    BY Froms
  <2> QED BY <1>1, <1>2, <2>1
<1> QED BY <1>1, <1>2, <1>3, Froms

\* A data field does not hold a whole number of packets.
LEMMA NoWholeNumber == ~Aligned(D)
<1> DEFINE p == PacketLen
<1> SUFFICES ASSUME Aligned(D) PROVE FALSE
  OBVIOUS
<1>1. PICK k \in Int : D = k * p
  BY DEF Aligned, From
<1>2. p \in Nat \ {0} /\ D \in Nat /\ D % p # 0
  BY AdaptationAssumption DEF D
<1> HIDE DEF p
<1>3. D = p * k + 0 /\ D \in Int /\ 0 \in 0 .. p - 1
  BY <1>1, <1>2, SMT
<1>4. D % p = 0
  BY <1>2, <1>3, Remainder, Zenon
<1> QED BY <1>2, <1>4

\* How many whole packets n units hold.
LEMMA WholePackets ==
  ASSUME NEW n \in Nat
  PROVE  /\ n \div PacketLen \in Nat
         /\ From(n \div PacketLen) <= n /\ n < From(n \div PacketLen) + P
<1>1. PacketLen \in Nat \ {0} /\ P = PacketLen
  BY Lengths
<1> QED BY <1>1, Quotient DEF From

\* And no other number does.
LEMMA WholeUnique ==
  ASSUME NEW n \in Nat, NEW w \in Nat, From(w) <= n, n < From(w) + P
  PROVE  n \div PacketLen = w
<1> DEFINE v == n \div PacketLen
<1>1. v \in Nat /\ From(v) <= n /\ n < From(v) + P
  BY WholePackets
<1> HIDE DEF v
<1>2. ~(v < w) /\ ~(w < v)
  <2>1. From(v) \in Int /\ From(w) \in Int /\ P \in Nat
    BY <1>1, Froms, Lengths
  <2>2. v < w => From(v) + P <= From(w)
    BY <1>1, Froms
  <2>3. w < v => From(w) + P <= From(v)
    BY <1>1, Froms
  <2> QED BY <1>1, <2>1, <2>2, <2>3
<1>3. v = w
  BY <1>1, <1>2
<1> QED BY <1>3 DEF v

-----------------------------------------------------------------------------
(* The stream                                                              *)

\* What SMT knows of sequences of units, stated once so that no more is needed.
LEMMA Concatenation ==
  ASSUME NEW s \in Seq(Int), NEW u \in Seq(Int)
  PROVE  /\ s \o u \in Seq(Int) /\ Len(s \o u) = Len(s) + Len(u)
         /\ Len(s) \in Nat /\ Len(u) \in Nat
         /\ \A i \in 1 .. Len(s) : (s \o u)[i] = s[i]
         /\ \A i \in 1 .. Len(u) : (s \o u)[Len(s) + i] = u[i]
OBVIOUS

\* A part of a sequence.
LEMMA Subsequence ==
  ASSUME NEW s \in Seq(Int), NEW m \in Nat, NEW n \in Nat, m <= n, n <= Len(s)
  PROVE  /\ SubSeq(s, m + 1, n) \in Seq(Int) /\ Len(SubSeq(s, m + 1, n)) = n - m
         /\ \A i \in 1 .. n - m : SubSeq(s, m + 1, n)[i] = s[m + i]
OBVIOUS

\* Units are numbers.
LEMMA SequenceType ==
  ASSUME NEW s \in Seq(Int)
  PROVE  Len(s) \in Nat /\ \A i \in 1 .. Len(s) : s[i] \in Int
OBVIOUS

\* The state of the mode adapter between two calls.
Proper(r) ==
  /\ r \in [packet : Seq(Int), previous : Seq(Seq(Int))]
  /\ Len(r.packet) < P
  /\ r.previous = <<>> \/ (Len(r.previous) = 1 /\ Len(r.previous[1]) = P)

\* A frame as it comes out of FEC, its header checked.
Whole(frame) == frame \in [syncd : 0 .. P - 1, field : Seq(Int)] /\ Len(frame.field) = D

\* All that the adapter holds, and what it has when a frame is added.
Held(r) == IF r.previous = <<>> THEN r.packet ELSE r.previous[1] \o r.packet

\* The units before the first packet, when the adapter is empty.
Skipped(r, frame) == IF Fresh(r) THEN frame.syncd ELSE 0

\* What a call of dvbs2x_ts_rx_push cuts into packets, with the held packet first.
Stream(r, frame) == Held(r) \o SubSeq(frame.field, Skipped(r, frame) + 1, D)

\* What the adapter holds is a packet, if it has one, and part of the next.
LEMMA HeldType ==
  ASSUME NEW r, Proper(r)
  PROVE  /\ Held(r) \in Seq(Int) /\ Len(Held(r)) \in Nat
         /\ Len(r.packet) \in Nat /\ r.packet \in Seq(Int)
         /\ Len(Held(r)) = Len(r.packet) + (IF r.previous = <<>> THEN 0 ELSE P)
         /\ Len(Held(r)) < 2 * P
         /\ \A j \in 1 .. Len(r.packet) :
              Held(r)[(Len(Held(r)) - Len(r.packet)) + j] = r.packet[j]
         /\ r.previous # <<>> => \A j \in 1 .. P : Held(r)[j] = r.previous[1][j]
         /\ Fresh(r) <=> Held(r) = <<>>
         /\ Held(r) = <<>> <=> Len(Held(r)) = 0
         /\ Fresh(r) => r.packet = <<>> /\ Len(r.packet) = 0
<1>0. P \in Nat /\ 2 < P
  BY Lengths
<1>1. r.packet \in Seq(Int) /\ Len(r.packet) \in Nat /\ Len(r.packet) < P /\ r.previous \in Seq(Seq(Int))
  BY DEF Proper
<1>e. r.packet = <<>> <=> Len(r.packet) = 0
  BY <1>1
<1>2. CASE r.previous = <<>>
  <2>1. Held(r) = r.packet
    BY <1>2 DEF Held
  <2> QED BY <1>0, <1>1, <1>2, <1>e, <2>1 DEF Fresh
<1>3. CASE r.previous # <<>>
  <2>1. Held(r) = r.previous[1] \o r.packet /\ Len(r.previous) = 1 /\ Len(r.previous[1]) = P
    BY <1>3 DEF Held, Proper
  <2>2. PICK q \in Seq(Int) : q = r.previous[1] /\ Len(q) = P
    BY <1>1, <2>1
  <2>3. /\ Held(r) \in Seq(Int) /\ Len(Held(r)) = P + Len(r.packet)
        /\ \A j \in 1 .. P : Held(r)[j] = q[j]
        /\ \A j \in 1 .. Len(r.packet) : Held(r)[P + j] = r.packet[j]
    <3>1. Held(r) = q \o r.packet
      BY <2>1, <2>2
    <3>2. /\ q \o r.packet \in Seq(Int) /\ Len(q \o r.packet) = P + Len(r.packet)
          /\ \A j \in 1 .. P : (q \o r.packet)[j] = q[j]
          /\ \A j \in 1 .. Len(r.packet) : (q \o r.packet)[P + j] = r.packet[j]
      BY <1>1, <2>2, Concatenation
    <3> QED BY <3>1, <3>2
  <2>4. Held(r) # <<>> /\ Len(Held(r)) # 0
    BY <1>0, <1>1, <2>3
  <2> QED BY <1>0, <1>1, <1>3, <2>2, <2>3, <2>4, <1>e DEF Fresh
<1> QED BY <1>2, <1>3

\* The stream is what the adapter holds, and what it takes of the frame.
LEMMA StreamType ==
  ASSUME NEW r, Proper(r), NEW frame, Whole(frame)
  PROVE  /\ Stream(r, frame) \in Seq(Int)
         /\ Skipped(r, frame) \in 0 .. P - 1
         /\ Len(Stream(r, frame)) = Len(Held(r)) + D - Skipped(r, frame)
         /\ Len(Stream(r, frame)) \in Nat
         /\ \A x \in 1 .. Len(Held(r)) : Stream(r, frame)[x] = Held(r)[x]
         /\ \A x \in 1 .. D - Skipped(r, frame) :
              Stream(r, frame)[Len(Held(r)) + x] = frame.field[Skipped(r, frame) + x]
<1> DEFINE m == Skipped(r, frame)
           u == SubSeq(frame.field, m + 1, D)
<1>1. P \in Nat /\ D \in Nat /\ P < D /\ 2 < P
  BY Lengths
<1>2. frame.field \in Seq(Int) /\ Len(frame.field) = D /\ frame.syncd \in 0 .. P - 1
  BY DEF Whole
<1>3. m \in 0 .. P - 1
  BY <1>1, <1>2 DEF Skipped
<1> HIDE DEF m
<1>4. /\ u \in Seq(Int) /\ Len(u) = D - m
      /\ \A x \in 1 .. D - m : u[x] = frame.field[m + x]
  BY <1>1, <1>2, <1>3, Subsequence
<1>5. Held(r) \in Seq(Int) /\ Len(Held(r)) \in Nat
  BY HeldType
<1>6. Stream(r, frame) = Held(r) \o u
  BY DEF Stream, m
<1> HIDE DEF u
<1>7. /\ Held(r) \o u \in Seq(Int) /\ Len(Held(r) \o u) = Len(Held(r)) + Len(u)
      /\ \A x \in 1 .. Len(Held(r)) : (Held(r) \o u)[x] = Held(r)[x]
      /\ \A x \in 1 .. Len(u) : (Held(r) \o u)[Len(Held(r)) + x] = u[x]
  BY <1>4, <1>5, Concatenation
<1>8. \A x \in 1 .. D - m : (Held(r) \o u)[Len(Held(r)) + x] = frame.field[m + x]
  BY <1>4, <1>7
<1>9. Len(Held(r) \o u) = Len(Held(r)) + D - m /\ Len(Held(r) \o u) \in Nat
  BY <1>1, <1>3, <1>4, <1>5, <1>7
<1> QED BY <1>3, <1>6, <1>7, <1>8, <1>9 DEF m

\* The packets of dvbs2x_ts_rx_push: all whole ones of the stream.
Cut(s, found, w) ==
  /\ found \in Seq(Seq(Int)) /\ Len(found) = w
  /\ \A k \in 1 .. w :
       /\ found[k] \in Seq(Int) /\ Len(found[k]) = P
       /\ \A j \in 1 .. P : found[k][j] = s[From(k - 1) + j]

\* What is left of the stream after w packets.
Rest(s, packet, w) ==
  /\ packet \in Seq(Int) /\ Len(packet) = Len(s) - From(w)
  /\ \A j \in 1 .. Len(s) - From(w) : packet[j] = s[From(w) + j]

\* Cutting a sequence into packets.
LEMMA CutUp ==
  ASSUME NEW u \in Seq(Int), NEW w \in Nat, From(w) <= Len(u)
  PROVE  /\ Cut(u, [k \in 1 .. w |-> SubSeq(u, (k - 1) * PacketLen + 1, k * PacketLen)], w)
         /\ Rest(u, SubSeq(u, w * PacketLen + 1, Len(u)), w)
<1> DEFINE g(k) == SubSeq(u, From(k - 1) + 1, From(k))
           f == [k \in 1 .. w |-> g(k)]
<1>0. Len(u) \in Nat /\ P \in Nat
  BY Lengths
<1>1. ASSUME NEW k \in 1 .. w
      PROVE  /\ g(k) \in Seq(Int) /\ Len(g(k)) = P
             /\ \A j \in 1 .. P : g(k)[j] = u[From(k - 1) + j]
  <2>1. k \in Nat /\ k - 1 \in Nat /\ k \in Int /\ k <= w /\ w \in Int
    OBVIOUS
  <2>2. /\ From(k - 1) \in Nat /\ From(k) \in Nat /\ From(k - 1) = From(k) - P
        /\ From(k) <= From(w) /\ From(w) \in Nat
    BY <2>1, Froms
  <2>3. From(k - 1) <= From(k) /\ From(k) <= Len(u) /\ From(k) - From(k - 1) = P
    BY <1>0, <2>2
  <2> HIDE DEF g
  <2>4. /\ SubSeq(u, From(k - 1) + 1, From(k)) \in Seq(Int)
        /\ Len(SubSeq(u, From(k - 1) + 1, From(k))) = From(k) - From(k - 1)
        /\ \A j \in 1 .. From(k) - From(k - 1) :
             SubSeq(u, From(k - 1) + 1, From(k))[j] = u[From(k - 1) + j]
    BY <2>2, <2>3, Subsequence
  <2> QED BY <2>3, <2>4, Zenon DEF g
<1>2. [k \in 1 .. w |-> SubSeq(u, (k - 1) * PacketLen + 1, k * PacketLen)] = f
  BY DEF From
<1> HIDE DEF g
<1>3. f \in Seq(Seq(Int)) /\ Len(f) = w /\ \A k \in 1 .. w : f[k] = g(k)
  BY <1>1
<1>4. Cut(u, f, w)
  BY <1>1, <1>3, Zenon DEF Cut
<1>5. Rest(u, SubSeq(u, From(w) + 1, Len(u)), w)
  <2>1. From(w) \in Nat
    BY Froms
  <2>2. /\ SubSeq(u, From(w) + 1, Len(u)) \in Seq(Int)
        /\ Len(SubSeq(u, From(w) + 1, Len(u))) = Len(u) - From(w)
        /\ \A j \in 1 .. Len(u) - From(w) : SubSeq(u, From(w) + 1, Len(u))[j] = u[From(w) + j]
    BY <1>0, <2>1, Subsequence
  <2> QED BY <2>2 DEF Rest
<1> QED BY <1>2, <1>4, <1>5 DEF From

-----------------------------------------------------------------------------
(* Cutting it into packets                                                 *)

\* The same as dvbs2x_ts_rx_push computes it: the frame's units, those with the
\* packet begun before it, the packets in them, and the one left incomplete.
Added(r, frame) == SubSeq(frame.field, Skipped(r, frame) + 1, D)
Units(r, frame) == r.packet \o Added(r, frame)
Pieces(u) == [k \in 1 .. Len(u) \div PacketLen |->
                SubSeq(u, (k - 1) * PacketLen + 1, k * PacketLen)]
Left(u) == SubSeq(u, (Len(u) \div PacketLen) * PacketLen + 1, Len(u))

\* Concatenating sequences of packets.
LEMMA ConcatenationOfPackets ==
  ASSUME NEW s \in Seq(Seq(Int)), NEW u \in Seq(Seq(Int))
  PROVE  /\ s \o u \in Seq(Seq(Int)) /\ Len(s \o u) = Len(s) + Len(u)
         /\ \A i \in 1 .. Len(s) : (s \o u)[i] = s[i]
         /\ \A i \in 1 .. Len(u) : (s \o u)[Len(s) + i] = u[i]
OBVIOUS

\* s is the packet q and then u.
Joined(q, u, s) ==
  /\ q \in Seq(Int) /\ Len(q) = P
  /\ u \in Seq(Int) /\ s \in Seq(Int) /\ Len(s) = P + Len(u)
  /\ \A j \in 1 .. P : s[j] = q[j]
  /\ \A x \in 1 .. Len(u) : s[P + x] = u[x]

\* Packets cut from a sequence, when another one is put before it.
LEMMA Prepended ==
  ASSUME NEW q, NEW u, NEW s, Joined(q, u, s),
         NEW f, NEW w \in Nat, Cut(u, f, w), From(w) <= Len(u),
         NEW c, Rest(u, c, w)
  PROVE  /\ Cut(s, <<q>> \o f, w + 1) /\ Rest(s, c, w + 1)
         /\ From(w + 1) = P + From(w)
<1>j. /\ q \in Seq(Int) /\ Len(q) = P
      /\ u \in Seq(Int) /\ s \in Seq(Int) /\ Len(s) = P + Len(u)
      /\ \A j \in 1 .. P : s[j] = q[j]
      /\ \A x \in 1 .. Len(u) : s[P + x] = u[x]
  BY DEF Joined
<1>0. P \in Nat /\ Len(u) \in Nat /\ From(w) \in Nat /\ From(w + 1) = P + From(w)
  BY <1>j, Lengths, Froms, SequenceType
<1>1. <<q>> \in Seq(Seq(Int)) /\ Len(<<q>>) = 1 /\ <<q>>[1] = q
  BY <1>j
<1>2. f \in Seq(Seq(Int)) /\ Len(f) = w
  BY DEF Cut
<1> DEFINE g == <<q>> \o f
<1>3. /\ g \in Seq(Seq(Int)) /\ Len(g) = 1 + w
      /\ \A i \in 1 .. 1 : g[i] = <<q>>[i]
      /\ \A i \in 1 .. w : g[1 + i] = f[i]
  BY <1>1, <1>2, ConcatenationOfPackets
<1>4. g[1] = q
  BY <1>1, <1>3
<1> HIDE DEF g
<1>5. ASSUME NEW k \in 1 .. w + 1
      PROVE  /\ g[k] \in Seq(Int) /\ Len(g[k]) = P
             /\ \A j \in 1 .. P : g[k][j] = s[From(k - 1) + j]
  <2>1. CASE k = 1
    <3>1. From(k - 1) = 0
      BY <2>1, Froms
    <3>2. \A j \in 1 .. P : q[j] = s[0 + j]
      BY <1>j
    <3> QED BY <1>j, <1>4, <2>1, <3>1, <3>2
  <2>2. CASE k # 1
    <3>1. PICK i \in 1 .. w : k = 1 + i
      <4>1. k - 1 \in 1 .. w /\ k = 1 + (k - 1)
        BY <2>2
      <4> QED BY <4>1
    <3>2. /\ f[i] \in Seq(Int) /\ Len(f[i]) = P
          /\ \A j \in 1 .. P : f[i][j] = u[From(i - 1) + j]
      BY DEF Cut
    <3>3. g[k] = f[i]
      BY <1>3, <3>1
    <3>4. /\ i \in Nat /\ i \in Int /\ i - 1 \in Nat /\ i <= w /\ w \in Int
          /\ k - 1 = i
      BY <3>1
    <3>5. /\ From(i - 1) \in Nat /\ From(i) \in Nat
          /\ From(i) = P + From(i - 1) /\ From(i) <= From(w)
      <4>1. From(i - 1) \in Nat /\ From(i) \in Nat /\ From(i - 1) = From(i) - P /\ From(i) <= From(w)
        BY <3>4, Froms
      <4> QED BY <1>0, <4>1
    <3>6. ASSUME NEW j \in 1 .. P PROVE f[i][j] = s[From(k - 1) + j]
      <4>0. PICK b \in Nat, e \in Nat, n \in Nat, l \in Nat :
              b = From(i - 1) /\ e = From(i) /\ n = From(w) /\ l = Len(u)
        BY <1>0, <3>5
      <4>a. e = P + b /\ e <= n /\ n <= l
        BY <3>5, <4>0
      <4>b. b + j \in 1 .. l /\ P + (b + j) = e + j
        BY <1>0, <4>a
      <4>1. From(i - 1) + j \in 1 .. Len(u) /\ P + (From(i - 1) + j) = From(i) + j
        BY <4>0, <4>b
      <4> QED BY <1>j, <3>2, <3>4, <4>1
    <3> QED BY <3>2, <3>3, <3>6
  <2> QED BY <2>1, <2>2
<1>6. Cut(s, g, w + 1)
  <2>1. Len(g) = w + 1
    BY <1>3
  <2> QED BY <1>3, <1>5, <2>1, Zenon DEF Cut
<1>7. Rest(s, c, w + 1)
  <2>1. /\ c \in Seq(Int) /\ Len(c) = Len(u) - From(w)
        /\ \A j \in 1 .. Len(u) - From(w) : c[j] = u[From(w) + j]
    BY DEF Rest
  <2>2. Len(c) = Len(s) - From(w + 1) /\ Len(s) - From(w + 1) = Len(u) - From(w)
    BY <1>j, <1>0, <2>1
  <2>3. ASSUME NEW j \in 1 .. Len(s) - From(w + 1) PROVE c[j] = s[From(w + 1) + j]
    <3>a. PICK b \in Nat, e \in Nat, l \in Nat, i \in Nat :
            b = From(w) /\ e = From(w + 1) /\ l = Len(u) /\ i = j
      BY <1>0
    <3>b. j \in 1 .. l - b
      BY <2>2, <3>a
    <3>d. e = P + b
      BY <1>0, <3>a
    <3>c. j \in 1 .. l - b /\ b + j \in 1 .. l /\ P + (b + j) = e + j
      BY <1>0, <3>b, <3>d
    <3>1. /\ j \in 1 .. Len(u) - From(w) /\ From(w) + j \in 1 .. Len(u)
          /\ P + (From(w) + j) = From(w + 1) + j
      BY <3>a, <3>c
    <3> QED BY <1>j, <2>1, <3>1
  <2> QED BY <2>1, <2>2, <2>3 DEF Rest
<1> QED BY <1>0, <1>6, <1>7 DEF g

\* What is cut off is the stream's.
LEMMA FoundCut ==
  ASSUME NEW r, Proper(r), NEW frame, Whole(frame)
  PROVE  LET u == Units(r, frame)
             f == r.previous \o Pieces(u)
             s == Stream(r, frame)
         IN /\ Len(f) \in Nat /\ From(Len(f)) <= Len(s) /\ Len(s) < From(Len(f)) + P
            /\ Cut(s, f, Len(f)) /\ Rest(s, Left(u), Len(f))
<1> DEFINE a == Added(r, frame)
           u == Units(r, frame)
           s == Stream(r, frame)
           w == Len(u) \div PacketLen
<1>1. P \in Nat /\ D \in Nat /\ P < D /\ 2 < P
  BY Lengths
<1>2. frame.field \in Seq(Int) /\ Len(frame.field) = D /\ Skipped(r, frame) \in 0 .. P - 1
  BY StreamType DEF Whole
<1>3. a \in Seq(Int)
  BY <1>1, <1>2, Subsequence DEF Added
<1>4. u = r.packet \o a /\ s = Held(r) \o a
  BY DEF Units, Stream, Added
<1>5. r.packet \in Seq(Int) /\ r.previous \in Seq(Seq(Int)) /\ Held(r) \in Seq(Int)
  BY HeldType DEF Proper
<1> HIDE DEF a
<1>6. /\ u \in Seq(Int) /\ Len(u) = Len(r.packet) + Len(a) /\ Len(u) \in Nat
      /\ \A x \in 1 .. Len(r.packet) : u[x] = r.packet[x]
      /\ \A x \in 1 .. Len(a) : u[Len(r.packet) + x] = a[x]
      /\ Len(r.packet) \in Nat /\ Len(a) \in Nat
  BY <1>3, <1>4, <1>5, Concatenation
<1>7. /\ s \in Seq(Int) /\ Len(s) = Len(Held(r)) + Len(a) /\ Len(s) \in Nat
      /\ \A x \in 1 .. Len(Held(r)) : s[x] = Held(r)[x]
      /\ \A x \in 1 .. Len(a) : s[Len(Held(r)) + x] = a[x]
      /\ Len(Held(r)) \in Nat
  BY <1>3, <1>4, <1>5, Concatenation
<1> HIDE DEF u, s
<1>8. w \in Nat /\ From(w) <= Len(u) /\ Len(u) < From(w) + P
  BY <1>6, WholePackets
<1>9. Cut(u, Pieces(u), w) /\ Rest(u, Left(u), w)
  BY <1>6, <1>8, CutUp DEF Pieces, Left
<1>10. Pieces(u) \in Seq(Seq(Int)) /\ Len(Pieces(u)) = w
  BY <1>9 DEF Cut
<1> HIDE DEF w
<1>11. CASE r.previous = <<>>
  <2>1. Held(r) = r.packet
    BY <1>11 DEF Held
  <2>2. s = u
    BY <1>4, <2>1
  <2>3. r.previous \o Pieces(u) = Pieces(u)
    BY <1>10, <1>11
  <2> QED BY <1>8, <1>9, <1>10, <2>2, <2>3, Zenon DEF u, s
<1>12. CASE r.previous # <<>>
  <2>1. PICK q \in Seq(Int) : q = r.previous[1] /\ Len(q) = P /\ r.previous = <<q>>
    <3>1. Len(r.previous) = 1 /\ Len(r.previous[1]) = P
      BY <1>12 DEF Proper
    <3>2. r.previous[1] \in Seq(Int) /\ r.previous = <<r.previous[1]>>
      BY <1>5, <3>1
    <3> QED BY <3>1, <3>2
  <2>2. /\ Len(Held(r)) = Len(r.packet) + P
        /\ \A j \in 1 .. Len(r.packet) :
             Held(r)[(Len(Held(r)) - Len(r.packet)) + j] = r.packet[j]
        /\ \A j \in 1 .. P : Held(r)[j] = r.previous[1][j]
    BY <1>12, HeldType
  <2>3. Len(s) = P + Len(u)
    BY <1>1, <1>6, <1>7, <2>2
  <2>4. \A j \in 1 .. P : s[j] = q[j]
    <3> TAKE j \in 1 .. P
    <3>1. j \in 1 .. Len(Held(r))
      BY <1>1, <1>6, <2>2
    <3> QED BY <1>7, <2>1, <2>2, <3>1
  <2>5. ASSUME NEW x \in 1 .. Len(u) PROVE s[P + x] = u[x]
    <3>1. CASE x <= Len(r.packet)
      <4>1. /\ x \in 1 .. Len(r.packet) /\ P + x \in 1 .. Len(Held(r))
            /\ (Len(Held(r)) - Len(r.packet)) + x = P + x
        <5>1. PICK h \in Nat, l \in Nat, n \in Nat : h = Len(Held(r)) /\ l = Len(r.packet) /\ n = Len(u)
          BY <1>6, <1>7
        <5>2. h = l + P /\ x \in 1 .. n /\ x <= l
          BY <2>2, <3>1, <5>1
        <5>3. x \in 1 .. l /\ P + x \in 1 .. h /\ (h - l) + x = P + x
          BY <1>1, <5>2
        <5> QED BY <5>1, <5>3
      <4>2. Held(r)[P + x] = r.packet[x]
        BY <2>2, <4>1
      <4> QED BY <1>6, <1>7, <4>1, <4>2
    <3>2. CASE x > Len(r.packet)
      <4>1. PICK y \in 1 .. Len(a) : x = Len(r.packet) + y
        <5>1. x - Len(r.packet) \in 1 .. Len(a) /\ x = Len(r.packet) + (x - Len(r.packet))
          BY <1>6, <3>2
        <5> QED BY <5>1
      <4>2. P + x = Len(Held(r)) + y
        BY <1>1, <1>6, <2>2, <4>1
      <4> QED BY <1>6, <1>7, <4>1, <4>2
    <3> QED BY <1>6, <3>1, <3>2
  <2>6. /\ Cut(s, <<q>> \o Pieces(u), w + 1) /\ Rest(s, Left(u), w + 1)
        /\ From(w + 1) = P + From(w)
    <3> DEFINE f == Pieces(u)
               c == Left(u)
    <3>1. Cut(u, f, w) /\ Rest(u, c, w) /\ From(w) <= Len(u) /\ w \in Nat
      BY <1>8, <1>9
    <3> HIDE DEF f, c
    <3>2. Cut(s, <<q>> \o f, w + 1) /\ Rest(s, c, w + 1) /\ From(w + 1) = P + From(w)
      <4>1. Joined(q, u, s)
        BY <1>6, <1>7, <2>1, <2>3, <2>4, <2>5 DEF Joined
      <4> QED BY <4>1, <3>1, Prepended
    <3> QED BY <3>2 DEF f, c
  <2>7. r.previous \o Pieces(u) = <<q>> \o Pieces(u)
    BY <2>1
  <2>8. Len(<<q>> \o Pieces(u)) = w + 1
    BY <2>6 DEF Cut
  <2>9. From(w + 1) <= Len(s) /\ Len(s) < From(w + 1) + P /\ w + 1 \in Nat
    <3>1. From(w) \in Nat
      BY <1>8, Froms
    <3>2. PICK b \in Nat, e \in Nat, l \in Nat : b = From(w) /\ e = From(w + 1) /\ l = Len(u)
      <4>1. From(w + 1) \in Nat
        BY <1>1, <2>6, <3>1
      <4> QED BY <1>6, <3>1, <4>1
    <3>3. e = P + b /\ b <= l /\ l < b + P /\ Len(s) = P + l
      BY <1>8, <2>3, <2>6, <3>2
    <3>4. e <= Len(s) /\ Len(s) < e + P
      BY <1>1, <3>3
    <3> QED BY <1>8, <3>2, <3>4
  <2> QED BY <2>6, <2>7, <2>8, <2>9, Zenon DEF u, s
<1> QED BY <1>11, <1>12

-----------------------------------------------------------------------------
(* dvbs2x_ts_rx_push                                                       *)

\* The packets that a later one can vouch for, of w.
Needed(w) == IF w = 0 THEN 0 ELSE w - 1

\* The call returns DVBS2X_OK.
Accepts(r, frame, found, w) ==
  /\ Fresh(r) \/ Continues(r, frame)
  /\ Needed(w) <= Capacity
  /\ \A k \in 1 .. Needed(w) : Vouches(found[k + 1][1], found[k])

\* found is what the call cuts the stream into, packet what is left over.
Produces(r, frame, found, packet, w) ==
  /\ From(w) <= Len(Stream(r, frame)) /\ Len(Stream(r, frame)) < From(w) + P
  /\ Cut(Stream(r, frame), found, w)
  /\ Rest(Stream(r, frame), packet, w)
  /\ RxPush(r, frame).ret = "OK" <=> Accepts(r, frame, found, w)
  /\ RxPush(r, frame).ret = "OK" =>
       /\ RxPush(r, frame).rx.packet = packet
       /\ RxPush(r, frame).rx.previous = IF w = 0 THEN <<>> ELSE <<found[w]>>
       /\ RxPush(r, frame).rx =
            [packet |-> RxPush(r, frame).rx.packet, previous |-> RxPush(r, frame).rx.previous]
       /\ RxPush(r, frame).packets = SubSeq(found, 1, Needed(w))
  /\ RxPush(r, frame).ret # "OK" => RxPush(r, frame).packets = <<>>

\* dvbs2x_ts_rx_push, in terms of the stream: it cuts the stream into packets, and
\* accepts if SYNCD continues it, the caller has room and every CRC vouches.
LEMMA PushResult ==
  ASSUME NEW r, Proper(r), NEW frame, Whole(frame)
  PROVE  \E found, packet : \E w \in Nat : Produces(r, frame, found, packet, w)
<1> DEFINE u == Units(r, frame)
           f == r.previous \o Pieces(u)
           w == Len(f)
           s == Stream(r, frame)
           out == RxPush(r, frame)
           needed == IF f = <<>> THEN 0 ELSE Len(f) - 1
           after == [packet |-> Left(u), previous |-> IF f = <<>> THEN <<>> ELSE <<Last(f)>>]
<1>1. /\ w \in Nat /\ From(w) <= Len(s) /\ Len(s) < From(w) + P
      /\ Cut(s, f, w) /\ Rest(s, Left(u), w)
  BY FoundCut
<1>2. Len(frame.field) = D /\ frame.syncd \in 0 .. P - 1 /\ frame.syncd <= Len(frame.field)
  <2>1. Len(frame.field) = D /\ frame.syncd \in 0 .. P - 1
    BY DEF Whole
  <2>2. P \in Nat /\ D \in Nat /\ P < D
    BY Lengths
  <2> QED BY <2>1, <2>2
<1>3. out = CASE ~Fresh(r) /\ ~Continues(r, frame) -> Rejected(r, "NOSYNC", 0)
       [] Fresh(r) /\ frame.syncd > Len(frame.field) -> Rejected(r, "NOSYNC", 0)
       [] Capacity < needed -> Rejected(r, "SHORT", needed)
       [] \E k \in 1 .. needed : ~Vouches(f[k + 1][1], f[k])
            -> Rejected(r, "CRC", 0)
       [] OTHER -> [ret |-> "OK", rx |-> after,
                    packets |-> SubSeq(f, 1, needed), count |-> needed]
  <2>1. u = r.packet \o SubSeq(frame.field, (IF Fresh(r) THEN frame.syncd ELSE 0) + 1, Len(frame.field))
    BY <1>2 DEF Units, Added, Skipped
  <2>2. f = r.previous \o
               [k \in 1 .. Len(u) \div PacketLen |->
                  SubSeq(u, (k - 1) * PacketLen + 1, k * PacketLen)]
    BY DEF Pieces
  <2>3. Left(u) = SubSeq(u, (Len(u) \div PacketLen) * PacketLen + 1, Len(u))
    BY DEF Left
  <2> HIDE DEF f, u
  <2> QED BY <2>1, <2>2, <2>3, ZenonT(40) DEF RxPush
<1>4. f \in Seq(Seq(Int))
  BY <1>1 DEF Cut
<1> HIDE DEF u, f, out
<1>5. f = <<>> <=> w = 0
  BY <1>4
<1>6. needed = Needed(w)
  BY <1>5 DEF Needed
<1>7. f # <<>> => Last(f) = f[w]
  BY DEF Last
<1> HIDE DEF w
<1>c. Capacity \in Nat /\ needed \in Nat
  BY <1>1, <1>6, Lengths DEF Needed
<1> HIDE DEF needed
<1>8. CASE Accepts(r, frame, f, w)
  <2>1. out = [ret |-> "OK", rx |-> after, packets |-> SubSeq(f, 1, needed), count |-> needed]
    <3>1. /\ ~(~Fresh(r) /\ ~Continues(r, frame))
          /\ ~(Fresh(r) /\ frame.syncd > Len(frame.field))
          /\ ~(Capacity < needed)
          /\ ~(\E k \in 1 .. needed : ~Vouches(f[k + 1][1], f[k]))
      <4>1. ~(frame.syncd > Len(frame.field))
        <5>1. frame.syncd \in Int /\ Len(frame.field) \in Int
          BY <1>2, Lengths
        <5> QED BY <1>2, <5>1
      <4>2. ~(Capacity < needed)
        BY <1>6, <1>8, <1>c DEF Accepts
      <4> QED BY <4>1, <4>2, <1>6, <1>8, Zenon DEF Accepts
    <3> QED BY <1>3, <3>1, Zenon
  <2>2. out.ret = "OK" /\ out.rx = after /\ out.packets = SubSeq(f, 1, needed)
    BY <2>1
  <2>3. /\ after.packet = Left(u)
        /\ after.previous = IF w = 0 THEN <<>> ELSE <<f[w]>>
        /\ after = [packet |-> after.packet, previous |-> after.previous]
    BY <1>5, <1>7
  <2> HIDE DEF after
  <2> QED BY <1>1, <1>6, <1>8, <2>2, <2>3 DEF Produces, out
<1>9. CASE ~Accepts(r, frame, f, w)
  <2>1. out.ret # "OK" /\ out.packets = <<>>
    <3>1. \/ ~Fresh(r) /\ ~Continues(r, frame)
          \/ Capacity < needed
          \/ \E k \in 1 .. needed : ~Vouches(f[k + 1][1], f[k])
      <4>1. ~(Capacity < needed) => needed <= Capacity
        BY <1>c
      <4> QED BY <1>6, <1>9, <4>1, Zenon DEF Accepts
    <3>2. \/ out = Rejected(r, "NOSYNC", 0)
          \/ out = Rejected(r, "SHORT", needed)
          \/ out = Rejected(r, "CRC", 0)
      BY <1>3, <3>1, SMTT(20)
    <3> QED BY <3>2 DEF Rejected
  <2> QED BY <1>1, <1>9, <2>1 DEF Produces, out
<1> QED BY <1>1, <1>8, <1>9

-----------------------------------------------------------------------------
(* What the adapter holds                                                  *)

\* What the adapter holds after a call, out of the stream it was given.
LEMMA HeldAfter ==
  ASSUME NEW r, Proper(r), NEW frame, Whole(frame),
         NEW found, NEW packet, NEW w \in Nat, Produces(r, frame, found, packet, w),
         RxPush(r, frame).ret = "OK"
  PROVE  LET after == RxPush(r, frame).rx
             s == Stream(r, frame)
             n == From(Needed(w))
         IN /\ Proper(after)
            /\ n \in Nat /\ Needed(w) \in Nat
            /\ Len(after.packet) = Len(s) - From(w)
            /\ Len(Held(after)) = Len(s) - n
            /\ \A x \in 1 .. Len(s) - n : Held(after)[x] = s[n + x]
            /\ ~Fresh(after)
<1> DEFINE after == RxPush(r, frame).rx
           s == Stream(r, frame)
           n == From(Needed(w))
<1>1. /\ From(w) <= Len(s) /\ Len(s) < From(w) + P
      /\ Cut(s, found, w) /\ Rest(s, packet, w)
      /\ after.packet = packet
      /\ after.previous = IF w = 0 THEN <<>> ELSE <<found[w]>>
      /\ after = [packet |-> after.packet, previous |-> after.previous]
  BY DEF Produces
<1>2. s \in Seq(Int) /\ Len(s) \in Nat /\ D - P < Len(s)
  <2>1. /\ Len(s) = Len(Held(r)) + D - Skipped(r, frame) /\ s \in Seq(Int) /\ Len(s) \in Nat
        /\ Skipped(r, frame) \in 0 .. P - 1
    BY StreamType
  <2>2. Len(Held(r)) \in Nat
    BY HeldType
  <2>3. P \in Nat /\ D \in Nat
    BY Lengths
  <2> QED BY <2>1, <2>2, <2>3
<1> HIDE DEF after, s
<1>3. P \in Nat /\ D \in Nat /\ P < D /\ 2 < P /\ From(w) \in Nat
  BY Lengths, Froms
<1>4. packet \in Seq(Int) /\ Len(packet) = Len(s) - From(w)
      /\ \A j \in 1 .. Len(s) - From(w) : packet[j] = s[From(w) + j]
  BY <1>1 DEF Rest
<1>n. PICK l \in Nat, f \in Nat, c \in Nat :
        l = Len(s) /\ f = From(w) /\ c = Len(packet) /\ c = l - f
  BY <1>2, <1>3, <1>4, SequenceType
<1>5. CASE w = 0
  <2>1. Needed(w) = 0 /\ n = 0 /\ From(w) = 0
    BY <1>5, Froms DEF Needed
  <2>2. after.previous = <<>>
    BY <1>1, <1>5
  <2>3. Proper(after)
    <3>1. after.packet \in Seq(Int) /\ Len(after.packet) < P
      BY <1>1, <1>2, <1>3, <1>4, <2>1
    <3>2. after \in [packet : Seq(Int), previous : Seq(Seq(Int))]
      <4>1. <<>> \in Seq(Seq(Int))
        OBVIOUS
      <4> QED BY <1>1, <2>2, <3>1, <4>1
    <3> QED BY <2>2, <3>1, <3>2 DEF Proper
  <2>4. Held(after) = packet
    BY <1>1, <2>2 DEF Held
  <2>5. ~Fresh(after)
    <3>1. Len(packet) # 0
      BY <1>2, <1>3, <1>4, <2>1
    <3> QED BY <1>1, <3>1 DEF Fresh
  <2> QED BY <1>1, <1>2, <1>4, <2>1, <2>3, <2>4, <2>5 DEF after, s
<1>6. CASE w # 0
  <2>1. Needed(w) = w - 1 /\ Needed(w) \in Nat /\ n = From(w) - P /\ n \in Nat
    BY <1>6, Froms DEF Needed
  <2>2. PICK q \in Seq(Int) : q = found[w] /\ Len(q) = P /\ \A j \in 1 .. P : q[j] = s[n + j]
    <3>1. w \in 1 .. w
      BY <1>6
    <3> QED BY <1>1, <2>1, <3>1 DEF Cut
  <2>3. after.previous = <<q>>
    BY <1>1, <1>6, <2>2
  <2>4. Proper(after)
    <3>1. after.packet \in Seq(Int) /\ Len(after.packet) < P
      BY <1>1, <1>2, <1>3, <1>4
    <3>2. <<q>> \in Seq(Seq(Int)) /\ Len(<<q>>) = 1 /\ <<q>>[1] = q
      OBVIOUS
    <3>3. after \in [packet : Seq(Int), previous : Seq(Seq(Int))]
      BY <1>1, <2>3, <3>1, <3>2
    <3> QED BY <2>2, <2>3, <3>1, <3>2, <3>3 DEF Proper
  <2>5. Held(after) = q \o packet /\ ~Fresh(after)
    <3>1. <<q>> # <<>> /\ <<q>>[1] = q
      OBVIOUS
    <3> QED BY <1>1, <2>3, <3>1 DEF Held, Fresh
  <2>6. /\ Len(q \o packet) = P + Len(packet)
        /\ \A j \in 1 .. P : (q \o packet)[j] = q[j]
        /\ \A j \in 1 .. Len(packet) : (q \o packet)[P + j] = packet[j]
    BY <1>4, <2>2, Concatenation
  <2>7. Len(Held(after)) = Len(s) - n
    BY <1>2, <1>3, <1>4, <2>1, <2>5, <2>6
  <2>8. ASSUME NEW x \in 1 .. Len(s) - n PROVE (q \o packet)[x] = s[n + x]
    <3>1. CASE x <= P
      <4>1. x \in 1 .. P
        BY <1>3, <2>1, <1>2, <3>1
      <4> QED BY <2>2, <2>6, <4>1
    <3>2. CASE x > P
      <4>1. PICK j \in 1 .. Len(packet) : x = P + j
        <5>1. x - P \in 1 .. Len(packet) /\ x = P + (x - P)
          <6>1. PICK m \in Nat : m = n /\ m = f - P
            BY <1>n, <2>1
          <6>2. x \in 1 .. l - m
            BY <1>n, <6>1
          <6>3. x - P \in 1 .. c /\ x = P + (x - P)
            BY <1>3, <1>n, <3>2, <6>1, <6>2, SMTT(40)
          <6> QED BY <1>n, <6>3
        <5> QED BY <5>1
      <4>2. n + x = From(w) + j
        BY <1>3, <1>n, <2>1, <4>1
      <4> QED BY <1>4, <2>6, <4>1, <4>2
    <3>3. x \in Int
      <4>1. PICK m \in Nat : m = n
        BY <2>1
      <4>2. x \in 1 .. l - m
        BY <1>n, <4>1
      <4> QED BY <4>2
    <3>4. x <= P \/ x > P
      BY <1>3, <3>3
    <3> QED BY <3>1, <3>2, <3>4, Zenon
  <2> QED BY <1>1, <1>4, <2>1, <2>4, <2>5, <2>7, <2>8 DEF after, s
<1> QED BY <1>5, <1>6

\* A unit before b, or one with errors.
Possible(u, b) == u = Garbled \/ u \in 0 .. b - 1

\* Where packets begin there are units that packets begin with.
Marked(s) ==
  \A k \in Nat : From(k) < Len(s) => s[From(k) + 1] = Garbled \/ Aligned(s[From(k) + 1])

\* The units that are right come in order.
Rising(s) ==
  \A x, y \in 1 .. Len(s) :
    x < y /\ s[x] # Garbled /\ s[y] # Garbled => s[x] < s[y]

\* All of that.
Sound(s, b) ==
  /\ s \in Seq(Int)
  /\ \A x \in 1 .. Len(s) : Possible(s[x], b)
  /\ Rising(s) /\ Marked(s)

\* The adapter after frames 0 .. A - 1, of which it may have lost any.
Honest(r, A) ==
  /\ Proper(r) /\ Sound(Held(r), Off(A))
  /\ ~Fresh(r) => Aligned(Off(A) - Len(r.packet))

\* Frame i as it comes out of FEC: some units may be wrong.
Received(frame, i) ==
  /\ Whole(frame) /\ Aligned(Off(i) + frame.syncd)
  /\ \A j \in 1 .. D : frame.field[j] = Garbled \/ frame.field[j] = Off(i) + j - 1

\* Where the stream would begin if all of it were genuine.
Origin(r, frame, i) == Off(i) + Skipped(r, frame) - Len(Held(r))

\* An accepted frame ends the stream, and the stream begins where a packet does.
LEMMA OriginAligned ==
  ASSUME NEW r, Proper(r), NEW frame, NEW i \in Int, Whole(frame),
         Aligned(Off(i) + frame.syncd), Fresh(r) \/ Continues(r, frame)
  PROVE  /\ Origin(r, frame, i) \in Int
         /\ Aligned(Origin(r, frame, i))
         /\ Origin(r, frame, i) + Len(Stream(r, frame)) = Off(i + 1)
         /\ ~Fresh(r) => Aligned(Off(i) - Len(r.packet))
<1>1. /\ Off(i) \in Int /\ Off(i + 1) = Off(i) + D /\ P \in Nat /\ D \in Nat
      /\ frame.syncd \in Int /\ Skipped(r, frame) \in Int
  BY Offs, Lengths, StreamType DEF Whole
<1>2. /\ Len(Held(r)) \in Nat /\ Len(r.packet) \in Nat /\ r.packet \in Seq(Int)
      /\ Len(Held(r)) = Len(r.packet) + (IF r.previous = <<>> THEN 0 ELSE P)
      /\ Fresh(r) => Len(Held(r)) = 0
      /\ Len(Stream(r, frame)) = Len(Held(r)) + D - Skipped(r, frame)
  BY HeldType, StreamType
<1>n. PICK o \in Int, k \in Int, h \in Nat, l \in Nat :
        o = Off(i) /\ k = Skipped(r, frame) /\ h = Len(Held(r)) /\ l = Len(r.packet)
  BY <1>1, <1>2
<1>o. PICK b \in Int : b = Origin(r, frame, i) /\ b = o + k - h
  BY <1>n DEF Origin
<1>p. Len(Stream(r, frame)) = h + D - k /\ Off(i + 1) = o + D
  BY <1>1, <1>2, <1>n
<1>q. h = l + (IF r.previous = <<>> THEN 0 ELSE P)
  BY <1>2, <1>n
<1>s. Origin(r, frame, i) \in Int /\ Origin(r, frame, i) + Len(Stream(r, frame)) = Off(i + 1)
  BY <1>1, <1>o, <1>p
<1>3. CASE Fresh(r)
  <2>1. h = 0 /\ k = frame.syncd
    BY <1>2, <1>3, <1>n DEF Skipped
  <2>2. Origin(r, frame, i) = Off(i) + frame.syncd
    BY <1>1, <1>n, <1>o, <2>1
  <2> QED BY <1>s, <1>3, <2>2
<1>4. CASE ~Fresh(r)
  <2>0. k = 0
    BY <1>4, <1>n DEF Skipped
  <2>1. Origin(r, frame, i) = o - h
    BY <1>n, <1>o, <2>0
  <2>2. frame.syncd = IF r.packet = <<>> THEN 0 ELSE PacketLen - Len(r.packet)
    BY <1>4 DEF Continues
  <2>3. Aligned(Off(i) - Len(r.packet))
    <3>1. CASE r.packet = <<>>
      <4>1. Len(r.packet) = 0 /\ frame.syncd = 0
        BY <2>2, <3>1
      <4>2. Off(i) - Len(r.packet) = Off(i) + frame.syncd
        BY <1>1, <4>1
      <4> QED BY <4>2
    <3>2. CASE r.packet # <<>>
      <4>1. frame.syncd = P - Len(r.packet)
        BY <2>2, <3>2, Lengths
      <4>2. Off(i) - Len(r.packet) = (Off(i) + frame.syncd) - P
        BY <1>1, <1>2, <4>1
      <4>3. Off(i) + frame.syncd \in Int
        BY <1>1
      <4> QED BY <4>2, <4>3, Alignments
    <3> QED BY <3>1, <3>2
  <2>4. Aligned(Origin(r, frame, i))
    <3>1. CASE r.previous = <<>>
      <4>1. Origin(r, frame, i) = Off(i) - Len(r.packet)
        <5>1. h = l
          BY <1>n, <1>q, <3>1
        <5> QED BY <1>n, <2>1, <5>1
      <4> QED BY <2>3, <4>1
    <3>2. CASE r.previous # <<>>
      <4>1. Origin(r, frame, i) = (Off(i) - Len(r.packet)) - P /\ Off(i) - Len(r.packet) \in Int
        <5>1. h = l + P
          BY <1>n, <1>q, <3>2
        <5>2. o - h = (o - l) - P /\ o - l \in Int
          BY <1>1, <5>1
        <5> QED BY <1>n, <2>1, <5>2
      <4> QED BY <2>3, <4>1, Alignments
    <3> QED BY <3>1, <3>2
  <2> QED BY <1>s, <1>4, <2>3, <2>4
<1> QED BY <1>3, <1>4

\* The units of the stream that came with the frame.
LEMMA NewUnits ==
  ASSUME NEW r, Proper(r), NEW frame, NEW i \in Int, Received(frame, i)
  PROVE  \A x \in 1 .. Len(Stream(r, frame)) :
           x > Len(Held(r)) =>
             \/ Stream(r, frame)[x] = Garbled
             \/ Stream(r, frame)[x] = Origin(r, frame, i) + x - 1
<1> DEFINE s == Stream(r, frame)
<1>1. /\ Len(s) = Len(Held(r)) + D - Skipped(r, frame) /\ Len(s) \in Nat
      /\ \A x \in 1 .. D - Skipped(r, frame) :
           s[Len(Held(r)) + x] = frame.field[Skipped(r, frame) + x]
      /\ Skipped(r, frame) \in 0 .. P - 1
      /\ Len(Held(r)) \in Nat
  BY StreamType, HeldType DEF Received
<1> HIDE DEF s
<1>2. PICK o \in Int, k \in Nat, h \in Nat, l \in Nat :
        o = Off(i) /\ k = Skipped(r, frame) /\ h = Len(Held(r)) /\ l = Len(s)
  <2>1. Off(i) \in Int /\ P \in Nat
    BY Offs, Lengths
  <2>2. Skipped(r, frame) \in Nat
    BY <1>1, <2>1
  <2> QED BY <1>1, <2>1, <2>2
<1>3. D \in Nat /\ l = h + D - k /\ k <= P - 1 /\ P \in Nat
  BY <1>1, <1>2, Lengths
<1>4. PICK b \in Int : b = Origin(r, frame, i) /\ b = o + k - h
  BY <1>2 DEF Origin
<1> SUFFICES ASSUME NEW x \in 1 .. Len(s), x > Len(Held(r))
             PROVE  s[x] = Garbled \/ s[x] = b + x - 1
  BY <1>4 DEF s
<1>5. PICK y \in 1 .. D - k : x = h + y
  <2>1. x \in 1 .. l /\ x > h
    BY <1>2
  <2>2. x - h \in 1 .. D - k /\ x = h + (x - h)
    BY <1>3, <2>1
  <2> QED BY <2>2
<1>6. s[x] = frame.field[k + y]
  BY <1>1, <1>2, <1>5
<1>7. k + y \in 1 .. D
  BY <1>3
<1>8. frame.field[k + y] = Garbled \/ frame.field[k + y] = Off(i) + (k + y) - 1
  BY <1>7 DEF Received
<1>9. Off(i) + (k + y) - 1 = b + x - 1
  <2>1. o + (k + y) - 1 = b + x - 1
    BY <1>4, <1>5
  <2> QED BY <1>2, <2>1
<1> QED BY <1>6, <1>8, <1>9

\* A unit with errors is none that was sent.
LEMMA GarbledType == Garbled = -1 /\ Garbled \in Int
BY DEF Garbled

\* A frame added to an honest adapter makes a sound stream.
LEMMA SoundStream ==
  ASSUME NEW r, NEW A \in Nat, Honest(r, A), NEW frame, NEW i \in Nat, A <= i,
         Received(frame, i), Fresh(r) \/ Continues(r, frame)
  PROVE  /\ Sound(Stream(r, frame), Off(i + 1))
         /\ \A x \in 1 .. Len(Stream(r, frame)) :
              x > Len(Held(r)) /\ Stream(r, frame)[x] # Garbled
                => Off(A) <= Stream(r, frame)[x]
<1> DEFINE s == Stream(r, frame)
           b == Origin(r, frame, i)
           h == Len(Held(r))
<1>1. Proper(r) /\ Whole(frame) /\ Aligned(Off(i) + frame.syncd) /\ i \in Int
  BY DEF Honest, Received
<1>2. /\ s \in Seq(Int) /\ Len(s) \in Nat /\ h \in Nat
      /\ \A x \in 1 .. h : s[x] = Held(r)[x]
      /\ Len(s) = h + D - Skipped(r, frame) /\ Skipped(r, frame) \in 0 .. P - 1
  BY <1>1, StreamType, HeldType
<1>3. b \in Int /\ Aligned(b) /\ b + Len(s) = Off(i + 1)
  BY <1>1, OriginAligned
<1>4. /\ \A x \in 1 .. Len(s) : x > h => s[x] = Garbled \/ s[x] = b + x - 1
  BY <1>1, NewUnits
<1>5. b + h = Off(i) + Skipped(r, frame)
  <2>1. PICK o \in Int, k \in Int, n \in Int :
          o = Off(i) /\ k = Skipped(r, frame) /\ n = Len(Held(r))
    <3>1. Off(i) \in Int /\ P \in Nat
      BY <1>1, Offs, Lengths
    <3>2. Skipped(r, frame) \in Int
      BY <1>2, <3>1
    <3> QED BY <1>2, <3>1, <3>2 DEF h
  <2>2. b = o + k - n /\ h = n
    BY <2>1 DEF Origin
  <2> QED BY <2>1, <2>2
<1> HIDE DEF s, b, h
<1>6. /\ Off(A) \in Nat /\ Off(i) \in Nat /\ Off(i + 1) \in Nat /\ Off(A) <= Off(i)
      /\ Off(i + 1) = Off(i) + D /\ D \in Nat /\ P \in Nat
  BY Offs, Lengths
<1>7. ASSUME NEW x \in 1 .. Len(s), x > h
      PROVE  s[x] = Garbled \/ (/\ s[x] = b + x - 1 /\ Off(i) <= s[x] /\ s[x] < Off(i + 1)
                                /\ s[x] \in Int)
  <2>1. s[x] = Garbled \/ s[x] = b + x - 1
    BY <1>4, <1>7
  <2>2. Off(i) <= b + x - 1 /\ b + x - 1 < Off(i + 1)
    <3>1. PICK k \in Nat : k = Skipped(r, frame)
      BY <1>2, <1>6
    <3>2. PICK o \in Nat, e \in Nat, l \in Nat : o = Off(i) /\ e = Off(i + 1) /\ l = Len(s)
      BY <1>2, <1>6
    <3>3. b + h = o + k /\ b + l = e /\ x \in 1 .. l
      BY <1>3, <1>5, <3>1, <3>2
    <3>4. PICK c \in Int, g \in Int : c = b /\ g = h
      BY <1>2, <1>3
    <3>5. x \in 1 .. l /\ x > g /\ c + g = o + k /\ c + l = e
      BY <1>7, <3>3, <3>4
    <3>6. o <= c + x - 1 /\ c + x - 1 < e
      BY <3>5
    <3>7. o <= b + x - 1 /\ b + x - 1 < e
      BY <3>4, <3>6
    <3> QED BY <3>2, <3>7
  <2> QED BY <1>3, <2>1, <2>2
<1>8. /\ \A x \in 1 .. h : Possible(Held(r)[x], Off(A))
      /\ Rising(Held(r)) /\ Marked(Held(r)) /\ Held(r) \in Seq(Int)
  BY DEF Honest, Sound, h
<1>9. ASSUME NEW x \in 1 .. Len(s), x <= h
      PROVE  /\ x \in 1 .. h /\ s[x] = Held(r)[x] /\ Possible(s[x], Off(A))
  <2>1. x \in 1 .. h
    BY <1>2, <1>9
  <2> QED BY <1>2, <1>8, <2>1
<1>10. \A x \in 1 .. Len(s) : Possible(s[x], Off(i + 1))
  <2> TAKE x \in 1 .. Len(s)
  <2>1. CASE x > h
    <3>1. s[x] = Garbled \/ (Off(i) <= s[x] /\ s[x] < Off(i + 1) /\ s[x] \in Int)
      BY <1>7, <2>1
    <3> QED BY <1>6, <3>1 DEF Possible
  <2>2. CASE x <= h
    <3>1. s[x] = Garbled \/ s[x] \in 0 .. Off(A) - 1
      BY <1>9, <2>2 DEF Possible
    <3> QED BY <1>6, <3>1 DEF Possible
  <2> QED BY <1>2, <2>1, <2>2
<1>11. Rising(s)
  <2> SUFFICES ASSUME NEW x \in 1 .. Len(s), NEW y \in 1 .. Len(s), x < y,
                      s[x] # Garbled, s[y] # Garbled
               PROVE  s[x] < s[y]
    BY DEF Rising
  <2>1. CASE y <= h
    <3>1. x <= h
      BY <1>2, <2>1
    <3>2. x \in 1 .. h /\ y \in 1 .. h /\ s[x] = Held(r)[x] /\ s[y] = Held(r)[y]
      BY <1>9, <2>1, <3>1
    <3> QED BY <1>8, <3>2 DEF Rising, h
  <2>2. CASE y > h /\ x <= h
    <3>1. s[x] \in 0 .. Off(A) - 1
      BY <1>9, <2>2 DEF Possible
    <3>2. Off(i) <= s[y] /\ s[y] \in Int
      BY <1>7, <2>2
    <3> QED BY <1>6, <3>1, <3>2, SMTT(40)
  <2>3. CASE y > h /\ x > h
    <3>1. s[x] = b + x - 1 /\ s[y] = b + y - 1
      BY <1>7, <2>3
    <3> QED BY <1>3, <3>1
  <2> QED BY <1>2, <2>1, <2>2, <2>3
<1>12. Marked(s)
  <2> SUFFICES ASSUME NEW k \in Nat, From(k) < Len(s)
               PROVE  s[From(k) + 1] = Garbled \/ Aligned(s[From(k) + 1])
    BY DEF Marked
  <2>1. From(k) \in Nat /\ k \in Int
    BY Froms
  <2>2. From(k) + 1 \in 1 .. Len(s)
    BY <1>2, <2>1
  <2>3. CASE From(k) < h
    <3>1. From(k) + 1 \in 1 .. h
      BY <1>2, <2>1, <2>3
    <3>2. s[From(k) + 1] = Held(r)[From(k) + 1]
      BY <1>2, <3>1
    <3> QED BY <1>8, <2>3, <3>2 DEF Marked, h
  <2>4. CASE From(k) >= h
    <3>1. From(k) + 1 > h
      BY <1>2, <2>1, <2>4
    <3>2. s[From(k) + 1] = Garbled \/ s[From(k) + 1] = b + (From(k) + 1) - 1
      BY <1>7, <2>2, <3>1
    <3>3. b + (From(k) + 1) - 1 = b + From(k)
      BY <1>3, <2>1
    <3>4. Aligned(b + From(k))
      BY <1>3, <2>1, Alignments
    <3> QED BY <3>2, <3>3, <3>4
  <2> QED BY <1>2, <2>1, <2>3, <2>4
<1>13. \A x \in 1 .. Len(s) : x > h /\ s[x] # Garbled => Off(A) <= s[x]
  <2> SUFFICES ASSUME NEW x \in 1 .. Len(s), x > h, s[x] # Garbled PROVE Off(A) <= s[x]
    OBVIOUS
  <2>1. Off(i) <= s[x] /\ s[x] \in Int
    BY <1>7
  <2> QED BY <1>6, <2>1
<1>14. Sound(s, Off(i + 1))
  BY <1>2, <1>10, <1>11, <1>12 DEF Sound
<1> QED BY <1>13, <1>14 DEF s, h

\* What a marker vouches for is the packet before it.
LEMMA VouchedFor ==
  ASSUME NEW s, NEW b \in Nat, Sound(s, b), NEW k \in Nat, From(k + 1) < Len(s),
         NEW packet \in Seq(Int), Len(packet) = P,
         \A j \in 1 .. P : packet[j] = s[From(k) + j],
         Vouches(s[From(k + 1) + 1], packet)
  PROVE  \E m \in Nat :
           /\ Matches(packet, m)
           /\ s[From(k + 1) + 1] = From(m + 1) /\ From(m + 1) < b
           /\ packet[P] = From(m + 1) - 1
           /\ s[From(k + 1)] = From(m + 1) - 1 /\ From(k + 1) \in 1 .. Len(s)
<1> DEFINE v == s[From(k + 1) + 1]
<1>1. /\ P \in Nat /\ 2 < P /\ From(k) \in Nat /\ From(k + 1) \in Nat
      /\ From(k + 1) = From(k) + P
  BY Lengths, Froms
<1>2. /\ s \in Seq(Int) /\ Len(s) \in Nat
      /\ \A x \in 1 .. Len(s) : s[x] = Garbled \/ s[x] \in 0 .. b - 1
      /\ v = Garbled \/ Aligned(v)
  BY SequenceType DEF Sound, Possible, Marked
<1> HIDE DEF v
<1>3. \A j \in 2 .. P : packet[j] = v - P + j - 1
  BY Lengths DEF Vouches, v
<1>4. v \in Int /\ (v = Garbled \/ v \in 0 .. b - 1)
  <2>1. From(k + 1) + 1 \in 1 .. Len(s)
    BY <1>1, <1>2, SMTT(40)
  <2>2. v = Garbled \/ v \in 0 .. b - 1
    BY <1>2, <2>1 DEF v
  <2> QED BY <2>2, GarbledType
<1>5. v - P + 2 - 1 = -1 \/ v - P + 2 - 1 >= 0
  <2>1. From(k) + 2 \in 1 .. Len(s) /\ 2 \in 1 .. P /\ 2 \in 2 .. P
    <3>1. PICK f \in Nat, e \in Nat, l \in Nat : f = From(k) /\ e = From(k + 1) /\ l = Len(s)
      BY <1>1, <1>2
    <3>2. e = f + P /\ e < l
      BY <1>1, <3>1
    <3>3. f + 2 \in 1 .. l /\ 2 \in 1 .. P /\ 2 \in 2 .. P
      BY <1>1, <3>2
    <3> QED BY <3>1, <3>3
  <2>2. packet[2] = s[From(k) + 2] /\ packet[2] = v - P + 2 - 1
    BY <1>3, <2>1
  <2>3. s[From(k) + 2] = -1 \/ s[From(k) + 2] \in 0 .. b - 1
    BY <1>2, <2>1, GarbledType
  <2> QED BY <2>2, <2>3
<1>6. v \in 0 .. b - 1 /\ v > 0 /\ v # Garbled
  BY <1>1, <1>4, <1>5, GarbledType
<1>7. PICK n \in Int : v = From(n)
  BY <1>2, <1>6 DEF Aligned
<1>8. n - 1 \in Nat /\ n = (n - 1) + 1
  <2>1. n > 0
    <3>1. n <= 0 => From(n) <= From(0)
      BY Froms
    <3>2. From(0) = 0 /\ From(n) \in Int
      BY Froms
    <3> QED BY <1>6, <1>7, <3>1, <3>2
  <2> QED BY <2>1
<1>9. PICK m \in Nat : n = m + 1
  BY <1>8
<1>10. From(m + 1) = From(m) + P /\ From(m) \in Int /\ v = From(m + 1)
  BY <1>7, <1>9, Froms
<1>11. Matches(packet, m)
  <2> SUFFICES ASSUME NEW j \in 2 .. PacketLen PROVE packet[j] = m * PacketLen + j - 1
    BY DEF Matches
  <2>1. packet[j] = v - P + j - 1
    BY <1>3, Lengths
  <2>2. packet[j] = From(m) + j - 1
    BY <1>1, <1>10, <2>1
  <2> QED BY <2>2 DEF From
<1>12. packet[P] = From(m + 1) - 1
  <2>1. P \in 2 .. P
    BY <1>1
  <2>2. packet[P] = v - P + P - 1
    BY <1>3, <2>1
  <2> QED BY <1>1, <1>4, <1>10, <2>2
<1>13. s[From(k + 1)] = packet[P]
  <2>1. P \in 1 .. P
    BY <1>1
  <2> QED BY <1>1, <2>1
<1>14. From(k + 1) \in 1 .. Len(s) /\ From(m + 1) < b
  <2>1. PICK f \in Nat, e \in Nat, l \in Nat : f = From(k) /\ e = From(k + 1) /\ l = Len(s)
    BY <1>1, <1>2
  <2>2. e = f + P /\ e < l
    BY <1>1, <2>1
  <2>3. e \in 1 .. l
    BY <1>1, <2>2
  <2>4. From(m + 1) < b
    BY <1>6, <1>10
  <2> QED BY <2>1, <2>3, <2>4
<1> QED BY <1>10, <1>11, <1>12, <1>13, <1>14 DEF v

-----------------------------------------------------------------------------
(* What has been written                                                   *)

\* Packets written: of units before b and before the genuine ones in s.
Ordered(wr, b, s) ==
  /\ wr \in Seq(Seq(Int))
  /\ \A i \in 1 .. Len(wr) : \E m \in Nat :
       Matches(wr[i], m) /\ From(m + 1) <= b /\ wr[i][P] = From(m + 1) - 1
  /\ \A i, j \in 1 .. Len(wr) : i < j => wr[i][P] < wr[j][P]
  /\ \A i \in 1 .. Len(wr) : \A x \in 1 .. Len(s) : s[x] # Garbled => wr[i][P] < s[x]

\* A frame later than all before comes after the packets written.
LEMMA OrderedStream ==
  ASSUME NEW r, NEW A \in Nat, Honest(r, A), NEW frame, NEW i \in Nat, A <= i,
         Received(frame, i), Fresh(r) \/ Continues(r, frame),
         NEW wr, Ordered(wr, Off(A), Held(r))
  PROVE  Ordered(wr, Off(i + 1), Stream(r, frame))
<1> DEFINE s == Stream(r, frame)
           h == Len(Held(r))
<1>1. Proper(r) /\ Whole(frame)
  BY DEF Honest, Received
<1>2. /\ Sound(s, Off(i + 1)) /\ s \in Seq(Int) /\ Len(s) \in Nat /\ h \in Nat
      /\ \A x \in 1 .. h : s[x] = Held(r)[x]
      /\ \A x \in 1 .. Len(s) : x > h /\ s[x] # Garbled => Off(A) <= s[x]
  BY <1>1, SoundStream, StreamType, HeldType
<1> HIDE DEF s
<1>3. Off(A) \in Nat /\ Off(i + 1) \in Nat /\ Off(A) <= Off(i + 1)
  BY Offs
<1>4. ASSUME NEW j \in 1 .. Len(wr)
      PROVE  /\ \E m \in Nat :
                  Matches(wr[j], m) /\ From(m + 1) <= Off(i + 1) /\ wr[j][P] = From(m + 1) - 1
             /\ \A x \in 1 .. Len(s) : s[x] # Garbled => wr[j][P] < s[x]
  <2>1. PICK m \in Nat : Matches(wr[j], m) /\ From(m + 1) <= Off(A) /\ wr[j][P] = From(m + 1) - 1
    BY DEF Ordered
  <2>2. From(m + 1) \in Nat
    BY FromNext
  <2>3. From(m + 1) <= Off(i + 1)
    BY <1>3, <2>1, <2>2
  <2>4. ASSUME NEW x \in 1 .. Len(s), s[x] # Garbled PROVE wr[j][P] < s[x]
    <3>1. CASE x > h
      <4>1. Off(A) <= s[x] /\ s[x] \in Int
        BY <1>2, <2>4, <3>1
      <4> QED BY <1>3, <2>1, <2>2, <4>1
    <3>2. CASE x <= h
      <4>1. x \in 1 .. h
        BY <1>2, <3>2
      <4>2. s[x] = Held(r)[x] /\ Held(r)[x] # Garbled
        BY <1>2, <2>4, <4>1
      <4> QED BY <4>1, <4>2 DEF Ordered
    <3> QED BY <1>2, <3>1, <3>2
  <2> QED BY <2>1, <2>3, <2>4
<1>5. wr \in Seq(Seq(Int)) /\ \A j, k \in 1 .. Len(wr) : j < k => wr[j][P] < wr[k][P]
  BY DEF Ordered
<1> QED BY <1>4, <1>5 DEF Ordered, s

\* The end of a sound stream, from a packet's start on.
LEMMA SoundEnd ==
  ASSUME NEW s, NEW b, Sound(s, b), NEW n \in Nat, From(n) <= Len(s),
         NEW t \in Seq(Int), Len(t) = Len(s) - From(n),
         \A x \in 1 .. Len(s) - From(n) : t[x] = s[From(n) + x]
  PROVE  Sound(t, b)
<1>1. PICK f \in Nat, l \in Nat : f = From(n) /\ l = Len(s) /\ f <= l
  BY Froms, SequenceType DEF Sound
<1>2. ASSUME NEW x \in 1 .. Len(t) PROVE f + x \in 1 .. Len(s) /\ t[x] = s[f + x] /\ x \in Int
  <2>1. x \in 1 .. l - f
    BY <1>1
  <2> QED BY <1>1, <2>1
<1>3. \A x \in 1 .. Len(t) : Possible(t[x], b)
  BY <1>2 DEF Sound
<1>4. Rising(t)
  <2> SUFFICES ASSUME NEW x \in 1 .. Len(t), NEW y \in 1 .. Len(t), x < y,
                      t[x] # Garbled, t[y] # Garbled
               PROVE  t[x] < t[y]
    BY DEF Rising
  <2>1. f + x < f + y
    BY <1>1, <1>2
  <2>2. /\ f + x \in 1 .. Len(s) /\ t[x] = s[f + x]
        /\ f + y \in 1 .. Len(s) /\ t[y] = s[f + y]
    BY <1>2
  <2> QED BY <2>1, <2>2, Zenon DEF Sound, Rising
<1>5. Marked(t)
  <2> SUFFICES ASSUME NEW k \in Nat, From(k) < Len(t)
               PROVE  t[From(k) + 1] = Garbled \/ Aligned(t[From(k) + 1])
    BY DEF Marked
  <2>1. From(k) \in Nat /\ k + n \in Nat /\ From(k + n) = From(k) + f
    <3> DEFINE p == PacketLen
    <3>1. p \in Nat
      BY Lengths
    <3> HIDE DEF p
    <3>2. (k + n) * p = k * p + n * p
      BY <3>1, SMT
    <3>3. From(k + n) = From(k) + From(n)
      BY <3>2 DEF From, p
    <3> QED BY <1>1, <3>3, Froms
  <2>2. From(k + n) < Len(s) /\ From(k) + 1 \in 1 .. Len(t)
    <3>1. PICK g \in Nat, m \in Nat : g = From(k) /\ m = Len(t) /\ m = l - f /\ g < m
      BY <1>1, <2>1, SequenceType
    <3>2. g + f < l /\ g + 1 \in 1 .. m
      BY <3>1
    <3> QED BY <1>1, <2>1, <3>1, <3>2
  <2>3. t[From(k) + 1] = s[From(k + n) + 1]
    <3>1. t[From(k) + 1] = s[f + (From(k) + 1)]
      BY <1>2, <2>2
    <3>2. f + (From(k) + 1) = From(k + n) + 1
      BY <1>1, <2>1
    <3> QED BY <3>1, <3>2
  <2> QED BY <2>1, <2>2, <2>3, Zenon DEF Sound, Marked
<1> QED BY <1>3, <1>4, <1>5 DEF Sound

\* The packets that are returned.
LEMMA PacketsOf ==
  ASSUME NEW found \in Seq(Seq(Int)), NEW n \in Nat, n <= Len(found)
  PROVE  /\ SubSeq(found, 1, n) \in Seq(Seq(Int)) /\ Len(SubSeq(found, 1, n)) = n
         /\ \A k \in 1 .. n : SubSeq(found, 1, n)[k] = found[k]
OBVIOUS

\* The packets vouched for are genuine and follow those written before.
LEMMA OrderedCut ==
  ASSUME NEW s, NEW b \in Nat, Sound(s, b), NEW wr, Ordered(wr, b, s),
         NEW w \in Nat, From(w) <= Len(s), NEW found, Cut(s, found, w),
         \A k \in 1 .. Needed(w) : Vouches(found[k + 1][1], found[k]),
         NEW t \in Seq(Int), Len(t) = Len(s) - From(Needed(w)),
         \A x \in 1 .. Len(s) - From(Needed(w)) : t[x] = s[From(Needed(w)) + x]
  PROVE  Ordered(wr \o SubSeq(found, 1, Needed(w)), b, t)
<1> DEFINE n == Needed(w)
           packets == SubSeq(found, 1, n)
           v == wr \o packets
<1>1. n \in Nat /\ n <= w /\ (n # 0 => n + 1 = w)
  BY DEF Needed
<1>2. found \in Seq(Seq(Int)) /\ Len(found) = w
  BY DEF Cut
<1>3. /\ packets \in Seq(Seq(Int)) /\ Len(packets) = n
      /\ \A k \in 1 .. n : packets[k] = found[k]
  BY <1>1, <1>2, PacketsOf
<1>4. wr \in Seq(Seq(Int)) /\ Len(wr) \in Nat
  BY DEF Ordered
<1>v. \A k \in 1 .. n : Vouches(found[k + 1][1], found[k])
  OBVIOUS
<1>t. /\ Len(t) = Len(s) - From(n)
      /\ \A x \in 1 .. Len(s) - From(n) : t[x] = s[From(n) + x]
  OBVIOUS
<1>l. Len(s) \in Nat /\ s \in Seq(Int) /\ P \in Nat /\ 2 < P
  BY SequenceType, Lengths DEF Sound
<1> HIDE DEF n, packets
<1>5. /\ v \in Seq(Seq(Int)) /\ Len(v) = Len(wr) + n
      /\ \A j \in 1 .. Len(wr) : v[j] = wr[j]
      /\ \A k \in 1 .. n : v[Len(wr) + k] = packets[k]
  BY <1>3, <1>4, ConcatenationOfPackets
<1> HIDE DEF v
<1>6. ASSUME NEW k \in 1 .. n
      PROVE  /\ \E m \in Nat :
                  /\ Matches(packets[k], m) /\ From(m + 1) < b
                  /\ packets[k][P] = From(m + 1) - 1
             /\ packets[k][P] = s[From(k)] /\ s[From(k)] \in Nat /\ s[From(k)] # Garbled
             /\ From(k) \in 1 .. Len(s) /\ From(k) <= From(n)
  <2>1. PICK i \in Nat : k = i + 1
    <3>1. k - 1 \in Nat /\ k = (k - 1) + 1
      BY <1>1
    <3> QED BY <3>1
  <2>2. /\ k \in Int /\ k < w /\ w \in Int /\ k <= n /\ n \in Int
        /\ k \in 1 .. w /\ k + 1 \in 1 .. w /\ k \in Nat
    BY <1>1
  <2>3. From(k) < Len(s) /\ From(k) <= From(n) /\ From(k) \in Nat
    <3>1. From(k) + P <= From(w) /\ From(k) <= From(n) /\ From(k) \in Nat /\ From(w) \in Nat
      BY <2>2, Froms
    <3> QED BY <1>l, <3>1
  <2>4. PICK q \in Seq(Int) : q = found[k] /\ Len(q) = P /\ \A j \in 1 .. P : q[j] = s[From(i) + j]
    <3>1. k - 1 = i
      BY <2>1
    <3> QED BY <2>2, <3>1 DEF Cut
  <2>5. found[k + 1][1] = s[From(k) + 1]
    <3>1. (k + 1) - 1 = k /\ 1 \in 1 .. P
      BY <1>l, <2>2
    <3> QED BY <2>2, <3>1 DEF Cut
  <2>6. Vouches(s[From(i + 1) + 1], q)
    BY <1>v, <2>1, <2>4, <2>5
  <2>7. From(i + 1) < Len(s)
    BY <2>1, <2>3
  <2>8. PICK m \in Nat :
           /\ Matches(q, m)
           /\ s[From(i + 1) + 1] = From(m + 1) /\ From(m + 1) < b
           /\ q[P] = From(m + 1) - 1
           /\ s[From(i + 1)] = From(m + 1) - 1 /\ From(i + 1) \in 1 .. Len(s)
    <3>1. Len(q) = P /\ \A j \in 1 .. P : q[j] = s[From(i) + j]
      BY <2>4
    <3> QED BY <2>6, <2>7, <3>1, VouchedFor
  <2>9. From(m + 1) \in Nat /\ From(m + 1) - 1 >= 0
    <3>1. From(m + 1) = From(m) + P /\ From(m) \in Nat
      BY FromNext
    <3> QED BY <1>l, <3>1
  <2>10. packets[k] = q
    BY <1>3, <2>4
  <2>11. s[From(k)] \in Nat /\ s[From(k)] # Garbled
    BY <2>1, <2>8, <2>9, GarbledType
  <2> QED BY <2>1, <2>3, <2>8, <2>10, <2>11
<1>7. ASSUME NEW k \in 1 .. n, NEW j \in 1 .. n, k < j
      PROVE  s[From(k)] < s[From(j)]
  <2>1. From(k) < From(j)
    <3>1. From(k) + P <= From(j) /\ From(k) \in Int /\ From(j) \in Int
      BY <1>7, Froms
    <3> QED BY <1>l, <3>1
  <2> QED BY <1>6, <2>1, Zenon DEF Sound, Rising
<1>8. ASSUME NEW j \in 1 .. Len(v)
      PROVE  \/ j \in 1 .. Len(wr) /\ v[j] = wr[j]
             \/ \E k \in 1 .. n : j = Len(wr) + k /\ v[j] = packets[k]
  <2>1. CASE j <= Len(wr)
    <3>1. j \in 1 .. Len(wr)
      BY <1>4, <2>1
    <3> QED BY <1>5, <3>1
  <2>2. CASE j > Len(wr)
    <3>1. j - Len(wr) \in 1 .. n /\ j = Len(wr) + (j - Len(wr))
      <4>1. PICK a \in Nat, c \in Nat : a = Len(wr) /\ c = Len(v) /\ c = a + n
        BY <1>1, <1>4, <1>5
      <4>2. j \in 1 .. c /\ j > a
        BY <2>2, <4>1
      <4>3. j - a \in 1 .. n /\ j = a + (j - a)
        BY <1>1, <4>1, <4>2
      <4> QED BY <4>1, <4>3
    <3> QED BY <1>5, <3>1
  <2>3. j \in Int
    BY <1>1, <1>4, <1>5
  <2> QED BY <1>4, <2>1, <2>2, <2>3
<1>9. ASSUME NEW j \in 1 .. Len(v)
      PROVE  \E m \in Nat : Matches(v[j], m) /\ From(m + 1) <= b /\ v[j][P] = From(m + 1) - 1
  <2>1. CASE j \in 1 .. Len(wr) /\ v[j] = wr[j]
    BY <2>1 DEF Ordered
  <2>2. ASSUME NEW k \in 1 .. n, v[j] = packets[k]
        PROVE  \E m \in Nat : Matches(v[j], m) /\ From(m + 1) <= b /\ v[j][P] = From(m + 1) - 1
    <3>1. PICK m \in Nat : Matches(packets[k], m) /\ From(m + 1) < b /\ packets[k][P] = From(m + 1) - 1
      BY <1>6
    <3>2. From(m + 1) <= b
      <4>1. From(m + 1) \in Nat
        BY FromNext
      <4> QED BY <3>1, <4>1
    <3> QED BY <2>2, <3>1, <3>2
  <2> QED BY <1>8, <2>1, <2>2
<1>10. ASSUME NEW i \in 1 .. Len(v), NEW j \in 1 .. Len(v), i < j
       PROVE  v[i][P] < v[j][P]
  <2>1. CASE j \in 1 .. Len(wr)
    <3>1. i \in 1 .. Len(wr)
      BY <1>1, <1>4, <1>5, <1>10, <2>1
    <3>2. v[i] = wr[i] /\ v[j] = wr[j]
      BY <1>5, <2>1, <3>1
    <3> QED BY <1>10, <2>1, <3>1, <3>2 DEF Ordered
  <2>2. CASE j \notin 1 .. Len(wr)
    <3>1. PICK k \in 1 .. n : j = Len(wr) + k /\ v[j] = packets[k]
      BY <1>8, <2>2
    <3>2. CASE i \in 1 .. Len(wr)
      <4>1. v[i] = wr[i]
        BY <1>5, <3>2
      <4> QED BY <1>6, <3>1, <3>2, <4>1 DEF Ordered
    <3>3. CASE i \notin 1 .. Len(wr)
      <4>1. PICK g \in 1 .. n : i = Len(wr) + g /\ v[i] = packets[g]
        BY <1>8, <3>3
      <4>2. g < k
        BY <1>1, <1>4, <1>10, <3>1, <4>1
      <4> QED BY <1>6, <1>7, <3>1, <4>1, <4>2
    <3> QED BY <3>2, <3>3
  <2> QED BY <2>1, <2>2
<1>11. ASSUME NEW j \in 1 .. Len(v), NEW x \in 1 .. Len(t), t[x] # Garbled
       PROVE  v[j][P] < t[x]
  <2>1. PICK f \in Nat, l \in Nat : f = From(n) /\ l = Len(s) /\ f <= l
    <3>1. From(n) \in Nat /\ From(w) \in Nat /\ From(n) <= From(w)
      <4>1. n \in Int /\ w \in Int
        BY <1>1
      <4> QED BY <1>1, <4>1, Froms
    <3> QED BY <1>l, <3>1
  <2>2. x \in 1 .. l - f
    BY <1>t, <2>1
  <2>3. f + x \in 1 .. Len(s) /\ t[x] = s[f + x]
    BY <1>t, <2>1, <2>2
  <2>4. CASE j \in 1 .. Len(wr)
    <3>1. v[j] = wr[j]
      BY <1>5, <2>4
    <3> QED BY <1>11, <2>3, <2>4, <3>1 DEF Ordered
  <2>5. CASE j \notin 1 .. Len(wr)
    <3>1. PICK k \in 1 .. n : j = Len(wr) + k /\ v[j] = packets[k]
      BY <1>8, <2>5
    <3>2. From(k) < f + x
      <4>1. From(k) \in Int /\ From(k) <= f
        BY <1>6, <2>1
      <4> QED BY <2>2, <4>1
    <3>3. s[From(k)] < s[f + x]
      <4>1. s[f + x] # Garbled
        BY <1>11, <2>3
      <4> QED BY <1>6, <2>3, <3>2, <4>1, Zenon DEF Sound, Rising
    <3> QED BY <1>6, <2>3, <3>1, <3>3
  <2> QED BY <2>4, <2>5
<1> QED BY <1>5, <1>9, <1>10, <1>11 DEF Ordered, v, packets, n

\* What Handle makes of the adapter and of the file.
Reassembled(r, frame) == IF RxPush(r, frame).ret = "OK" THEN RxPush(r, frame).rx ELSE RxInit

\* The state after a reset holds nothing.
LEMMA InitialState ==
  /\ Proper(RxInit) /\ Fresh(RxInit) /\ Held(RxInit) = <<>> /\ Len(Held(RxInit)) = 0
  /\ \A A : Honest(RxInit, A)
<1>1. RxInit.packet = <<>> /\ RxInit.previous = <<>>
      /\ RxInit \in [packet : Seq(Int), previous : Seq(Seq(Int))]
  BY DEF RxInit
<1>2. P \in Nat /\ 2 < P
  BY Lengths
<1>3. Proper(RxInit) /\ Fresh(RxInit) /\ Held(RxInit) = <<>>
  BY <1>1, <1>2 DEF Proper, Fresh, Held
<1>4. \A b : Sound(<<>>, b)
  <2>1. \A k \in Nat : ~(From(k) < Len(<<>>))
    <3> TAKE k \in Nat
    <3>1. From(k) \in Nat /\ Len(<<>>) = 0
      BY Froms
    <3> QED BY <3>1
  <2>2. <<>> \in Seq(Int) /\ Len(<<>>) = 0
    OBVIOUS
  <2> QED BY <2>1, <2>2 DEF Sound, Rising, Marked
<1> QED BY <1>3, <1>4 DEF Honest

\* Nothing is lost of what an order says when the adapter is emptied.
LEMMA OrderedEmptied ==
  ASSUME NEW wr, NEW b, NEW s, Ordered(wr, b, s)
  PROVE  /\ Ordered(wr, b, <<>>) /\ wr \o <<>> = wr
<1>1. wr \in Seq(Seq(Int)) /\ Len(<<>>) = 0
  BY DEF Ordered
<1> QED BY <1>1 DEF Ordered

\* A frame that is taken.
LEMMA TakenHonest ==
  ASSUME NEW r, NEW A \in Nat, Honest(r, A), NEW frame, NEW i \in Nat, A <= i,
         Received(frame, i),
         NEW wr, Ordered(wr, Off(A), Held(r)),
         RxPush(r, frame).ret = "OK"
  PROVE  /\ Honest(RxPush(r, frame).rx, i + 1)
         /\ Ordered(wr \o RxPush(r, frame).packets, Off(i + 1), Held(RxPush(r, frame).rx))
         /\ ~Fresh(RxPush(r, frame).rx)
<1> DEFINE out == RxPush(r, frame)
           s == Stream(r, frame)
           b == Off(i + 1)
           t == Held(out.rx)
<1>1. Proper(r) /\ Whole(frame) /\ Aligned(Off(i) + frame.syncd) /\ i \in Int
  BY DEF Honest, Received
<1>2. PICK found, packet : \E w \in Nat : Produces(r, frame, found, packet, w)
  BY <1>1, PushResult
<1>3. PICK w \in Nat : Produces(r, frame, found, packet, w)
  BY <1>2
<1>4. /\ From(w) <= Len(s) /\ Len(s) < From(w) + P
      /\ Cut(s, found, w)
      /\ Fresh(r) \/ Continues(r, frame)
      /\ \A k \in 1 .. Needed(w) : Vouches(found[k + 1][1], found[k])
      /\ out.packets = SubSeq(found, 1, Needed(w))
  BY <1>3 DEF Produces, Accepts
<1>5. /\ Proper(out.rx) /\ ~Fresh(out.rx)
      /\ Needed(w) \in Nat /\ From(Needed(w)) \in Nat
      /\ Len(out.rx.packet) = Len(s) - From(w)
      /\ Len(t) = Len(s) - From(Needed(w))
      /\ \A x \in 1 .. Len(s) - From(Needed(w)) : t[x] = s[From(Needed(w)) + x]
  BY <1>1, <1>3, HeldAfter
<1>6. Sound(s, b)
  BY <1>4, SoundStream
<1>7. Ordered(wr, b, s)
  BY <1>4, OrderedStream
<1>8. t \in Seq(Int) /\ b \in Nat
  <2>1. t \in Seq(Int)
    BY <1>5, HeldType
  <2>2. i + 1 \in Nat
    OBVIOUS
  <2> QED BY <2>1, <2>2, Offs
<1>9. From(Needed(w)) <= Len(s)
  <2>1. Needed(w) \in Int /\ w \in Int /\ Needed(w) <= w
    BY DEF Needed
  <2>2. From(Needed(w)) <= From(w) /\ From(w) \in Int
    BY <2>1, Froms
  <2>3. Len(s) \in Nat
    BY <1>1, StreamType
  <2> QED BY <1>4, <1>5, <2>2, <2>3
<1>10. /\ Origin(r, frame, i) \in Int /\ Aligned(Origin(r, frame, i))
       /\ Origin(r, frame, i) + Len(s) = b
  BY <1>1, <1>4, OriginAligned
<1>s. Len(s) \in Nat
  BY <1>1, StreamType
<1> HIDE DEF out, s, b, t
<1>11. Sound(t, b)
  BY <1>5, <1>6, <1>8, <1>9, SoundEnd
<1>12. Ordered(wr \o out.packets, b, t)
  BY <1>4, <1>5, <1>6, <1>7, <1>8, OrderedCut
<1>13. Aligned(b - Len(out.rx.packet))
  <2>1. PICK g \in Int, l \in Nat, f \in Nat : g = Origin(r, frame, i) /\ l = Len(s) /\ f = From(w)
    BY <1>s, <1>10, Froms
  <2>2. b - Len(out.rx.packet) = g + f
    <3>1. Len(out.rx.packet) = l - f /\ b = g + l
      BY <1>5, <1>10, <2>1
    <3> QED BY <3>1
  <2>3. Aligned(g + From(w))
    BY <1>10, <2>1, Alignments
  <2> QED BY <2>1, <2>2, <2>3
<1> QED BY <1>5, <1>11, <1>12, <1>13 DEF Honest, out, b, t

\* A frame that comes a second time does not fit what was kept of it.
LEMMA RepeatRejected ==
  ASSUME NEW r, NEW i \in Nat, Honest(r, i + 1), ~Fresh(r), NEW frame, Received(frame, i)
  PROVE  RxPush(r, frame).ret # "OK"
<1>1. Proper(r) /\ Whole(frame) /\ Aligned(Off(i) + frame.syncd) /\ i \in Int
  BY DEF Honest, Received
<1>2. ~Continues(r, frame)
  <2> SUFFICES ASSUME Continues(r, frame) PROVE FALSE
    OBVIOUS
  <2>1. Aligned(Off(i) - Len(r.packet))
    BY <1>1, OriginAligned
  <2>2. Aligned(Off(i + 1) - Len(r.packet))
    BY DEF Honest
  <2>3. PICK o \in Int, l \in Int : o = Off(i) /\ l = Len(r.packet) /\ Off(i + 1) = o + D
    <3>1. Off(i) \in Int /\ Off(i + 1) = Off(i) + D /\ Len(r.packet) \in Int
      <4>1. Len(r.packet) \in Nat
        BY <1>1, HeldType
      <4> QED BY <1>1, <4>1, Offs
    <3> QED BY <3>1
  <2>4. Aligned((o + D - l) - (o - l))
    <3>1. o + D - l \in Int /\ o - l \in Int
      BY <2>3, Lengths
    <3>2. Aligned(o + D - l) /\ Aligned(o - l)
      <4>1. o + D - l = Off(i + 1) - Len(r.packet) /\ o - l = Off(i) - Len(r.packet)
        BY <2>3, Lengths
      <4> QED BY <2>1, <2>2, <4>1, Zenon
    <3> QED BY <3>1, <3>2, Alignments
  <2>5. (o + D - l) - (o - l) = D
    BY Lengths
  <2> QED BY <2>4, <2>5, NoWholeNumber
<1> QED BY <1>1, <1>2, PushResult DEF Produces, Accepts

\* Handle keeps the adapter honest and the file genuine.
LEMMA HandleHonest ==
  ASSUME NEW r, NEW A \in Nat, Honest(r, A), NEW frame, NEW i \in Nat,
         Received(frame, i), A <= i \/ (A = i + 1 /\ ~Fresh(r)),
         NEW wr, Ordered(wr, Off(A), Held(r))
  PROVE  \E C \in {A, i + 1} :
           /\ Honest(Reassembled(r, frame), C)
           /\ Ordered(wr \o RxPush(r, frame).packets, Off(C), Held(Reassembled(r, frame)))
           /\ Fresh(Reassembled(r, frame)) => C = A
<1>1. Proper(r) /\ Whole(frame)
  BY DEF Honest, Received
<1>2. CASE RxPush(r, frame).ret = "OK"
  <2>1. A <= i
    BY <1>2, RepeatRejected
  <2>2. Reassembled(r, frame) = RxPush(r, frame).rx
    BY <1>2 DEF Reassembled
  <2> QED BY <1>2, <2>1, <2>2, TakenHonest
<1>3. CASE RxPush(r, frame).ret # "OK"
  <2>1. Reassembled(r, frame) = RxInit
    BY <1>3 DEF Reassembled
  <2>2. RxPush(r, frame).packets = <<>>
    BY <1>1, <1>3, PushResult DEF Produces
  <2>3. Ordered(wr \o RxPush(r, frame).packets, Off(A), <<>>)
    BY <2>2, OrderedEmptied
  <2> QED BY <2>1, <2>3, InitialState
<1> QED BY <1>2, <1>3

-----------------------------------------------------------------------------
(* The sender                                                              *)

\* Frame i as the sender makes it.
Undamaged(frame, i) ==
  /\ Whole(frame) /\ Aligned(Off(i) + frame.syncd)
  /\ \A j \in 1 .. D : frame.field[j] = Off(i) + j - 1

\* The sender's adapter when n data fields have been filled.
Building(t, n) ==
  /\ t \in [data : Seq(Int), syncd : 0 .. P - 1] /\ Len(t.data) < D
  /\ \A j \in 1 .. Len(t.data) : t.data[j] = Off(n) + j - 1
  /\ Aligned(Off(n) + t.syncd)

\* The first part of a sequence.
LEMMA Beginning ==
  ASSUME NEW s \in Seq(Int), NEW n \in Nat, n <= Len(s)
  PROVE  /\ SubSeq(s, 1, n) \in Seq(Int) /\ Len(SubSeq(s, 1, n)) = n
         /\ \A i \in 1 .. n : SubSeq(s, 1, n)[i] = s[i]
OBVIOUS

\* dvbs2x_ts_tx_push adds the next packet, and may fill the data field.
LEMMA PushSender ==
  ASSUME NEW t, NEW n \in Nat, Building(t, n),
         NEW k \in Nat, From(k) = Off(n) + Len(t.data)
  PROVE  LET out == TxPush(t, k)
         IN \/ /\ out.frame = NoFrame /\ Len(out.frame.field) = 0
               /\ Building(out.tx, n) /\ From(k + 1) = Off(n) + Len(out.tx.data)
            \/ /\ out.frame # NoFrame /\ Len(out.frame.field) = D
               /\ Len(out.tx.data) < P
               /\ Undamaged(out.frame, n)
               /\ Building(out.tx, n + 1) /\ From(k + 1) = Off(n + 1) + Len(out.tx.data)
<1> DEFINE q == Packet(k)
           bits == t.data \o q
           out == TxPush(t, k)
<1>1. /\ t.data \in Seq(Int) /\ Len(t.data) \in Nat /\ t.syncd \in 0 .. P - 1
      /\ Len(t.data) < D /\ t = [data |-> t.data, syncd |-> t.syncd]
  BY SequenceType DEF Building
<1>2. /\ P \in Nat /\ D \in Nat /\ P < D /\ 2 < P
      /\ Off(n) \in Nat /\ Off(n + 1) = Off(n) + D
      /\ From(k) \in Nat /\ From(k + 1) = From(k) + P
  <2>1. n \in Int
    OBVIOUS
  <2> QED BY <2>1, Lengths, Offs, FromNext
<1>3. q \in Seq(Int) /\ Len(q) = P /\ \A j \in 1 .. P : q[j] = From(k) + j - 1
  <2>1. q = [j \in 1 .. P |-> From(k) + j - 1]
    BY DEF Packet, P, From
  <2>2. \A j \in 1 .. P : From(k) + j - 1 \in Int
    BY <1>2
  <2> HIDE DEF q
  <2> QED BY <1>2, <2>1, <2>2
<1> HIDE DEF q
<1>4. /\ bits \in Seq(Int) /\ Len(bits) = Len(t.data) + P
      /\ \A j \in 1 .. Len(t.data) : bits[j] = t.data[j]
      /\ \A j \in 1 .. P : bits[Len(t.data) + j] = q[j]
  BY <1>1, <1>3, Concatenation
<1>5. out = IF Len(bits) < D THEN Kept(t, bits) ELSE Filled(t, bits, Len(bits) - D)
  BY DEF TxPush, D, q
<1> HIDE DEF bits, out
<1>n. PICK l \in Nat, o \in Nat : l = Len(t.data) /\ o = Off(n) /\ Len(bits) = l + P
  BY <1>1, <1>2, <1>4
<1>6. ASSUME NEW j \in 1 .. Len(bits) PROVE bits[j] = o + j - 1 /\ j \in Int
  <2>0. j \in 1 .. l + P
    BY <1>n
  <2>1. CASE j <= l
    <3>1. j \in 1 .. Len(t.data)
      BY <1>n, <2>0, <2>1
    <3> QED BY <1>4, <1>n, <3>1 DEF Building
  <2>2. CASE j > l
    <3>1. PICK x \in 1 .. P : j = l + x
      <4>1. j - l \in 1 .. P /\ j = l + (j - l)
        BY <1>2, <2>0, <2>2
      <4> QED BY <4>1
    <3>2. bits[j] = From(k) + x - 1
      BY <1>3, <1>4, <1>n, <3>1
    <3>3. From(k) = o + l
      BY <1>n
    <3>4. From(k) + x - 1 = o + j - 1
      BY <3>1, <3>3
    <3> QED BY <3>1, <3>2, <3>4
  <2> QED BY <2>0, <2>1, <2>2
<1>7. From(k + 1) = o + Len(bits)
  BY <1>2, <1>n
<1>8. CASE Len(bits) < D
  <2>1. out = [tx |-> [t EXCEPT !.data = bits], frame |-> NoFrame]
    BY <1>5, <1>8 DEF Kept
  <2>2. out.tx = [data |-> bits, syncd |-> t.syncd] /\ out.frame = NoFrame
    BY <1>1, <2>1
  <2>3. out.tx.data = bits /\ out.tx.syncd = t.syncd
    BY <2>2
  <2>4. Len(out.frame.field) = 0
    BY <2>2 DEF NoFrame
  <2>5. Building(out.tx, n)
    <3>1. out.tx \in [data : Seq(Int), syncd : 0 .. P - 1]
      BY <1>1, <1>4, <2>2
    <3>2. \A j \in 1 .. Len(bits) : bits[j] = Off(n) + j - 1
      BY <1>6, <1>n
    <3>3. Aligned(Off(n) + t.syncd)
      BY DEF Building
    <3> QED BY <1>8, <2>3, <3>1, <3>2, <3>3 DEF Building
  <2>6. From(k + 1) = Off(n) + Len(out.tx.data)
    BY <1>7, <1>n, <2>3
  <2> QED BY <2>2, <2>4, <2>5, <2>6 DEF out
<1>9. CASE ~(Len(bits) < D)
  <2> DEFINE f == SubSeq(bits, 1, D)
             g == SubSeq(bits, D + 1, Len(bits))
  <2>0. l + P >= D /\ l < D
    BY <1>1, <1>2, <1>9, <1>n
  <2>1. /\ f \in Seq(Int) /\ Len(f) = D /\ \A j \in 1 .. D : f[j] = bits[j] /\ j \in 1 .. Len(bits)
    <3>1. D <= Len(bits)
      BY <1>n, <2>0
    <3>2. f \in Seq(Int) /\ Len(f) = D /\ \A j \in 1 .. D : f[j] = bits[j]
      BY <1>2, <1>4, <3>1, Beginning
    <3>3. ASSUME NEW j \in 1 .. D PROVE j \in 1 .. Len(bits)
      <4>1. j \in 1 .. l + P
        BY <1>2, <2>0
      <4> QED BY <1>n, <4>1
    <3> QED BY <3>2, <3>3
  <2>2. /\ g \in Seq(Int) /\ Len(g) = l + P - D
        /\ \A j \in 1 .. l + P - D : g[j] = bits[D + j]
    <3>1. PICK e \in Nat : e = Len(bits) /\ e = l + P /\ D <= e /\ e <= Len(bits)
      BY <1>2, <1>n, <2>0
    <3>2. /\ SubSeq(bits, D + 1, e) \in Seq(Int) /\ Len(SubSeq(bits, D + 1, e)) = e - D
          /\ \A j \in 1 .. e - D : SubSeq(bits, D + 1, e)[j] = bits[D + j]
      BY <1>2, <1>4, <3>1, Subsequence
    <3>3. e - D = l + P - D
      BY <1>2, <3>1
    <3>4. g = SubSeq(bits, D + 1, e)
      BY <3>1
    <3> QED BY <3>2, <3>3, <3>4, Zenon
  <2>3. out = [tx |-> [data |-> g, syncd |-> Len(bits) - D],
               frame |-> [syncd |-> t.syncd, field |-> f]]
    BY <1>5, <1>9 DEF Filled, D
  <2> HIDE DEF f, g
  <2>4. /\ out.tx.data = g /\ out.tx.syncd = l + P - D
        /\ out.tx = [data |-> g, syncd |-> l + P - D]
        /\ out.frame = [syncd |-> t.syncd, field |-> f]
        /\ out.frame.syncd = t.syncd /\ out.frame.field = f
    <3>1. Len(bits) - D = l + P - D
      BY <1>2, <1>n
    <3> QED BY <2>3, <3>1, Zenon
  <2>5. out.frame # NoFrame
    <3>1. Len(NoFrame.field) = 0
      BY DEF NoFrame
    <3> QED BY <1>2, <2>1, <2>4, <3>1
  <2>6. Undamaged(out.frame, n)
    <3>1. Whole(out.frame)
      BY <1>1, <2>1, <2>4 DEF Whole
    <3>2. \A j \in 1 .. D : f[j] = Off(n) + j - 1
      BY <1>6, <1>n, <2>1
    <3>3. Aligned(Off(n) + t.syncd)
      BY DEF Building
    <3> QED BY <2>4, <3>1, <3>2, <3>3 DEF Undamaged
  <2>7. From(k + 1) = Off(n + 1) + (l + P - D)
    BY <1>2, <1>7, <1>n
  <2>8. Building(out.tx, n + 1)
    <3>1. l + P - D \in 0 .. P - 1 /\ l + P - D < D
      BY <1>2, <2>0
    <3>2. out.tx \in [data : Seq(Int), syncd : 0 .. P - 1]
      BY <2>2, <2>4, <3>1
    <3>3. ASSUME NEW j \in 1 .. l + P - D PROVE g[j] = Off(n + 1) + j - 1
      <4>1. D + j \in 1 .. Len(bits)
        BY <1>2, <1>n, <2>0
      <4>2. bits[D + j] = o + (D + j) - 1
        BY <1>6, <4>1
      <4>3. o + (D + j) - 1 = Off(n + 1) + j - 1
        BY <1>2, <1>n
      <4> QED BY <2>2, <4>2, <4>3
    <3>4. Aligned(Off(n + 1) + (l + P - D))
      <4>1. k + 1 \in Int
        OBVIOUS
      <4> QED BY <2>7, <4>1, Alignments
    <3> QED BY <2>2, <2>4, <3>1, <3>2, <3>3, <3>4 DEF Building
  <2>9. From(k + 1) = Off(n + 1) + Len(out.tx.data)
    BY <2>2, <2>4, <2>7
  <2>10. Len(out.tx.data) < P
    <3>1. l + P - D < P
      BY <1>2, <2>0
    <3> QED BY <2>2, <2>4, <3>1
  <2> QED BY <2>1, <2>4, <2>5, <2>6, <2>8, <2>9, <2>10 DEF out
<1> QED BY <1>8, <1>9

\* What becomes of a frame on the link.
Outcomes == {"ok", "garbled", "header", "lost"}

\* Data fields given to the radio, and filled.
Transmitted == Len(fates) + Len(air) - (IF repeated THEN 1 ELSE 0)

\* A frame is full that the radio has not had.
Pending == sender = "send" \/ (sender = "tail" /\ frame_len # 0 /\ pushed > length)

\* Data fields filled.
Full == IF Pending THEN Transmitted + 1 ELSE Transmitted

\* On the air is the last frame that was transmitted.
OnAir == \/ air = <<>>
         \/ /\ \E frame : air = <<frame>> /\ Undamaged(frame, Transmitted - 1)
            /\ Transmitted > 0

\* The sender's adapter goes on where the last data field ended.
Adapter ==
  /\ Building(tx, Full) /\ From(pushed) = Off(Full) + Len(tx.data)
  /\ Full # 0 => Undamaged(bbframe, Full - 1)
  /\ frame_len # 0 => Full # 0 /\ Len(tx.data) < P

\* Where the sender's program is.
Place ==
  /\ sender \in {"read", "send", "tail", "flush", "done"}
  /\ sender = "send" => frame_len # 0
  /\ sender \in {"read", "send"} => pushed <= length
  /\ sender = "tail" => pushed >= length
  /\ repeated => sender \in {"flush", "done"}
  /\ sender \in {"flush", "done"} /\ ~repeated => From(length) <= Off(Full)
  /\ receiver = "done" => sender = "done" /\ air = <<>>

\* The types of the counters.
Numbers ==
  /\ length \in Nat /\ pushed \in Nat /\ frame_len \in Nat
  /\ fates \in Seq(Outcomes) /\ repeated \in BOOLEAN /\ Transmitted \in Nat

\* The invariant of the sender and the link.
SenderInv == Numbers /\ OnAir /\ Adapter /\ Place

\* The invariant of the sender and the link holds at the start.
LEMMA SenderInitially == Init => SenderInv
<1> SUFFICES ASSUME Init PROVE SenderInv
  OBVIOUS
<1>1. /\ sender = "read" /\ length \in Nat /\ pushed = 0 /\ tx = TxInit
      /\ frame_len = 0 /\ air = <<>> /\ fates = <<>> /\ repeated = FALSE
      /\ receiver = "running"
  BY LinkAssumption DEF Init
<1>2. Transmitted = 0 /\ ~Pending /\ Full = 0
  BY <1>1 DEF Transmitted, Pending, Full
<1>3. Numbers
  <2>1. <<>> \in Seq(Outcomes)
    OBVIOUS
  <2> QED BY <1>1, <1>2, <2>1 DEF Numbers
<1>4. Adapter
  <2>1. P \in Nat /\ D \in Nat /\ P < D /\ 2 < P /\ From(0) = 0 /\ Off(0) = 0
    BY Lengths, Froms, Offs
  <2>2. Aligned(0)
    <3>1. Aligned(From(0))
      BY Alignments
    <3> QED BY <2>1, <3>1
  <2>3. Building(TxInit, 0)
    <3>1. TxInit.data = <<>> /\ TxInit.syncd = 0 /\ Len(<<>>) = 0 /\ <<>> \in Seq(Int)
      BY DEF TxInit
    <3>2. TxInit \in [data : Seq(Int), syncd : 0 .. P - 1]
      BY <2>1, <3>1 DEF TxInit
    <3>3. Aligned(Off(0) + TxInit.syncd)
      <4>1. Off(0) + TxInit.syncd = 0
        BY <2>1, <3>1
      <4> QED BY <2>2, <4>1
    <3> QED BY <2>1, <3>1, <3>2, <3>3 DEF Building
  <2>4. From(pushed) = Off(Full) + Len(tx.data)
    <3>1. Len(tx.data) = 0
      BY <1>1 DEF TxInit
    <3> QED BY <1>1, <1>2, <2>1, <3>1
  <2> QED BY <1>1, <1>2, <2>3, <2>4 DEF Adapter
<1>5. Place
  BY <1>1 DEF Place
<1> QED BY <1>1, <1>3, <1>4, <1>5 DEF SenderInv, OnAir

\* Nothing of the sender depends on a step that changes none of its parts.
LEMMA SenderUntouched ==
  ASSUME SenderInv, txVars' = txVars, repeated' = repeated, air' = air, fates' = fates,
         receiver' = receiver
  PROVE  SenderInv' /\ Transmitted' = Transmitted /\ Full' = Full
<1>1. /\ sender' = sender /\ length' = length /\ pushed' = pushed /\ tx' = tx
      /\ bbframe' = bbframe /\ frame_len' = frame_len
  BY DEF txVars
<1>2. Transmitted' = Transmitted /\ Pending' = Pending
  BY <1>1 DEF Transmitted, Pending
<1>3. Full' = Full
  BY <1>2 DEF Full
<1>4. Numbers' /\ OnAir' /\ Adapter' /\ Place'
  BY <1>1, <1>2, <1>3 DEF SenderInv, Numbers, OnAir, Adapter, Place
<1> QED BY <1>2, <1>3, <1>4 DEF SenderInv

\* The link takes a frame from the air.
LEMMA SenderFated ==
  ASSUME SenderInv, NEW fate \in Outcomes, Fated(fate)
  PROVE  /\ SenderInv'
         /\ Transmitted' = Transmitted /\ Full' = Full /\ Transmitted > 0
         /\ \E frame : air = <<frame>> /\ Undamaged(frame, Transmitted - 1)
         /\ Len(fates') = Len(fates) + 1 /\ Len(fates) \in Nat
         /\ \A g \in 1 .. Len(fates) : fates'[g] = fates[g]
         /\ fates'[Len(fates) + 1] = fate
         /\ Transmitted = IF repeated THEN Len(fates) ELSE Len(fates) + 1
<1>1. /\ sender' = sender /\ length' = length /\ pushed' = pushed /\ tx' = tx
      /\ bbframe' = bbframe /\ frame_len' = frame_len /\ repeated' = repeated
      /\ receiver' = receiver /\ receiver = "running"
      /\ air # <<>> /\ air' = <<>> /\ fates' = Append(fates, fate)
  BY DEF Fated, txVars
<1>2. PICK frame : air = <<frame>> /\ Undamaged(frame, Transmitted - 1) /\ Transmitted > 0
  BY <1>1 DEF SenderInv, OnAir
<1>3. Len(air) = 1 /\ Len(air') = 0
  BY <1>1, <1>2
<1>4. fates \in Seq(Outcomes)
  BY DEF SenderInv, Numbers
<1>5. /\ fates' \in Seq(Outcomes) /\ Len(fates') = Len(fates) + 1 /\ Len(fates) \in Nat
      /\ \A g \in 1 .. Len(fates) : fates'[g] = fates[g]
      /\ fates'[Len(fates) + 1] = fate
  BY <1>1, <1>4
<1>6. Transmitted' = Transmitted
  BY <1>1, <1>3, <1>5 DEF Transmitted
<1>7. Pending' = Pending /\ Full' = Full
  BY <1>1, <1>6 DEF Pending, Full
<1>8. Numbers' /\ OnAir' /\ Adapter' /\ Place'
  BY <1>1, <1>5, <1>6, <1>7 DEF SenderInv, Numbers, OnAir, Adapter, Place
<1>9. Transmitted = IF repeated THEN Len(fates) ELSE Len(fates) + 1
  BY <1>3, <1>5 DEF Transmitted
<1> QED BY <1>2, <1>5, <1>6, <1>7, <1>8, <1>9 DEF SenderInv

\* Data fields of which the receiver's adapter has had a copy.
Handled == IF repeated THEN Transmitted ELSE Len(fates)

\* What a step of the sender keeps.
SenderKeeps ==
  /\ SenderInv' /\ Handled' = Handled
  /\ repeated /\ air = <<>> => repeated' /\ air' = <<>>
  /\ repeated => repeated'
  /\ pushed' \in Nat /\ pushed <= pushed' /\ length' = length

\* With nothing on the air, the receiver has met every frame.
LEMMA Quiet ==
  ASSUME SenderInv, ~repeated, air = <<>>
  PROVE  Transmitted = Len(fates) /\ Handled = Len(fates) /\ Len(fates) \in Nat
<1>1. fates \in Seq(Outcomes) /\ Len(air) = 0
  BY DEF SenderInv, Numbers
<1> QED BY <1>1 DEF Transmitted, Handled

\* What these numbers are when no frame was sent a second time.
LEMMA NotRepeated ==
  ASSUME SenderInv, ~repeated
  PROVE  Transmitted = Len(fates) + Len(air) /\ Handled = Len(fates) /\ Len(fates) \in Nat
         /\ Len(air) \in {0, 1}
<1>1. fates \in Seq(Outcomes)
      /\ repeated \in BOOLEAN
  BY DEF SenderInv, Numbers
<1>2. Len(air) \in {0, 1}
  BY DEF SenderInv, OnAir
<1> QED BY <1>1, <1>2 DEF Transmitted, Handled

\* Another packet goes into the adapter.
LEMMA PushKeeps ==
  ASSUME SenderInv, ~Pending, Push, fates' = fates, air' = air, repeated' = repeated,
         frame_len' = 0 => ~Pending',
         frame_len' # 0 => Pending'
  PROVE  /\ Adapter' /\ OnAir'
         /\ pushed' = pushed + 1 /\ pushed' \in Nat /\ frame_len' \in Nat
         /\ Transmitted' = Transmitted
<1>1. Transmitted' = Transmitted /\ Full = Transmitted /\ Transmitted \in Nat
  BY DEF Transmitted, Full, SenderInv, Numbers
<1>2. OnAir'
  BY <1>1 DEF SenderInv, OnAir, Numbers
<1>3. Building(tx, Transmitted) /\ pushed \in Nat /\ From(pushed) = Off(Transmitted) + Len(tx.data)
  BY <1>1 DEF SenderInv, Adapter, Numbers
<1> DEFINE out == TxPush(tx, pushed)
<1>4. /\ tx' = out.tx /\ pushed' = pushed + 1 /\ frame_len' = Len(out.frame.field)
      /\ bbframe' = IF out.frame = NoFrame THEN bbframe ELSE out.frame
  BY DEF Push
<1>5. \/ /\ out.frame = NoFrame /\ Len(out.frame.field) = 0
         /\ Building(out.tx, Transmitted) /\ From(pushed + 1) = Off(Transmitted) + Len(out.tx.data)
      \/ /\ out.frame # NoFrame /\ Len(out.frame.field) = D
         /\ Len(out.tx.data) < P
         /\ Undamaged(out.frame, Transmitted)
         /\ Building(out.tx, Transmitted + 1) /\ From(pushed + 1) = Off(Transmitted + 1) + Len(out.tx.data)
  BY <1>1, <1>3, PushSender
<1> HIDE DEF out
<1>6. CASE /\ out.frame = NoFrame /\ Len(out.frame.field) = 0
           /\ Building(out.tx, Transmitted) /\ From(pushed + 1) = Off(Transmitted) + Len(out.tx.data)
  <2>1. frame_len' = 0 /\ ~Pending' /\ Full' = Transmitted /\ bbframe' = bbframe
    BY <1>1, <1>4, <1>6 DEF Full
  <2>2. Adapter'
    BY <1>1, <1>4, <1>6, <2>1 DEF SenderInv, Adapter
  <2> QED BY <1>1, <1>2, <1>3, <1>4, <2>1, <2>2
<1>7. CASE /\ out.frame # NoFrame /\ Len(out.frame.field) = D
           /\ Len(out.tx.data) < P
           /\ Undamaged(out.frame, Transmitted)
           /\ Building(out.tx, Transmitted + 1) /\ From(pushed + 1) = Off(Transmitted + 1) + Len(out.tx.data)
  <2>0. D \in Nat /\ P \in Nat /\ P < D
    BY Lengths
  <2>1. frame_len' # 0 /\ frame_len' \in Nat /\ bbframe' = out.frame
    BY <1>4, <1>7, <2>0
  <2>2. Pending' /\ Full' = Transmitted + 1 /\ Full' # 0 /\ Full' - 1 = Transmitted
    BY <1>1, <2>1 DEF Full
  <2>3. Adapter'
    BY <1>1, <1>4, <1>7, <2>1, <2>2 DEF Adapter
  <2> QED BY <1>1, <1>2, <1>3, <1>4, <2>1, <2>3
<1> QED BY <1>5, <1>6, <1>7

\* The steps of the sender keep its invariant: a packet of the file,
LEMMA ReadPacketKeeps == SenderInv /\ ReadPacket => SenderKeeps
<1> SUFFICES ASSUME SenderInv, ReadPacket PROVE SenderKeeps
  OBVIOUS
<1>1. /\ sender = "read" /\ pushed < length /\ Push
      /\ sender' = (IF frame_len' = 0 THEN "read" ELSE "send")
      /\ length' = length /\ air' = air /\ fates' = fates /\ repeated' = repeated
      /\ receiver' = receiver
  BY DEF ReadPacket, rxVars
<1>2. ~Pending /\ ~repeated /\ receiver # "done"
  BY <1>1 DEF Pending, SenderInv, Place
<1>3. (frame_len' = 0 => ~Pending') /\ (frame_len' # 0 => Pending')
  BY <1>1 DEF Pending
<1>4. /\ Adapter' /\ OnAir' /\ pushed' = pushed + 1 /\ pushed' \in Nat /\ frame_len' \in Nat
      /\ Transmitted' = Transmitted
  BY <1>1, <1>2, <1>3, PushKeeps
<1>5. /\ length \in Nat /\ pushed \in Nat /\ Transmitted \in Nat /\ fates \in Seq(Outcomes)
      /\ repeated \in BOOLEAN
  BY DEF SenderInv, Numbers
<1>6. Place'
  BY <1>1, <1>2, <1>4, <1>5 DEF Place
<1>7. Numbers' /\ Handled' = Handled
  BY <1>1, <1>2, <1>4, <1>5 DEF Numbers, Handled
<1> QED BY <1>1, <1>2, <1>4, <1>5, <1>6, <1>7 DEF SenderKeeps, SenderInv

\* a null packet,
LEMMA PadTailKeeps == SenderInv /\ PadTail => SenderKeeps
<1> SUFFICES ASSUME SenderInv, PadTail PROVE SenderKeeps
  OBVIOUS
<1>1. /\ sender = "tail" /\ frame_len = 0 /\ Push /\ sender' = sender
      /\ length' = length /\ air' = air /\ fates' = fates /\ repeated' = repeated
      /\ receiver' = receiver
  BY DEF PadTail, rxVars
<1>2. ~Pending /\ ~repeated /\ receiver # "done" /\ pushed >= length
  BY <1>1 DEF Pending, SenderInv, Place
<1>5. /\ length \in Nat /\ pushed \in Nat /\ Transmitted \in Nat /\ fates \in Seq(Outcomes)
      /\ repeated \in BOOLEAN
  BY DEF SenderInv, Numbers
<1>3. (frame_len' = 0 => ~Pending') /\ (frame_len' # 0 => Pending')
  <2>1. pushed' = pushed + 1
    BY <1>1 DEF Push
  <2>2. pushed' > length'
    BY <1>1, <1>2, <1>5, <2>1
  <2> QED BY <1>1, <2>2 DEF Pending
<1>4. /\ Adapter' /\ OnAir' /\ pushed' = pushed + 1 /\ pushed' \in Nat /\ frame_len' \in Nat
      /\ Transmitted' = Transmitted
  BY <1>1, <1>2, <1>3, PushKeeps
<1>6. Place'
  BY <1>1, <1>2, <1>4, <1>5 DEF Place
<1>7. Numbers' /\ Handled' = Handled
  BY <1>1, <1>2, <1>4, <1>5 DEF Numbers, Handled
<1> QED BY <1>1, <1>2, <1>4, <1>5, <1>6, <1>7 DEF SenderKeeps, SenderInv

\* a frame given to the radio,
LEMMA SendKeeps == SenderInv /\ Send => SenderKeeps
<1> SUFFICES ASSUME SenderInv, Send PROVE SenderKeeps
  OBVIOUS
<1>1. /\ sender = "send" /\ air = <<>> /\ air' = <<bbframe>> /\ sender' = "read"
      /\ length' = length /\ pushed' = pushed /\ tx' = tx /\ bbframe' = bbframe
      /\ frame_len' = frame_len /\ fates' = fates /\ repeated' = repeated /\ receiver' = receiver
  BY DEF Send, Transmit, rxVars
<1>2. ~repeated /\ receiver # "done" /\ frame_len # 0 /\ pushed <= length
  BY <1>1 DEF SenderInv, Place
<1>5. /\ length \in Nat /\ pushed \in Nat /\ Transmitted \in Nat /\ fates \in Seq(Outcomes)
      /\ repeated \in BOOLEAN
  BY DEF SenderInv, Numbers
<1>3. Transmitted = Len(fates) /\ Handled = Len(fates) /\ Len(fates) \in Nat
  BY <1>1, <1>2, Quiet
<1>4. Pending /\ ~Pending' /\ Transmitted' = Transmitted + 1 /\ Full = Transmitted + 1
      /\ Full' = Full
  <2>1. Len(air') = 1
    BY <1>1
  <2>2. Pending /\ ~Pending'
    BY <1>1 DEF Pending
  <2>3. Transmitted' = Transmitted + 1
    BY <1>1, <1>2, <1>3, <2>1 DEF Transmitted
  <2> QED BY <2>2, <2>3 DEF Full
<1>6. Undamaged(bbframe, Transmitted)
  <2>1. Full # 0 /\ Full - 1 = Transmitted
    BY <1>4, <1>5
  <2> QED BY <2>1 DEF SenderInv, Adapter
<1>7. OnAir'
  <2>1. Transmitted' - 1 = Transmitted /\ Transmitted' > 0
    BY <1>4, <1>5
  <2> QED BY <1>1, <1>6, <2>1 DEF OnAir
<1>8. Adapter'
  BY <1>1, <1>4 DEF SenderInv, Adapter
<1>9. Place'
  BY <1>1, <1>2, <1>5 DEF Place
<1>10. Numbers' /\ Handled' = Handled
  BY <1>1, <1>2, <1>3, <1>4, <1>5 DEF SenderInv, Numbers, Handled
<1> QED BY <1>1, <1>2, <1>5, <1>7, <1>8, <1>9, <1>10 DEF SenderKeeps, SenderInv

\* the end of the file,
LEMMA EndOfFileKeeps == SenderInv /\ EndOfFile => SenderKeeps
<1> SUFFICES ASSUME SenderInv, EndOfFile PROVE SenderKeeps
  OBVIOUS
<1>1. /\ sender = "read" /\ pushed = length
      /\ sender' = (IF tx.data = <<>> THEN "flush" ELSE "tail")
      /\ length' = length /\ pushed' = pushed /\ tx' = tx /\ bbframe' = bbframe
      /\ air' = air
      /\ frame_len' = frame_len /\ fates' = fates /\ repeated' = repeated /\ receiver' = receiver
  BY DEF EndOfFile, rxVars
<1>2. ~repeated /\ receiver # "done"
  BY <1>1 DEF SenderInv, Place
<1>3. /\ length \in Nat /\ pushed \in Nat /\ Transmitted \in Nat /\ fates \in Seq(Outcomes)
      /\ repeated \in BOOLEAN
  BY DEF SenderInv, Numbers
<1>4. ~Pending /\ ~Pending' /\ Transmitted' = Transmitted /\ Full = Transmitted /\ Full' = Full
  <2>1. ~(pushed > length)
    BY <1>1, <1>3
  <2>2. ~Pending /\ ~Pending' /\ Transmitted' = Transmitted
    BY <1>1, <2>1 DEF Pending, Transmitted
  <2> QED BY <2>2 DEF Full
<1>5. Numbers' /\ OnAir' /\ Adapter' /\ Handled' = Handled
  BY <1>1, <1>4 DEF SenderInv, Numbers, OnAir, Adapter, Handled
<1>6. tx.data = <<>> => From(length) <= Off(Full)
  <2> SUFFICES ASSUME tx.data = <<>> PROVE From(length) <= Off(Full)
    OBVIOUS
  <2>1. From(pushed) = Off(Full) + 0
    BY DEF SenderInv, Adapter
  <2>2. Off(Full) \in Nat
    BY <1>3, <1>4, Offs
  <2> QED BY <1>1, <2>1, <2>2
<1>7. Place'
  BY <1>1, <1>2, <1>3, <1>4, <1>6 DEF Place
<1> QED BY <1>1, <1>2, <1>3, <1>5, <1>7 DEF SenderKeeps, SenderInv

\* the end of the program,
LEMMA FlushKeeps == SenderInv /\ Flush => SenderKeeps
<1> SUFFICES ASSUME SenderInv, Flush PROVE SenderKeeps
  OBVIOUS
<1>1. /\ sender = "flush" /\ air = <<>> /\ sender' = "done"
      /\ length' = length /\ pushed' = pushed /\ tx' = tx /\ bbframe' = bbframe
      /\ air' = air
      /\ frame_len' = frame_len /\ fates' = fates /\ repeated' = repeated /\ receiver' = receiver
  BY DEF Flush, rxVars
<1>2. Transmitted' = Transmitted /\ Full' = Full
  <2>1. ~Pending /\ ~Pending' /\ Transmitted' = Transmitted
    BY <1>1 DEF Pending, Transmitted
  <2> QED BY <2>1 DEF Full
<1>3. Numbers' /\ OnAir' /\ Adapter' /\ Handled' = Handled
  BY <1>1, <1>2 DEF SenderInv, Numbers, OnAir, Adapter, Handled
<1>4. Place'
  BY <1>1, <1>2 DEF SenderInv, Place
<1>5. length \in Nat /\ pushed \in Nat
  BY DEF SenderInv, Numbers
<1> QED BY <1>1, <1>3, <1>4, <1>5 DEF SenderKeeps, SenderInv

\* and the last frame, which may be one that the radio has had.
LEMMA SendTailKeeps == SenderInv /\ SendTail => SenderKeeps
<1> SUFFICES ASSUME SenderInv, SendTail PROVE SenderKeeps
  OBVIOUS
<1>1. /\ sender = "tail" /\ frame_len # 0 /\ air = <<>> /\ air' = <<bbframe>> /\ sender' = "flush"
      /\ length' = length /\ pushed' = pushed /\ tx' = tx /\ bbframe' = bbframe
      /\ frame_len' = frame_len /\ fates' = fates /\ receiver' = receiver
  BY DEF SendTail, Transmit, rxVars
<1>r. /\ pushed = length => repeated' = TRUE
      /\ pushed # length => repeated' = FALSE
  <2>1. repeated' = (pushed = length)
    BY DEF SendTail
  <2> QED BY <2>1, Zenon
<1>2. ~repeated /\ receiver # "done" /\ pushed >= length
  BY <1>1 DEF SenderInv, Place
<1>3. /\ length \in Nat /\ pushed \in Nat /\ Transmitted \in Nat /\ fates \in Seq(Outcomes)
      /\ frame_len \in Nat
  BY DEF SenderInv, Numbers
<1>4. Transmitted = Len(fates) /\ Handled = Len(fates) /\ Len(fates) \in Nat
  BY <1>1, <1>2, Quiet
<1>5. Full # 0 /\ Undamaged(bbframe, Full - 1) /\ Len(tx.data) < P
  BY <1>1 DEF SenderInv, Adapter
<1>6. Full' = Full /\ Full' = Transmitted' /\ Transmitted' \in Nat
  <2>1. ~Pending' /\ Len(air') = 1
    BY <1>1 DEF Pending
  <2>2. CASE pushed = length
    <3>1. ~Pending /\ repeated'
      BY <1>1, <1>r, <1>3, <2>2 DEF Pending
    <3>2. Transmitted' = Transmitted
      BY <1>1, <1>4, <2>1, <3>1 DEF Transmitted
    <3> QED BY <1>3, <2>1, <3>1, <3>2 DEF Full
  <2>3. CASE pushed # length
    <3>1. Pending /\ ~repeated'
      <4>1. pushed > length
        BY <1>2, <1>3, <2>3
      <4> QED BY <1>1, <1>r, <2>3, <4>1 DEF Pending
    <3>2. Transmitted' = Transmitted + 1
      BY <1>1, <1>4, <2>1, <3>1 DEF Transmitted
    <3> QED BY <1>3, <2>1, <3>1, <3>2 DEF Full
  <2> QED BY <2>2, <2>3
<1>7. OnAir'
  <2>1. Transmitted' > 0 /\ Transmitted' - 1 = Full - 1
    BY <1>5, <1>6
  <2> QED BY <1>1, <1>5, <2>1 DEF OnAir
<1>8. Adapter'
  BY <1>1, <1>6 DEF SenderInv, Adapter
<1>9. ~repeated' => From(length) <= Off(Full')
  <2> SUFFICES ASSUME ~repeated' PROVE From(length) <= Off(Full')
    OBVIOUS
  <2>1. pushed > length
    BY <1>r, <1>2, <1>3
  <2>2. From(length) + P <= From(pushed)
    <3>1. length \in Int /\ pushed \in Int /\ length < pushed
      BY <1>3, <2>1
    <3> QED BY <3>1, Froms
  <2>3. From(pushed) = Off(Full) + Len(tx.data)
    BY DEF SenderInv, Adapter
  <2>4. From(length) \in Nat /\ Off(Full) \in Nat /\ P \in Nat /\ Len(tx.data) \in Nat
    <3>1. Len(tx.data) \in Nat
      BY SequenceType DEF SenderInv, Adapter, Building
    <3>2. Full \in Nat
      BY <1>6
    <3> QED BY <1>3, <3>1, <3>2, Froms, Offs, Lengths
  <2>5. From(length) <= Off(Full)
    BY <1>5, <2>2, <2>3, <2>4
  <2> QED BY <1>6, <2>5
<1>10. Place'
  BY <1>1, <1>2, <1>9 DEF Place
<1>11. Numbers'
  BY <1>1, <1>r, <1>3, <1>6 DEF Numbers
<1>12. Handled' = Handled
  <2>1. CASE repeated'
    <3>1. pushed = length /\ Len(air') = 1
      BY <1>1, <1>r, <2>1
    <3>2. Transmitted' = Len(fates)
      BY <1>1, <1>4, <2>1, <3>1 DEF Transmitted
    <3> QED BY <1>4, <2>1, <3>2 DEF Handled
  <2>2. CASE ~repeated'
    BY <1>1, <1>4, <2>2 DEF Handled
  <2> QED BY <2>1, <2>2
<1> QED BY <1>1, <1>2, <1>3, <1>7, <1>8, <1>10, <1>11, <1>12 DEF SenderKeeps, SenderInv

\* All of them.
LEMMA SenderStep == SenderInv /\ Sender => SenderKeeps
BY ReadPacketKeeps, SendKeeps, EndOfFileKeeps, PadTailKeeps, SendTailKeeps, FlushKeeps DEF Sender

\* The receiver is stopped.
LEMMA FinalizeKeeps ==
  ASSUME SenderInv, Finalize
  PROVE  SenderInv' /\ sender = "done" /\ air = <<>> /\ receiver = "running"
         /\ Handled' = Handled /\ Full' = Full
<1>1. /\ receiver = "running" /\ sender = "done" /\ air = <<>> /\ receiver' = "done"
      /\ sender' = sender /\ length' = length /\ pushed' = pushed /\ tx' = tx
      /\ bbframe' = bbframe /\ frame_len' = frame_len
      /\ air' = air /\ fates' = fates /\ repeated' = repeated
  BY DEF Finalize, txVars
<1>2. Transmitted' = Transmitted /\ Pending' = Pending
  BY <1>1 DEF Transmitted, Pending
<1>3. Full' = Full /\ Handled' = Handled
  BY <1>1, <1>2 DEF Full, Handled
<1>4. Numbers' /\ OnAir' /\ Adapter' /\ Place'
  BY <1>1, <1>2, <1>3 DEF SenderInv, Numbers, OnAir, Adapter, Place
<1> QED BY <1>1, <1>3, <1>4 DEF SenderInv

-----------------------------------------------------------------------------
(* The receiver: only genuine packets                                      *)

\* The adapter has had frames up to some A, and no more than came; a frame that is
\* sent a second time finds it empty or at odds with SYNCD.
ReceiverInv ==
  \E A \in Nat :
    /\ A <= Handled /\ Honest(rx, A) /\ Ordered(written, Off(A), Held(rx))
    /\ Fresh(rx) => \/ A < Handled \/ Handled = 0
                    \/ repeated /\ air = <<>>
                    \/ receiver = "done"

\* What the link delivers, damaged or not.
LEMMA Delivery ==
  ASSUME NEW frame, NEW i \in Nat, Undamaged(frame, i)
  PROVE  /\ Received(frame, i)
         /\ \A u \in 1 .. FieldLen :
              Received([frame EXCEPT !.field = [@ EXCEPT ![u] = Garbled]], i)
<1>1. /\ frame \in [syncd : 0 .. P - 1, field : Seq(Int)] /\ Len(frame.field) = D
      /\ Aligned(Off(i) + frame.syncd)
      /\ \A j \in 1 .. D : frame.field[j] = Off(i) + j - 1
  BY DEF Undamaged, Whole
<1>2. Received(frame, i)
  BY <1>1 DEF Received, Whole
<1>3. ASSUME NEW u \in 1 .. FieldLen
      PROVE  Received([frame EXCEPT !.field = [@ EXCEPT ![u] = Garbled]], i)
  <2> DEFINE f == frame.field
             h == [f EXCEPT ![u] = Garbled]
             g == [frame EXCEPT !.field = [@ EXCEPT ![u] = Garbled]]
  <2>1. g.syncd = frame.syncd /\ g.field = h /\ g = [syncd |-> frame.syncd, field |-> h]
    <3>1. frame = [syncd |-> frame.syncd, field |-> f]
      BY <1>1
    <3>2. g = [frame EXCEPT !.field = h]
      OBVIOUS
    <3> HIDE DEF g, h
    <3>3. g = [syncd |-> frame.syncd, field |-> h]
      BY <3>1, <3>2
    <3> QED BY <3>3
  <2>2. h \in Seq(Int) /\ Len(h) = D /\ \A j \in 1 .. D : h[j] = Garbled \/ h[j] = f[j]
    <3>1. f \in Seq(Int) /\ Len(f) = D /\ u \in 1 .. Len(f)
      BY <1>1, Lengths
    <3> HIDE DEF f
    <3> QED BY <3>1, GarbledType
  <2> HIDE DEF g, h
  <2>3. Whole(g)
    BY <1>1, <2>1, <2>2 DEF Whole
  <2>4. Received(g, i)
    BY <1>1, <2>1, <2>2, <2>3 DEF Received
  <2> QED BY <2>4 DEF g
<1> QED BY <1>2, <1>3

\* What a step of the link does to the number of frames the receiver has had.
LEMMA HandledFated ==
  ASSUME SenderInv, NEW fate \in Outcomes, Fated(fate)
  PROVE  \E i \in Nat :
           /\ i = Transmitted - 1 /\ Handled' = i + 1
           /\ Handled = IF repeated THEN i + 1 ELSE i
           /\ ~repeated => i = Len(fates)
           /\ air # <<>> /\ Undamaged(air[1], i) /\ receiver = "running"
           /\ repeated' = repeated /\ air' = <<>> /\ receiver' = receiver
<1>1. /\ Transmitted' = Transmitted /\ Transmitted > 0 /\ Len(fates) \in Nat
      /\ \E frame : air = <<frame>> /\ Undamaged(frame, Transmitted - 1)
      /\ Len(fates') = Len(fates) + 1
      /\ Transmitted = IF repeated THEN Len(fates) ELSE Len(fates) + 1
  BY SenderFated
<1>2. /\ repeated' = repeated /\ air' = <<>> /\ receiver' = receiver /\ air # <<>>
      /\ receiver = "running"
  BY DEF Fated
<1>3. PICK i \in Nat : i = Transmitted - 1 /\ Transmitted = i + 1
  <2>1. Transmitted - 1 \in Nat /\ Transmitted = (Transmitted - 1) + 1
    BY <1>1
  <2> QED BY <2>1
<1>4. Handled = (IF repeated THEN i + 1 ELSE i) /\ (~repeated => i = Len(fates))
  BY <1>1, <1>3 DEF Handled
<1>5. Handled' = i + 1
  BY <1>1, <1>2, <1>3 DEF Handled
<1>6. air # <<>> /\ Undamaged(air[1], i)
  BY <1>1, <1>2, <1>3
<1> QED BY <1>2, <1>3, <1>4, <1>5, <1>6

\* A frame is handled.
LEMMA ReceiverHandles ==
  ASSUME SenderInv, ReceiverInv, NEW fate \in Outcomes, Fated(fate),
         NEW frame, \A i \in Nat : Undamaged(air[1], i) => Received(frame, i),
         Handle(frame)
  PROVE  ReceiverInv'
<1>1. PICK i \in Nat :
           /\ i = Transmitted - 1 /\ Handled' = i + 1
           /\ Handled = IF repeated THEN i + 1 ELSE i
           /\ ~repeated => i = Len(fates)
           /\ air # <<>> /\ Undamaged(air[1], i) /\ receiver = "running"
           /\ repeated' = repeated /\ air' = <<>> /\ receiver' = receiver
  BY HandledFated
<1>2. PICK A \in Nat :
        /\ A <= Handled /\ Honest(rx, A) /\ Ordered(written, Off(A), Held(rx))
        /\ Fresh(rx) => \/ A < Handled \/ Handled = 0
                        \/ repeated /\ air = <<>>
                        \/ receiver = "done"
  BY DEF ReceiverInv
<1>3. Received(frame, i)
  BY <1>1
<1>4. A <= i \/ (A = i + 1 /\ ~Fresh(rx))
  BY <1>1, <1>2
<1>5. rx' = Reassembled(rx, frame) /\ written' = written \o RxPush(rx, frame).packets
  BY DEF Handle, Reassembled
<1>6. PICK C \in {A, i + 1} :
           /\ Honest(rx', C)
           /\ Ordered(written', Off(C), Held(rx'))
           /\ Fresh(rx') => C = A
  BY <1>2, <1>3, <1>4, <1>5, HandleHonest
<1>7. C \in Nat /\ C <= Handled'
  BY <1>1, <1>4
<1>8. Fresh(rx') => C < Handled' \/ (repeated' /\ air' = <<>>)
  BY <1>1, <1>2, <1>6
<1> QED BY <1>6, <1>7, <1>8 DEF ReceiverInv

\* Or it is not, and the adapter perhaps emptied.
LEMMA ReceiverSkips ==
  ASSUME SenderInv, ReceiverInv, NEW fate \in Outcomes, Fated(fate),
         rx' \in {rx, RxInit}, written' = written
  PROVE  ReceiverInv'
<1>1. PICK i \in Nat :
           /\ i = Transmitted - 1 /\ Handled' = i + 1
           /\ Handled = IF repeated THEN i + 1 ELSE i
           /\ ~repeated => i = Len(fates)
           /\ air # <<>> /\ Undamaged(air[1], i) /\ receiver = "running"
           /\ repeated' = repeated /\ air' = <<>> /\ receiver' = receiver
  BY HandledFated
<1>2. PICK A \in Nat :
        /\ A <= Handled /\ Honest(rx, A) /\ Ordered(written, Off(A), Held(rx))
  BY DEF ReceiverInv
<1>3. Honest(rx', A) /\ Ordered(written', Off(A), Held(rx'))
  BY <1>2, InitialState, OrderedEmptied
<1>4. A <= Handled'
  BY <1>1, <1>2
<1>5. A < Handled' \/ (repeated' /\ air' = <<>>)
  BY <1>1, <1>2
<1> QED BY <1>3, <1>4, <1>5 DEF ReceiverInv

\* What WrittenGenuine rests on.
GenuineInv == SenderInv /\ ReceiverInv

\* GenuineInv holds at the start.
LEMMA GenuineInitially == Init => GenuineInv
<1> SUFFICES ASSUME Init PROVE GenuineInv
  OBVIOUS
<1>1. SenderInv
  BY SenderInitially
<1>2. rx = RxInit /\ written = <<>> /\ fates = <<>> /\ repeated = FALSE
  BY DEF Init
<1>3. Handled = 0
  BY <1>2 DEF Handled
<1>4. Ordered(<<>>, Off(0), <<>>)
  <2>1. <<>> \in Seq(Seq(Int)) /\ Len(<<>>) = 0
    OBVIOUS
  <2> QED BY <2>1 DEF Ordered
<1>5. Honest(rx, 0) /\ Ordered(written, Off(0), Held(rx))
  BY <1>2, <1>4, InitialState
<1> QED BY <1>1, <1>3, <1>5 DEF GenuineInv, ReceiverInv

\* GenuineInv is inductive.
LEMMA GenuineStep == GenuineInv /\ [Next]_vars => GenuineInv'
<1> SUFFICES ASSUME SenderInv, ReceiverInv, [Next]_vars PROVE SenderInv' /\ ReceiverInv'
  BY DEF GenuineInv
<1>1. CASE Sender
  <2>1. SenderKeeps
    BY <1>1, SenderStep
  <2>2. rx' = rx /\ written' = written /\ receiver' = receiver
    BY <1>1 DEF Sender, ReadPacket, Send, EndOfFile, PadTail, SendTail, Flush, rxVars
  <2>3. ReceiverInv'
    <3>1. PICK A \in Nat :
            /\ A <= Handled /\ Honest(rx, A) /\ Ordered(written, Off(A), Held(rx))
            /\ Fresh(rx) => \/ A < Handled \/ Handled = 0
                            \/ repeated /\ air = <<>>
                            \/ receiver = "done"
      BY DEF ReceiverInv
    <3> QED BY <2>1, <2>2, <3>1, Zenon DEF SenderKeeps, ReceiverInv
  <2> QED BY <2>1, <2>3 DEF SenderKeeps
<1>2. CASE Receive
  <2>1. PICK fate, frame :
           /\ fate \in Outcomes /\ Fated(fate) /\ Handle(frame)
           /\ \A i \in Nat : Undamaged(air[1], i) => Received(frame, i)
    <3>1. Fated("ok") /\ Handle(air[1]) /\ "ok" \in Outcomes
      BY <1>2 DEF Receive, Outcomes
    <3>2. \A i \in Nat : Undamaged(air[1], i) => Received(air[1], i)
      BY Delivery
    <3> QED BY <3>1, <3>2
  <2>2. SenderInv'
    BY <2>1, SenderFated
  <2>3. ReceiverInv'
    BY <2>1, ReceiverHandles
  <2> QED BY <2>2, <2>3
<1>3. CASE ReceiveGarbled
  <2>1. PICK fate, frame :
           /\ fate \in Outcomes /\ Fated(fate) /\ Handle(frame)
           /\ \A i \in Nat : Undamaged(air[1], i) => Received(frame, i)
    <3>1. Fated("garbled") /\ "garbled" \in Outcomes
      BY <1>3 DEF ReceiveGarbled, Outcomes
    <3>2. PICK u \in 1 .. FieldLen :
            Handle([air[1] EXCEPT !.field = [@ EXCEPT ![u] = Garbled]])
      BY <1>3 DEF ReceiveGarbled
    <3>3. \A i \in Nat :
            Undamaged(air[1], i) =>
              Received([air[1] EXCEPT !.field = [@ EXCEPT ![u] = Garbled]], i)
      BY Delivery
    <3> QED BY <3>1, <3>2, <3>3
  <2>2. SenderInv'
    BY <2>1, SenderFated
  <2>3. ReceiverInv'
    BY <2>1, ReceiverHandles
  <2> QED BY <2>2, <2>3
<1>4. CASE ReceiveBadHeader \/ Lose
  <2>1. PICK fate \in Outcomes : Fated(fate)
    <3>1. Fated("header") \/ Fated("lost")
      BY <1>4 DEF ReceiveBadHeader, Lose
    <3>2. "header" \in Outcomes /\ "lost" \in Outcomes
      BY DEF Outcomes
    <3> QED BY <3>1, <3>2
  <2>2. rx' \in {rx, RxInit} /\ written' = written
    BY <1>4 DEF ReceiveBadHeader, Lose
  <2> QED BY <2>1, <2>2, SenderFated, ReceiverSkips
<1>5. CASE Finalize
  <2>1. SenderInv' /\ Handled' = Handled
    BY <1>5, FinalizeKeeps
  <2>2. rx' = RxInit /\ written' = written /\ receiver' = "done"
    BY <1>5 DEF Finalize
  <2>3. ReceiverInv'
    <3>1. PICK A \in Nat : A <= Handled /\ Ordered(written, Off(A), Held(rx))
      BY DEF ReceiverInv
    <3>2. Honest(rx', A) /\ Ordered(written', Off(A), Held(rx'))
      BY <2>2, <3>1, InitialState, OrderedEmptied
    <3> QED BY <2>1, <2>2, <3>1, <3>2 DEF ReceiverInv
  <2> QED BY <2>1, <2>3
<1>6. CASE UNCHANGED vars
  <2>1. /\ txVars' = txVars /\ repeated' = repeated /\ air' = air /\ fates' = fates
        /\ receiver' = receiver /\ rx' = rx /\ written' = written
    BY <1>6 DEF vars, rxVars
  <2>2. SenderInv' /\ Transmitted' = Transmitted
    BY <2>1, SenderUntouched
  <2>3. Handled' = Handled
    BY <2>1, <2>2 DEF Handled
  <2> QED BY <2>1, <2>2, <2>3 DEF ReceiverInv
<1> QED BY <1>1, <1>2, <1>3, <1>4, <1>5, <1>6 DEF Next

\* It says what WrittenGenuine does.
LEMMA GenuineImplies == GenuineInv => WrittenGenuine
<1> SUFFICES ASSUME SenderInv, ReceiverInv PROVE WrittenGenuine
  BY DEF GenuineInv
<1>1. PICK A \in Nat : A <= Handled /\ Ordered(written, Off(A), Held(rx))
  BY DEF ReceiverInv
<1>2. A <= Full /\ Full \in Nat
  <2>1. Transmitted \in Nat /\ Handled <= Transmitted /\ Handled \in Nat
    <3>1. CASE repeated
      BY <3>1 DEF Handled, SenderInv, Numbers
    <3>2. CASE ~repeated
      BY <3>2, NotRepeated
    <3> QED BY <3>1, <3>2
  <2>2. Full \in {Transmitted, Transmitted + 1}
    BY DEF Full
  <2> QED BY <1>1, <2>1, <2>2
<1>3. Off(A) <= From(pushed) /\ From(pushed) \in Nat /\ pushed \in Nat
  <2>1. From(pushed) = Off(Full) + Len(tx.data) /\ Len(tx.data) \in Nat /\ pushed \in Nat
    BY SequenceType DEF SenderInv, Adapter, Building, Numbers
  <2>3. From(pushed) \in Nat
    BY <2>1, Froms
  <2>2. Off(A) <= Off(Full) /\ Off(A) \in Nat /\ Off(Full) \in Nat
    <3>1. A \in Int /\ Full \in Int /\ A \in Nat /\ Full \in Nat
      BY <1>2
    <3>2. Off(A) \in Nat /\ Off(Full) \in Nat
      BY <3>1, Offs
    <3> QED BY <1>2, <3>1, <3>2, Offs
  <2> QED BY <2>1, <2>2, <2>3
<1>4. ASSUME NEW i \in 1 .. Len(written)
      PROVE  \E k \in 0 .. pushed - 1 : Matches(written[i], k)
  <2>1. PICK m \in Nat : Matches(written[i], m) /\ From(m + 1) <= Off(A)
    BY <1>1 DEF Ordered
  <2>2. m + 1 <= pushed
    <3>1. ~(pushed < m + 1)
      <4>1. pushed < m + 1 => From(pushed) + P <= From(m + 1)
        <5>1. m + 1 \in Int /\ pushed \in Int
          BY <1>3
        <5> QED BY <5>1, Froms
      <4>2. From(m + 1) \in Nat /\ Off(A) \in Nat /\ P \in Nat /\ 2 < P
        BY FromNext, Offs, Lengths
      <4> QED BY <1>3, <2>1, <4>1, <4>2
    <3> QED BY <1>3, <3>1
  <2>3. m \in 0 .. pushed - 1
    BY <1>3, <2>2
  <2> QED BY <2>1, <2>3
<1>5. \A i, j \in 1 .. Len(written) :
        i < j => written[i][PacketLen] < written[j][PacketLen]
  BY <1>1 DEF Ordered, P
<1> QED BY <1>4, <1>5 DEF WrittenGenuine

\* GenuineInv holds in every state.
LEMMA GenuineInvariant == Spec => []GenuineInv
<1> QED BY GenuineInitially, GenuineStep, PTL DEF Spec

\* WrittenGenuine: every packet that process_bbframe writes under a CRC is one the
\* sender pushed, whole, in order and once, whatever the link loses or damages.
THEOREM OnlyGenuineWritten == Spec => []WrittenGenuine
<1> QED BY GenuineInvariant, GenuineImplies, PTL

-----------------------------------------------------------------------------
(* An adapter in order                                                     *)

\* Units that are genuine, without a gap, and end before b.
Contiguous(s, b) ==
  s \in Seq(Int) /\ \A x \in 1 .. Len(s) : s[x] = b - Len(s) + x - 1

\* All, or only the packet not yet complete, is so and begins where it should.
Clean(r, b) ==
  Proper(r) /\ Contiguous(Held(r), b) /\ (~Fresh(r) => Aligned(b - Len(r.packet)))

Nearly(r, b) ==
  Proper(r) /\ Contiguous(r.packet, b) /\ (~Fresh(r) => Aligned(b - Len(r.packet)))

\* From position c on, the units of s are those from o on.
Genuine(s, c, o) == \A x \in 1 .. Len(s) : x > c => s[x] = o + x - 1

\* The end of a stream that is genuine from position c on.
LEMMA EndContiguous ==
  ASSUME NEW s \in Seq(Int), NEW c \in Nat, NEW n \in Nat, c <= n, n <= Len(s),
         NEW o \in Int, Genuine(s, c, o),
         NEW t \in Seq(Int), Len(t) = Len(s) - n,
         \A x \in 1 .. Len(s) - n : t[x] = s[n + x]
  PROVE  Contiguous(t, o + Len(s))
<1>1. PICK l \in Nat : l = Len(s)
  BY SequenceType
<1> SUFFICES ASSUME NEW x \in 1 .. Len(t) PROVE t[x] = o + Len(s) - Len(t) + x - 1
  BY DEF Contiguous
<1>2. x \in 1 .. l - n /\ Len(t) = l - n
  BY <1>1
<1>3. t[x] = s[n + x] /\ n + x \in 1 .. Len(s) /\ n + x > c
  BY <1>1, <1>2
<1>4. s[n + x] = o + (n + x) - 1
  BY <1>3 DEF Genuine
<1>5. o + (n + x) - 1 = o + l - (l - n) + x - 1
  BY <1>2
<1> QED BY <1>1, <1>2, <1>3, <1>4, <1>5

\* An empty adapter is in order anywhere.
LEMMA EmptyIsClean ==
  \A b : Clean(RxInit, b) /\ Nearly(RxInit, b)
<1> TAKE b
<1>1. Proper(RxInit) /\ Fresh(RxInit) /\ Held(RxInit) = <<>>
  BY InitialState
<1>2. RxInit.packet = <<>> /\ <<>> \in Seq(Int) /\ Len(<<>>) = 0
  BY DEF RxInit
<1>3. Contiguous(<<>>, b)
  BY <1>2 DEF Contiguous
<1> QED BY <1>1, <1>2, <1>3 DEF Clean, Nearly

\* An undamaged frame is one that FEC may return.
LEMMA UndamagedReceived ==
  ASSUME NEW frame, NEW i \in Nat, Undamaged(frame, i)
  PROVE  Received(frame, i) /\ Whole(frame) /\ Aligned(Off(i) + frame.syncd)
BY DEF Undamaged, Received

\* The units that came with an undamaged frame.
LEMMA UndamagedUnits ==
  ASSUME NEW r, Proper(r), NEW frame, NEW i \in Nat, Undamaged(frame, i)
  PROVE  Genuine(Stream(r, frame), Len(Held(r)), Origin(r, frame, i))
<1> DEFINE s == Stream(r, frame)
<1>1. Received(frame, i) /\ Whole(frame) /\ i \in Int
  BY UndamagedReceived
<1>2. /\ Len(s) = Len(Held(r)) + D - Skipped(r, frame) /\ Len(s) \in Nat
      /\ \A x \in 1 .. D - Skipped(r, frame) :
           s[Len(Held(r)) + x] = frame.field[Skipped(r, frame) + x]
      /\ Skipped(r, frame) \in 0 .. P - 1
      /\ Len(Held(r)) \in Nat
  BY <1>1, StreamType, HeldType
<1>3. \A x \in 1 .. Len(s) :
        x > Len(Held(r)) => s[x] = Garbled \/ s[x] = Origin(r, frame, i) + x - 1
  BY <1>1, NewUnits
<1> HIDE DEF s
<1>4. PICK k \in Nat, h \in Nat, l \in Nat :
        k = Skipped(r, frame) /\ h = Len(Held(r)) /\ l = Len(s) /\ l = h + D - k
  BY <1>2, Lengths
<1>5. D \in Nat /\ Off(i) \in Nat
  BY Lengths, Offs
<1>6. ASSUME NEW x \in 1 .. Len(s), x > Len(Held(r)) PROVE s[x] # Garbled
  <2>1. PICK y \in 1 .. D - k : x = h + y
    <3>1. x - h \in 1 .. D - k /\ x = h + (x - h)
      BY <1>4, <1>5, <1>6
    <3> QED BY <3>1
  <2>2. s[x] = frame.field[k + y] /\ k + y \in 1 .. D
    BY <1>2, <1>4, <1>5, <2>1
  <2>3. frame.field[k + y] = Off(i) + (k + y) - 1
    BY <2>2 DEF Undamaged
  <2>4. Off(i) + (k + y) - 1 >= 0 /\ Off(i) + (k + y) - 1 \in Int
    BY <1>5, <2>1
  <2> QED BY <2>2, <2>3, <2>4, GarbledType
<1> QED BY <1>3, <1>6 DEF s, Genuine

\* What is kept of a frame that was taken is genuine as far as the stream was.
LEMMA TakenContiguous ==
  ASSUME NEW r, Proper(r), NEW frame, NEW i \in Nat, Undamaged(frame, i),
         NEW found, NEW packet, NEW w \in Nat, Produces(r, frame, found, packet, w),
         RxPush(r, frame).ret = "OK",
         NEW c \in Nat, Genuine(Stream(r, frame), c, Origin(r, frame, i))
  PROVE  LET after == RxPush(r, frame).rx
         IN /\ Proper(after) /\ ~Fresh(after)
            /\ Aligned(Off(i + 1) - Len(after.packet))
            /\ c <= From(w) => Nearly(after, Off(i + 1))
            /\ c <= From(Needed(w)) => Clean(after, Off(i + 1))
<1> DEFINE after == RxPush(r, frame).rx
           s == Stream(r, frame)
           o == Origin(r, frame, i)
           n == From(Needed(w))
<1>1. Received(frame, i) /\ Whole(frame) /\ Aligned(Off(i) + frame.syncd) /\ i \in Int
  BY UndamagedReceived
<1>2. /\ From(w) <= Len(s) /\ Rest(s, packet, w)
      /\ after.packet = packet /\ (Fresh(r) \/ Continues(r, frame))
  BY DEF Produces, Accepts
<1>3. /\ Proper(after) /\ ~Fresh(after)
      /\ n \in Nat /\ Needed(w) \in Nat
      /\ Len(after.packet) = Len(s) - From(w)
      /\ Len(Held(after)) = Len(s) - n
      /\ \A x \in 1 .. Len(s) - n : Held(after)[x] = s[n + x]
  BY <1>1, HeldAfter
<1>4. o \in Int /\ Aligned(o) /\ o + Len(s) = Off(i + 1)
  BY <1>1, <1>2, OriginAligned
<1>5. s \in Seq(Int) /\ Len(s) \in Nat
  BY <1>1, StreamType
<1>6. Held(after) \in Seq(Int)
  BY <1>3, HeldType
<1>7. Genuine(s, c, o)
  OBVIOUS
<1> HIDE DEF s, o, after, n
<1>8. From(w) \in Nat /\ w \in Int
  BY Froms
<1>9. Aligned(Off(i + 1) - Len(after.packet))
  <2>1. PICK f \in Nat, l \in Nat : f = From(w) /\ l = Len(s)
    BY <1>5, <1>8
  <2>2. Off(i + 1) - Len(after.packet) = o + f
    <3>1. Off(i + 1) = o + l /\ Len(after.packet) = l - f
      BY <1>3, <1>4, <2>1
    <3> QED BY <1>4, <3>1
  <2>3. Aligned(o + From(w))
    BY <1>4, <1>8, Alignments
  <2> QED BY <2>1, <2>2, <2>3
<1>10. ASSUME c <= From(w) PROVE Nearly(after, Off(i + 1))
  <2>1. /\ packet \in Seq(Int) /\ Len(packet) = Len(s) - From(w)
        /\ \A j \in 1 .. Len(s) - From(w) : packet[j] = s[From(w) + j]
    BY <1>2 DEF Rest
  <2>2. Contiguous(packet, o + Len(s))
    BY <1>2, <1>4, <1>5, <1>7, <1>8, <1>10, <2>1, EndContiguous
  <2> QED BY <1>2, <1>3, <1>4, <1>9, <2>2 DEF Nearly
<1>11. ASSUME c <= n PROVE Clean(after, Off(i + 1))
  <2>1. n <= Len(s)
    <3>1. Needed(w) <= w /\ Needed(w) \in Int
      BY DEF Needed
    <3>2. n <= From(w)
      BY <1>8, <3>1, Froms DEF n
    <3> QED BY <1>2, <1>3, <1>5, <1>8, <3>2
  <2>2. Contiguous(Held(after), o + Len(s))
    BY <1>3, <1>4, <1>5, <1>6, <1>7, <1>11, <2>1, EndContiguous
  <2> QED BY <1>3, <1>4, <1>9, <2>2 DEF Clean
<1> QED BY <1>3, <1>9, <1>10, <1>11 DEF after, n

\* Long data fields: what is kept of a frame that was taken came with it.
LEMMA AfterUndamaged ==
  ASSUME NEW r, Proper(r), NEW frame, NEW i \in Nat, Undamaged(frame, i)
  PROVE  /\ Nearly(Reassembled(r, frame), Off(i + 1))
         /\ 2 * P <= D + 1 => Clean(Reassembled(r, frame), Off(i + 1))
<1>1. Whole(frame)
  BY UndamagedReceived
<1>2. CASE RxPush(r, frame).ret # "OK"
  <2>1. Reassembled(r, frame) = RxInit
    BY <1>2 DEF Reassembled
  <2> QED BY <2>1, EmptyIsClean
<1>3. CASE RxPush(r, frame).ret = "OK"
  <2> DEFINE s == Stream(r, frame)
             after == RxPush(r, frame).rx
  <2>1. PICK found, packet : \E w \in Nat : Produces(r, frame, found, packet, w)
    BY <1>1, PushResult
  <2>2. PICK w \in Nat : Produces(r, frame, found, packet, w)
    BY <2>1
  <2>3. /\ Len(s) = Len(Held(r)) + D - Skipped(r, frame) /\ Len(s) \in Nat
        /\ Skipped(r, frame) \in 0 .. P - 1 /\ Len(Held(r)) \in Nat
        /\ Fresh(r) => Len(Held(r)) = 0
        /\ ~Fresh(r) => Skipped(r, frame) = 0
    BY <1>1, StreamType, HeldType DEF Skipped
  <2>4. Genuine(s, Len(Held(r)), Origin(r, frame, i))
    BY UndamagedUnits
  <2>5. /\ Proper(after)
        /\ Len(Held(r)) <= From(w) => Nearly(after, Off(i + 1))
        /\ Len(Held(r)) <= From(Needed(w)) => Clean(after, Off(i + 1))
    BY <1>3, <2>2, <2>3, <2>4, TakenContiguous
  <2>6. /\ Len(s) < From(w) + P
        /\ Needed(w) \in Nat /\ From(Needed(w)) \in Nat
        /\ Len(Held(after)) = Len(s) - From(Needed(w))
        /\ Len(Held(after)) < 2 * P /\ Len(Held(after)) \in Nat
    BY <1>1, <1>3, <2>2, <2>5, HeldAfter, HeldType DEF Produces
  <2> HIDE DEF s, after
  <2>7. PICK l \in Nat, h \in Nat, k \in Nat, f \in Nat, g \in Nat, a \in Nat :
          /\ l = Len(s) /\ h = Len(Held(r)) /\ k = Skipped(r, frame)
          /\ f = From(w) /\ g = From(Needed(w)) /\ a = Len(Held(after))
    <3>1. P \in Nat /\ From(w) \in Nat
      BY Lengths, Froms
    <3>2. Skipped(r, frame) \in Nat
      BY <2>3, <3>1
    <3> QED BY <2>3, <2>6, <3>1, <3>2
  <2>8. /\ l = h + D - k /\ k \in 0 .. P - 1 /\ (h = 0 \/ k = 0)
        /\ l < f + P /\ a = l - g /\ a < 2 * P
        /\ P \in Nat /\ D \in Nat /\ P < D
    BY <2>3, <2>6, <2>7, Lengths
  <2>9. h <= f /\ (2 * P <= D + 1 => h <= g)
    BY <2>8
  <2>10. Reassembled(r, frame) = after
    BY <1>3 DEF Reassembled, after
  <2> QED BY <2>5, <2>7, <2>9, <2>10
<1> QED BY <1>2, <1>3

\* Short ones: what is kept came with it and with the one before it.
LEMMA AfterTwoUndamaged ==
  ASSUME NEW r, NEW frame, NEW i \in Nat, Undamaged(frame, i), Nearly(r, Off(i))
  PROVE  Clean(Reassembled(r, frame), Off(i + 1))
<1>1. Whole(frame) /\ Proper(r)
  BY UndamagedReceived DEF Nearly
<1>2. CASE RxPush(r, frame).ret # "OK"
  <2>1. Reassembled(r, frame) = RxInit
    BY <1>2 DEF Reassembled
  <2> QED BY <2>1, EmptyIsClean
<1>3. CASE RxPush(r, frame).ret = "OK"
  <2> DEFINE s == Stream(r, frame)
             o == Origin(r, frame, i)
             c == Len(Held(r)) - Len(r.packet)
  <2>1. PICK found, packet : \E w \in Nat : Produces(r, frame, found, packet, w)
    BY <1>1, PushResult
  <2>2. PICK w \in Nat : Produces(r, frame, found, packet, w)
    BY <2>1
  <2>3. /\ Len(s) = Len(Held(r)) + D - Skipped(r, frame) /\ Len(s) \in Nat
        /\ Skipped(r, frame) \in 0 .. P - 1
        /\ \A x \in 1 .. Len(Held(r)) : s[x] = Held(r)[x]
        /\ ~Fresh(r) => Skipped(r, frame) = 0
    BY <1>1, StreamType DEF Skipped
  <2>4. /\ Len(Held(r)) \in Nat /\ Len(r.packet) \in Nat
        /\ Len(Held(r)) = Len(r.packet) + (IF r.previous = <<>> THEN 0 ELSE P)
        /\ \A j \in 1 .. Len(r.packet) :
             Held(r)[(Len(Held(r)) - Len(r.packet)) + j] = r.packet[j]
        /\ Fresh(r) => Len(Held(r)) = 0
        /\ r.previous # <<>> => ~Fresh(r)
    BY <1>1, HeldType DEF Fresh
  <2>5. Genuine(s, Len(Held(r)), o)
    BY <1>1, UndamagedUnits
  <2>6. /\ \A j \in 1 .. Len(r.packet) : r.packet[j] = Off(i) - Len(r.packet) + j - 1
    BY DEF Nearly, Contiguous
  <2>7. o = Off(i) + Skipped(r, frame) - Len(Held(r)) /\ Off(i) \in Nat
    BY Offs DEF Origin
  <2>8. Len(s) < From(w) + P
    BY <2>2 DEF Produces
  <2>p. P \in Nat /\ D \in Nat /\ P < D
    BY Lengths
  <2>9. c \in Nat
    BY <2>4, <2>p
  <2> HIDE DEF s, o
  <2>c. c = Len(Held(r)) - Len(r.packet)
    OBVIOUS
  <2> HIDE DEF c
  <2>n. PICK l \in Nat, h \in Nat, k \in Nat, m \in Nat, q \in Nat, b \in Nat :
          /\ l = Len(s) /\ h = Len(Held(r)) /\ k = Skipped(r, frame)
          /\ m = Len(r.packet) /\ q = c /\ b = Off(i)
    <3>1. Skipped(r, frame) \in Nat
      BY <2>3, <2>p
    <3> QED BY <2>3, <2>4, <2>7, <2>9, <3>1
  <2>m. /\ l = h + D - k /\ o = b + k - h /\ q = h - m
        /\ (h = 0 \/ k = 0)
        /\ (q = 0 \/ q = P) /\ (q = P => k = 0)
    <3>1. l = h + D - k /\ o = b + k - h /\ q = h - m
      BY <2>3, <2>7, <2>c, <2>n
    <3>2. h = 0 \/ k = 0
      BY <2>3, <2>4, <2>n
    <3>3. (r.previous = <<>> => q = 0) /\ (r.previous # <<>> => q = P /\ k = 0)
      <4>1. CASE r.previous = <<>>
        <5>1. h = m
          BY <2>4, <2>n, <4>1
        <5> QED BY <3>1, <4>1, <5>1
      <4>2. CASE r.previous # <<>>
        <5>1. h = m + P /\ k = 0
          BY <2>3, <2>4, <2>n, <4>2
        <5> QED BY <2>p, <3>1, <4>2, <5>1
      <4> QED BY <4>1, <4>2
    <3>4. 0 = P => FALSE
      BY Lengths
    <3> QED BY <3>1, <3>2, <3>3, <3>4
  <2>t. l \in Nat /\ h \in Nat /\ k \in Nat /\ m \in Nat /\ q \in Nat /\ b \in Nat
    BY <2>n
  <2>10. Genuine(s, c, o)
    <3> SUFFICES ASSUME NEW x \in 1 .. Len(s), x > c PROVE s[x] = o + x - 1
      BY DEF Genuine
    <3>1. CASE x > Len(Held(r))
      BY <2>5, <3>1 DEF Genuine
    <3>2. CASE ~(x > Len(Held(r)))
      <4>0. x \in 1 .. l /\ x <= h /\ x > q
        BY <2>n, <2>m, <3>2
      <4>1. PICK j \in 1 .. m : x = q + j /\ x \in 1 .. h
        <5>1. x - q \in 1 .. m /\ x = q + (x - q) /\ x \in 1 .. h
          BY <2>t, <2>m, <2>p, <4>0
        <5> QED BY <5>1
      <4>2. s[x] = Held(r)[x]
        BY <2>3, <2>n, <2>m, <4>1
      <4>3. Held(r)[x] = r.packet[j]
        BY <2>4, <2>n, <2>m, <4>1
      <4>4. r.packet[j] = b - m + j - 1
        BY <2>6, <2>n, <2>m, <4>1
      <4>5. k = 0
        BY <2>n, <2>m, <4>0
      <4>6. b - m + j - 1 = o + x - 1
        BY <2>t, <2>m, <4>1, <4>5
      <4> QED BY <4>2, <4>3, <4>4, <4>6
    <3> QED BY <3>1, <3>2
  <2>11. c <= From(Needed(w))
    <3>1. CASE q = 0
      <4>1. From(Needed(w)) \in Nat
        <5>1. Needed(w) \in Nat
          BY DEF Needed
        <5> QED BY <5>1, Froms
      <4> QED BY <2>n, <3>1, <4>1
    <3>2. CASE q = P
      <4>1. l >= P + D
        BY <2>p, <2>t, <2>m, <3>2
      <4>2. w >= 2
        <5>1. w \in Int /\ 1 \in Int
          OBVIOUS
        <5>2. w <= 1 => From(w) <= From(1)
          BY <5>1, Froms
        <5>3. From(1) = P /\ From(w) \in Nat
          BY Froms
        <5>4. w <= 1 => l < P + P
          BY <2>8, <2>p, <2>n, <5>2, <5>3
        <5> QED BY <2>p, <2>n, <2>m, <4>1, <5>1, <5>4
      <4>3. Needed(w) = w - 1 /\ Needed(w) \in Int /\ 1 <= Needed(w)
        BY <4>2 DEF Needed
      <4>4. From(1) <= From(Needed(w)) /\ From(1) = P
        BY <4>3, Froms
      <4> QED BY <2>n, <2>m, <3>2, <4>4
    <3> QED BY <2>n, <2>m, <3>1, <3>2
  <2>12. Clean(RxPush(r, frame).rx, Off(i + 1))
    BY <1>1, <1>3, <2>2, <2>9, <2>10, <2>11, TakenContiguous DEF s, o
  <2> QED BY <1>3, <2>12 DEF Reassembled
<1> QED BY <1>2, <1>3

\* Several packets; and the receiver's capacity is more than a data field can need.
LEMMA ManyPackets ==
  /\ From(2) = 2 * P
  /\ \A j, k \in Int : From(j + k) = From(j) + From(k)
  /\ D + 2 * P <= From(Capacity + 1)
<1> DEFINE p == PacketLen
<1>1. p \in Nat /\ P = p /\ Capacity \in Nat /\ D <= (Capacity - 1) * p /\ D \in Nat
  BY AdaptationAssumption DEF P, D
<1> HIDE DEF p
<1>2. \A j, k \in Int : (j + k) * p = j * p + k * p
  BY <1>1, SMT
<1>3. (Capacity + 1) * p = (Capacity - 1) * p + 2 * p /\ (Capacity - 1) * p \in Int
  BY <1>1, SMT
<1>4. D + 2 * p <= (Capacity + 1) * p
  BY <1>1, <1>3
<1>5. \A k : From(k) = k * p
  BY DEF From, p
<1> QED BY <1>1, <1>2, <1>4, <1>5

\* Where the stream begins for an adapter in order.
LEMMA CleanStream ==
  ASSUME NEW r, NEW frame, NEW i \in Nat, Undamaged(frame, i), Clean(r, Off(i))
  PROVE  LET s == Stream(r, frame)
             o == Origin(r, frame, i)
         IN /\ Fresh(r) \/ Continues(r, frame)
            /\ Genuine(s, 0, o)
            /\ o \in Int /\ Aligned(o) /\ o + Len(s) = Off(i + 1) /\ Len(s) < D + 2 * P
            /\ \A k \in Nat : From(k) >= Off(i) - Len(Held(r)) => From(k) >= o
<1> DEFINE s == Stream(r, frame)
           o == Origin(r, frame, i)
<1>1. Proper(r) /\ Whole(frame) /\ Aligned(Off(i) + frame.syncd) /\ i \in Int
  BY UndamagedReceived DEF Clean
<1>2. /\ Len(s) = Len(Held(r)) + D - Skipped(r, frame) /\ Len(s) \in Nat
      /\ Skipped(r, frame) \in 0 .. P - 1
      /\ \A x \in 1 .. Len(Held(r)) : s[x] = Held(r)[x]
      /\ Skipped(r, frame) = IF Fresh(r) THEN frame.syncd ELSE 0
  BY <1>1, StreamType DEF Skipped
<1>3. /\ Len(Held(r)) \in Nat /\ Len(r.packet) \in Nat /\ Len(Held(r)) < 2 * P
      /\ Fresh(r) => Len(Held(r)) = 0
      /\ ~Fresh(r) => Held(r) # <<>> /\ Len(Held(r)) # 0
      /\ Len(r.packet) < P
      /\ r.packet = <<>> <=> Len(r.packet) = 0
  <2>1. /\ Len(Held(r)) \in Nat /\ Len(r.packet) \in Nat /\ Len(Held(r)) < 2 * P
        /\ Fresh(r) => Len(Held(r)) = 0
        /\ ~Fresh(r) => Held(r) # <<>> /\ Len(Held(r)) # 0
        /\ r.packet \in Seq(Int)
    BY <1>1, HeldType
  <2>2. Len(r.packet) < P
    BY <1>1 DEF Proper
  <2>3. r.packet = <<>> <=> Len(r.packet) = 0
    BY <2>1
  <2> QED BY <2>1, <2>2, <2>3
<1>4. P \in Nat /\ D \in Nat /\ P < D /\ 2 < P /\ Off(i) \in Nat
  BY Lengths, Offs
<1>5. frame.syncd \in 0 .. P - 1
  BY <1>1 DEF Whole
<1>6. o = Off(i) + Skipped(r, frame) - Len(Held(r))
  BY DEF Origin
<1>7. Fresh(r) \/ Continues(r, frame)
  <2> SUFFICES ASSUME ~Fresh(r) PROVE Continues(r, frame)
    OBVIOUS
  <2> DEFINE x == Off(i) - Len(r.packet)
             y == Off(i) + frame.syncd
  <2>1. Aligned(x) /\ x \in Int /\ Aligned(y) /\ y \in Int
    BY <1>1, <1>3, <1>4, <1>5 DEF Clean
  <2>2. PICK l \in Nat, e \in Nat, b \in Nat : l = Len(r.packet) /\ e = frame.syncd /\ b = Off(i)
    BY <1>3, <1>4, <1>5
  <2>3. x = b - l /\ y = b + e /\ l < P /\ e < P
    BY <1>3, <1>4, <1>5, <2>2
  <2>4. x < y => x + P <= y
    <3> HIDE DEF x, y
    <3> QED BY <2>1, AlignedApart
  <2>5. x + P < y => (x + P) + P <= y
    <3>1. Aligned(x + P) /\ x + P \in Int
      <4> HIDE DEF x
      <4> QED BY <1>4, <2>1, Alignments
    <3> HIDE DEF x, y
    <3> QED BY <2>1, <3>1, AlignedApart
  <2> HIDE DEF x, y
  <2>6. CASE l = 0
    <3>1. e = 0
      BY <1>4, <2>2, <2>3, <2>4, <2>6
    <3> QED BY <1>3, <2>2, <2>6, <3>1 DEF Continues
  <2>7. CASE l # 0
    <3>1. e = P - l
      <4>1. x < y
        BY <2>2, <2>3, <2>7, SMTT(40)
      <4>0. l \in Nat /\ e \in Nat /\ b \in Nat /\ l < P /\ e < P
        BY <2>2, <2>3
      <4>2. b - l + P <= b + e /\ (b - l + P < b + e => b - l + P + P <= b + e)
        BY <2>3, <2>4, <2>5, <4>1
      <4> QED BY <1>4, <4>0, <4>2
    <3>2. e = PacketLen - l
      BY <3>1, Lengths
    <3> QED BY <1>3, <2>2, <2>7, <3>2 DEF Continues
  <2> QED BY <2>6, <2>7
<1>8. o \in Int /\ Aligned(o) /\ o + Len(s) = Off(i + 1)
  BY <1>1, <1>7, OriginAligned
<1>9. Genuine(s, Len(Held(r)), o)
  BY <1>1, UndamagedUnits
<1>10. /\ \A x \in 1 .. Len(Held(r)) : Held(r)[x] = Off(i) - Len(Held(r)) + x - 1
  BY DEF Clean, Contiguous
<1> HIDE DEF s, o
<1>n. PICK l \in Nat, h \in Nat, k \in Nat, b \in Nat :
        l = Len(s) /\ h = Len(Held(r)) /\ k = Skipped(r, frame) /\ b = Off(i)
  <2>1. Skipped(r, frame) \in Nat
    BY <1>2, <1>4
  <2> QED BY <1>2, <1>3, <1>4, <2>1
<1>m. l = h + D - k /\ o = b + k - h /\ h < 2 * P /\ k < P /\ (h = 0 \/ k = 0)
      /\ (~Fresh(r) => h # 0 /\ k = 0) /\ (Fresh(r) => h = 0)
  <2>1. l = h + D - k /\ o = b + k - h /\ h < 2 * P /\ k < P
    BY <1>2, <1>3, <1>4, <1>6, <1>n, SMTT(40)
  <2>2. (~Fresh(r) => h # 0 /\ k = 0) /\ (Fresh(r) => h = 0)
    BY <1>2, <1>3, <1>n
  <2> QED BY <2>1, <2>2
<1>11. Genuine(s, 0, o)
  <2> SUFFICES ASSUME NEW x \in 1 .. Len(s) PROVE s[x] = o + x - 1
    BY DEF Genuine
  <2>1. CASE x > Len(Held(r))
    BY <1>9, <2>1 DEF Genuine
  <2>2. CASE ~(x > Len(Held(r)))
    <3>0. x \in 1 .. l /\ x <= h
      BY <1>n, <2>2
    <3>1. x \in 1 .. h /\ k = 0
      BY <1>m, <3>0
    <3>2. s[x] = Held(r)[x] /\ Held(r)[x] = b - h + x - 1
      BY <1>2, <1>10, <1>n, <3>1
    <3>3. b - h + x - 1 = o + x - 1
      BY <1>m, <3>1
    <3> QED BY <3>2, <3>3
  <2> QED BY <2>1, <2>2
<1>12. Len(s) < D + 2 * P
  <2>1. l < D + 2 * P
    BY <1>4, <1>m
  <2> QED BY <1>n, <2>1
<1>13. ASSUME NEW j \in Nat, From(j) >= Off(i) - Len(Held(r)) PROVE From(j) >= o
  <2>1. From(j) \in Nat /\ j \in Int /\ From(j) >= b - h
    BY <1>13, <1>n, Froms
  <2>2. CASE k = 0
    BY <1>m, <2>1, <2>2
  <2>3. CASE k # 0
    <3>1. h = 0 /\ o = b + k
      BY <1>m, <2>3
    <3>2. From(j) < o => From(j) + P <= o
      <4>1. Aligned(From(j)) /\ From(j) \in Int
        BY <2>1, Alignments
      <4> QED BY <1>8, <4>1, AlignedApart
    <3> QED BY <1>4, <1>m, <1>8, <2>1, <3>1, <3>2
  <2> QED BY <2>2, <2>3
<1> QED BY <1>7, <1>8, <1>11, <1>12, <1>13 DEF s, o

\* The packets cut from a genuine stream.
LEMMA GenuineCut ==
  ASSUME NEW s \in Seq(Int), NEW o \in Int, Genuine(s, 0, o),
         NEW found, NEW w \in Nat, Cut(s, found, w), From(w) <= Len(s)
  PROVE  /\ \A k \in 1 .. w : \A j \in 1 .. P : found[k][j] = o + From(k - 1) + j - 1
         /\ \A k \in 1 .. Needed(w) : Vouches(found[k + 1][1], found[k])
<1>1. P \in Nat /\ 2 < P /\ PacketLen = P
  BY Lengths
<1>2. ASSUME NEW k \in 1 .. w, NEW j \in 1 .. P
      PROVE  found[k][j] = o + From(k - 1) + j - 1
  <2>1. k \in Int /\ w \in Int /\ k <= w /\ k - 1 \in Nat /\ k - 1 \in Int
    OBVIOUS
  <2>2. From(k - 1) = From(k) - P /\ From(k) <= From(w) /\ From(k - 1) \in Nat
        /\ From(k) \in Int /\ From(w) \in Int
    BY <2>1, Froms
  <2>3. From(k - 1) + j \in 1 .. Len(s)
    <3>1. PICK f \in Nat, g \in Int, h \in Int, l \in Nat :
            f = From(k - 1) /\ g = From(k) /\ h = From(w) /\ l = Len(s)
      BY <2>2, SequenceType
    <3>2. f = g - P /\ g <= h /\ h <= l
      BY <2>2, <3>1
    <3>3. f + j \in 1 .. l
      BY <1>1, <3>2
    <3> QED BY <3>1, <3>3
  <2>4. found[k][j] = s[From(k - 1) + j]
    BY DEF Cut
  <2>5. From(k - 1) + j > 0 /\ j \in Int
    BY <2>2
  <2>6. s[From(k - 1) + j] = o + (From(k - 1) + j) - 1
    BY <2>3, <2>5 DEF Genuine
  <2> QED BY <2>2, <2>4, <2>5, <2>6
<1>3. ASSUME NEW k \in 1 .. Needed(w) PROVE Vouches(found[k + 1][1], found[k])
  <2>1. k \in 1 .. w /\ k + 1 \in 1 .. w /\ (k + 1) - 1 = k /\ k \in Int
    BY DEF Needed
  <2>2. 1 \in 1 .. P
    BY <1>1
  <2>3. From(k - 1) = From(k) - P /\ From(k) \in Int
    BY <2>1, Froms
  <2>4. found[k + 1][1] = o + From(k) + 1 - 1
    BY <1>2, <2>1, <2>2
  <2> SUFFICES ASSUME NEW j \in 2 .. P
               PROVE  found[k][j] = found[k + 1][1] - P + j - 1
    BY <1>1 DEF Vouches
  <2>5. found[k][j] = o + From(k - 1) + j - 1
    <3>1. j \in 1 .. P
      BY <1>1
    <3> QED BY <1>2, <2>1, <3>1
  <2> QED BY <1>1, <2>3, <2>4, <2>5
<1> QED BY <1>2, <1>3

\* An adapter in order takes every undamaged frame, stays in order, and
\* writes or holds every packet that began in what it had.
LEMMA CleanTaken ==
  ASSUME NEW r, NEW frame, NEW i \in Nat, Undamaged(frame, i), Clean(r, Off(i))
  PROVE  LET out == RxPush(r, frame)
         IN /\ Clean(Reassembled(r, frame), Off(i + 1)) /\ out.packets \in Seq(Seq(Int))
            /\ \A k \in Nat : From(k) >= Off(i) - Len(Held(r)) =>
                 \/ \E j \in 1 .. Len(out.packets) : Matches(out.packets[j], k)
                 \/ From(k) >= Off(i + 1) - Len(Held(Reassembled(r, frame)))
<1> DEFINE out == RxPush(r, frame)
           s == Stream(r, frame)
           o == Origin(r, frame, i)
<1>1. Proper(r) /\ Whole(frame)
  BY UndamagedReceived DEF Clean
<1>2. PICK found, packet : \E w \in Nat : Produces(r, frame, found, packet, w)
  BY <1>1, PushResult
<1>3. PICK w \in Nat : Produces(r, frame, found, packet, w)
  BY <1>2
<1>4. /\ Fresh(r) \/ Continues(r, frame)
      /\ Genuine(s, 0, o)
      /\ o \in Int /\ Aligned(o) /\ o + Len(s) = Off(i + 1) /\ Len(s) < D + 2 * P
      /\ \A k \in Nat : From(k) >= Off(i) - Len(Held(r)) => From(k) >= o
  BY CleanStream
<1>5. s \in Seq(Int) /\ Len(s) \in Nat
  BY <1>1, StreamType
<1>6. From(w) <= Len(s) /\ Cut(s, found, w)
  BY <1>3 DEF Produces
<1>7. /\ \A k \in 1 .. w : \A j \in 1 .. P : found[k][j] = o + From(k - 1) + j - 1
      /\ \A k \in 1 .. Needed(w) : Vouches(found[k + 1][1], found[k])
  <2> HIDE DEF s, o
  <2> QED BY <1>4, <1>5, <1>6, GenuineCut
<1>8. Needed(w) \in Nat /\ Needed(w) <= w /\ Needed(w) <= Capacity
  <2>1. Needed(w) \in Nat /\ Needed(w) <= w
    BY DEF Needed
  <2>2. w \in Int /\ Capacity \in Nat /\ Capacity + 1 \in Int
    BY Lengths
  <2>3. Capacity + 1 <= w => From(Capacity + 1) <= From(w)
    BY <2>2, Froms
  <2>4. From(Capacity + 1) \in Int /\ From(w) \in Int /\ P \in Nat /\ D \in Nat
    BY <2>2, Froms, Lengths
  <2>5. D + 2 * P <= From(Capacity + 1)
    BY ManyPackets
  <2>6. w <= Capacity
    <3> HIDE DEF s
    <3> QED BY <1>4, <1>5, <1>6, <2>2, <2>3, <2>4, <2>5
  <2> QED BY <2>1, <2>2, <2>6
<1>9. out.ret = "OK" /\ out.packets = SubSeq(found, 1, Needed(w))
  BY <1>3, <1>4, <1>7, <1>8 DEF Produces, Accepts
<1>10. Reassembled(r, frame) = out.rx
  BY <1>9 DEF Reassembled
<1>11. Clean(out.rx, Off(i + 1))
  <2>1. 0 <= From(Needed(w))
    <3>1. From(Needed(w)) \in Nat
      BY <1>8, Froms
    <3> QED BY <3>1
  <2> QED BY <1>1, <1>3, <1>4, <1>9, <2>1, TakenContiguous
<1>12. Len(Held(out.rx)) = Len(s) - From(Needed(w))
  BY <1>1, <1>3, <1>9, HeldAfter
<1> DEFINE packets == out.packets
<1> HIDE DEF out, s, o
<1>13. /\ packets \in Seq(Seq(Int)) /\ Len(packets) = Needed(w)
       /\ \A k \in 1 .. Needed(w) : packets[k] = found[k]
  <2>1. found \in Seq(Seq(Int)) /\ Len(found) = w
    BY <1>6 DEF Cut
  <2> QED BY <1>8, <1>9, <2>1, PacketsOf
<1>14. ASSUME NEW k \in Nat, From(k) >= Off(i) - Len(Held(r))
       PROVE  \/ \E j \in 1 .. Len(packets) : Matches(packets[j], k)
              \/ From(k) >= Off(i + 1) - Len(Held(out.rx))
  <2>1. From(k) >= o /\ From(k) \in Nat /\ k \in Int
    BY <1>4, <1>14, Froms
  <2>2. PICK a \in Int : o = From(a)
    BY <1>4 DEF Aligned
  <2>3. a <= k
    <3>1. k < a => From(k) + P <= From(a)
      BY <2>1, Froms
    <3> QED BY <1>4, <2>1, <2>2, <3>1, Lengths
  <2>4. PICK d \in Nat : k = a + d
    <3>1. k - a \in Nat /\ k = a + (k - a)
      BY <2>1, <2>3
    <3> QED BY <3>1
  <2>5. From(k) = o + From(d) /\ From(d) \in Nat /\ d \in Int
    <3>1. a \in Int /\ d \in Int /\ d \in Nat
      BY <2>4
    <3>2. From(a + d) = From(a) + From(d)
      BY <3>1, ManyPackets
    <3>3. From(d) \in Nat
      BY <3>1, Froms
    <3> QED BY <2>2, <2>4, <3>1, <3>2, <3>3
  <2>6. CASE d < Needed(w)
    <3>1. d + 1 \in 1 .. Needed(w) /\ d + 1 \in 1 .. w /\ (d + 1) - 1 = d
      BY <1>8, <2>6
    <3>2. packets[d + 1] = found[d + 1]
      BY <1>13, <3>1
    <3>3. ASSUME NEW j \in 2 .. P PROVE packets[d + 1][j] = From(k) + j - 1
      <4>1. j \in 1 .. P
        BY Lengths
      <4>2. found[d + 1][j] = o + From((d + 1) - 1) + j - 1
        BY <1>7, <3>1, <4>1
      <4> QED BY <2>5, <3>1, <3>2, <4>2
    <3>4. Matches(packets[d + 1], k)
      BY <3>3, Lengths DEF Matches, From
    <3>5. d + 1 \in 1 .. Len(packets)
      BY <1>13, <3>1
    <3> QED BY <3>4, <3>5
  <2>7. CASE ~(d < Needed(w))
    <3>1. From(Needed(w)) <= From(d) /\ From(Needed(w)) \in Nat
      <4>1. Needed(w) \in Int /\ Needed(w) <= d
        BY <1>8, <2>7
      <4> QED BY <1>8, <2>5, <4>1, Froms
    <3>2. Off(i + 1) - Len(Held(out.rx)) = o + From(Needed(w))
      BY <1>4, <1>5, <1>12, <3>1
    <3> QED BY <1>4, <2>5, <3>1, <3>2
  <2> QED BY <2>6, <2>7
<1> QED BY <1>10, <1>11, <1>13, <1>14, Zenon DEF out

-----------------------------------------------------------------------------
(* Damage is local                                                         *)

\* Packet k is in wr.
Among(wr, k) == \E i \in 1 .. Len(wr) : Matches(wr[i], k)

\* No frame from a (or the first) to e was lost or damaged.
Calm(f, a, e) == \A g \in 1 .. e : a <= g => f[g] = "ok"

\* Every packet from frame m on is written or, the receiver being at b, held.
Covered(wr, r, b, m) ==
  \A k \in Nat : From(k) >= Off(m - 1) => Among(wr, k) \/ From(k) >= b - Len(Held(r))

\* After n frames: the last one undamaged, the packet begun is in order; as many as
\* Reach before frame m and all since, everything is, and no packet since m is lost.
InOrder(f, n, r, wr) ==
  /\ n = 0 \/ f[n] = "ok" => Nearly(r, Off(n))
  /\ \A m \in 1 .. n + 1 :
       Calm(f, m - Reach, n) => Clean(r, Off(n)) /\ Covered(wr, r, Off(n), m)

\* The same of the frames up to any e: LossIsLocal, without the sender.
Local(f, n, wr) ==
  \A m, e \in 1 .. n : \A k \in Nat :
    /\ m <= e /\ Off(m - 1) <= From(k) /\ From(k + 2) <= Off(e)
    /\ Calm(f, m - Reach, e)
    => Among(wr, k)

\* What LossIsLocal and Lossless rest on.
LossInv ==
  /\ receiver = "running" /\ ~repeated => InOrder(fates, Len(fates), rx, written)
  /\ ~repeated => Local(fates, Len(fates), written)
  /\ unchecked \in Seq(Seq(Int))
  /\ Lossless

\* With Reach 1, a data field is as long as what an adapter can hold.
LEMMA Reaches ==
  /\ Reach \in {1, 2} /\ Reach \in Int
  /\ Reach = 1 => 2 * P <= D + 1
<1>1. Reach = IF D + 1 < 2 * P THEN 2 ELSE 1
  BY Lengths DEF Reach
<1>2. D \in Nat /\ P \in Nat
  BY Lengths
<1> QED BY <1>1, <1>2

\* A packet that was written stays written.
LEMMA StillAmong ==
  ASSUME NEW wr \in Seq(Seq(Int)), NEW packets \in Seq(Seq(Int)), NEW k
  PROVE  /\ Among(wr, k) => Among(wr \o packets, k)
         /\ Among(packets, k) => Among(wr \o packets, k)
<1> DEFINE v == wr \o packets
<1>1. /\ Len(v) = Len(wr) + Len(packets) /\ Len(wr) \in Nat
      /\ Len(packets) \in Nat
      /\ \A j \in 1 .. Len(wr) : v[j] = wr[j]
      /\ \A j \in 1 .. Len(packets) : v[Len(wr) + j] = packets[j]
  BY ConcatenationOfPackets
<1> HIDE DEF v
<1>2. ASSUME NEW j \in 1 .. Len(wr), Matches(wr[j], k) PROVE Among(v, k)
  <2>1. j \in 1 .. Len(v) /\ v[j] = wr[j]
    BY <1>1
  <2> QED BY <1>2, <2>1 DEF Among
<1>3. ASSUME NEW j \in 1 .. Len(packets), Matches(packets[j], k) PROVE Among(v, k)
  <2>1. Len(wr) + j \in 1 .. Len(v) /\ v[Len(wr) + j] = packets[j]
    BY <1>1
  <2> QED BY <1>3, <2>1 DEF Among
<1> QED BY <1>2, <1>3 DEF Among, v

\* A calm that does not reach the newest frame was one before it came.
LEMMA CalmBefore ==
  ASSUME NEW f, NEW f2, NEW n \in Nat, \A g \in 1 .. n : f2[g] = f[g],
         NEW a \in Int, NEW e \in 1 .. n, Calm(f2, a, e)
  PROVE  Calm(f, a, e)
<1> SUFFICES ASSUME NEW g \in 1 .. e, a <= g PROVE f[g] = "ok"
  BY DEF Calm
<1>1. g \in 1 .. n
  OBVIOUS
<1> QED BY <1>1 DEF Calm

\* dvbs2x_ts_rx_push returns packets.
LEMMA PacketsType ==
  ASSUME NEW r, Proper(r), NEW frame, Whole(frame)
  PROVE  RxPush(r, frame).packets \in Seq(Seq(Int))
<1> DEFINE packets == RxPush(r, frame).packets
<1>2. PICK found, packet : \E w \in Nat : Produces(r, frame, found, packet, w)
  BY PushResult
<1>3. PICK w \in Nat : Produces(r, frame, found, packet, w)
  BY <1>2
<1>4. CASE RxPush(r, frame).ret = "OK"
  <2>1. packets = SubSeq(found, 1, Needed(w)) /\ found \in Seq(Seq(Int)) /\ Len(found) = w
    BY <1>3, <1>4 DEF Produces, Cut
  <2>2. Needed(w) \in Nat /\ Needed(w) <= w
    BY DEF Needed
  <2> QED BY <2>1, <2>2, PacketsOf
<1>5. CASE RxPush(r, frame).ret # "OK"
  <2>1. packets = <<>>
    BY <1>3, <1>5 DEF Produces
  <2> QED BY <2>1
<1> QED BY <1>4, <1>5

\* A frame that is lost or damaged leaves nothing to say.
LEMMA DamagedLoss ==
  ASSUME SenderInv, NEW fate \in Outcomes \ {"ok"}, Fated(fate), ReceiverInv, LossInv,
         NEW packets \in Seq(Seq(Int)), written' = written \o packets
  PROVE  LossInv'
<1>1. /\ Len(fates') = Len(fates) + 1 /\ Len(fates) \in Nat
      /\ \A g \in 1 .. Len(fates) : fates'[g] = fates[g]
      /\ fates'[Len(fates) + 1] = fate
  BY SenderFated
<1>2. /\ receiver = "running" /\ receiver' = receiver /\ repeated' = repeated
      /\ unchecked' = unchecked
  BY DEF Fated
<1>3. written \in Seq(Seq(Int)) /\ unchecked' \in Seq(Seq(Int))
  BY <1>2 DEF ReceiverInv, Ordered, LossInv
<1>n. PICK n \in Nat : n = Len(fates)
  BY <1>1
<1>m. Len(fates') = n + 1 /\ fates'[n + 1] # "ok" /\ \A g \in 1 .. n : fates'[g] = fates[g]
  BY <1>1, <1>n
<1>4. ASSUME NEW a \in Int, NEW e \in 1 .. n + 1, a <= n + 1, Calm(fates', a, e)
      PROVE  e \in 1 .. n
  <2>1. e = n + 1 => n + 1 \in 1 .. e
    OBVIOUS
  <2>2. e # n + 1
    BY <1>4, <1>m, <2>1 DEF Calm
  <2> QED BY <2>2
<1>5. InOrder(fates', n + 1, rx', written')
  <2>1. ASSUME NEW m \in 1 .. (n + 1) + 1 PROVE ~Calm(fates', m - Reach, n + 1)
    <3>1. m - Reach \in Int /\ m - Reach <= n + 1
      BY Reaches
    <3>2. n + 1 \in 1 .. n + 1 /\ n + 1 \notin 1 .. n
      OBVIOUS
    <3> QED BY <1>4, <3>1, <3>2
  <2>2. n + 1 # 0
    OBVIOUS
  <2> QED BY <1>m, <2>1, <2>2 DEF InOrder
<1>6. ASSUME ~repeated PROVE Local(fates', n + 1, written')
  <2> SUFFICES ASSUME NEW m \in 1 .. n + 1, NEW e \in 1 .. n + 1, NEW k \in Nat,
                      m <= e, Off(m - 1) <= From(k), From(k + 2) <= Off(e),
                      Calm(fates', m - Reach, e)
               PROVE  Among(written', k)
    BY DEF Local
  <2>1. m - Reach \in Int /\ m - Reach <= n + 1
    BY Reaches
  <2>2. e \in 1 .. n
    BY <1>4, <2>1
  <2>3. Calm(fates, m - Reach, e)
    BY <1>m, <2>1, <2>2, CalmBefore
  <2>4. m \in 1 .. n
    BY <2>2
  <2>5. Local(fates, n, written)
    BY <1>6, <1>n DEF LossInv
  <2>6. Among(written, k)
    BY <2>2, <2>3, <2>4, <2>5 DEF Local
  <2> QED BY <1>3, <2>6, StillAmong
<1>7. Lossless'
  BY <1>2 DEF Lossless
<1> QED BY <1>2, <1>3, <1>5, <1>6, <1>7, <1>m DEF LossInv

\* A frame the receiver has undamaged.
LEMMA ReceivedLoss ==
  ASSUME SenderInv, Fated("ok"), ReceiverInv, LossInv, Handle(air[1])
  PROVE  LossInv'
<1> DEFINE frame == air[1]
           packets == RxPush(rx, frame).packets
<1>0. "ok" \in Outcomes
  BY DEF Outcomes
<1>1. /\ Len(fates') = Len(fates) + 1 /\ Len(fates) \in Nat
      /\ \A g \in 1 .. Len(fates) : fates'[g] = fates[g]
      /\ fates'[Len(fates) + 1] = "ok"
  BY <1>0, SenderFated
<1>2. /\ receiver = "running" /\ receiver' = receiver /\ repeated' = repeated
      /\ unchecked' = unchecked
  BY DEF Fated
<1>3. unchecked' \in Seq(Seq(Int)) /\ Lossless'
  BY <1>2 DEF LossInv, Lossless
<1> SUFFICES ASSUME ~repeated
             PROVE  /\ InOrder(fates', Len(fates'), rx', written')
                    /\ Local(fates', Len(fates'), written')
  BY <1>2, <1>3 DEF LossInv
<1>n. PICK n \in Nat : n = Len(fates)
  BY <1>1
<1>m. /\ Len(fates') = n + 1 /\ fates'[n + 1] = "ok"
      /\ \A g \in 1 .. n : fates'[g] = fates[g]
  BY <1>1, <1>n
<1>4. Undamaged(frame, n)
  BY <1>0, <1>n, HandledFated
<1>5. rx' = Reassembled(rx, frame) /\ written' = written \o packets
  BY DEF Handle, Reassembled
<1>6. written \in Seq(Seq(Int)) /\ Proper(rx)
  BY DEF ReceiverInv, Ordered, Honest
<1>7. InOrder(fates, n, rx, written) /\ Local(fates, n, written)
  BY <1>2, <1>n DEF LossInv
<1> HIDE DEF frame, packets
<1>8. Nearly(rx', Off(n + 1)) /\ (2 * P <= D + 1 => Clean(rx', Off(n + 1)))
  BY <1>4, <1>5, <1>6, AfterUndamaged
<1>9. n = 0 \/ fates[n] = "ok" => Clean(rx', Off(n + 1))
  <2> SUFFICES ASSUME n = 0 \/ fates[n] = "ok" PROVE Clean(rx', Off(n + 1))
    OBVIOUS
  <2>1. Nearly(rx, Off(n))
    BY <1>7 DEF InOrder
  <2> QED BY <1>4, <1>5, <2>1, AfterTwoUndamaged
<1>10. packets \in Seq(Seq(Int))
  <2>1. Whole(frame)
    BY <1>4, UndamagedReceived
  <2> QED BY <1>6, <2>1, PacketsType DEF packets
<1>11. ASSUME NEW m \in 1 .. n + 1, Calm(fates', m - Reach, n + 1)
       PROVE  Clean(rx', Off(n + 1)) /\ Covered(written', rx', Off(n + 1), m)
  <2>1. m - Reach \in Int
    BY Reaches
  <2>2. Calm(fates, m - Reach, n)
    <3> SUFFICES ASSUME NEW g \in 1 .. n, m - Reach <= g PROVE fates[g] = "ok"
      BY DEF Calm
    <3>1. g \in 1 .. n + 1
      OBVIOUS
    <3> QED BY <1>m, <1>11, <3>1 DEF Calm
  <2>3. Clean(rx, Off(n)) /\ Covered(written, rx, Off(n), m)
    BY <1>7, <2>2 DEF InOrder
  <2>4. /\ Clean(rx', Off(n + 1))
        /\ \A k \in Nat : From(k) >= Off(n) - Len(Held(rx)) =>
             \/ \E j \in 1 .. Len(packets) : Matches(packets[j], k)
             \/ From(k) >= Off(n + 1) - Len(Held(rx'))
    BY <1>4, <1>5, <2>3, CleanTaken DEF packets
  <2>5. ASSUME NEW k \in Nat, From(k) >= Off(m - 1)
        PROVE  Among(written', k) \/ From(k) >= Off(n + 1) - Len(Held(rx'))
    <3>1. Among(written, k) \/ From(k) >= Off(n) - Len(Held(rx))
      BY <2>3, <2>5 DEF Covered
    <3>2. Among(written, k) \/ Among(packets, k) \/ From(k) >= Off(n + 1) - Len(Held(rx'))
      BY <2>4, <3>1 DEF Among
    <3> QED BY <1>5, <1>6, <1>10, <3>2, StillAmong
  <2> QED BY <2>4, <2>5 DEF Covered
<1>12. ASSUME Calm(fates', (n + 2) - Reach, n + 1)
       PROVE  Clean(rx', Off(n + 1)) /\ Covered(written', rx', Off(n + 1), n + 2)
  <2>1. Reach = 1 => Clean(rx', Off(n + 1))
    BY <1>8, Reaches
  <2>2. ASSUME Reach = 2 PROVE Clean(rx', Off(n + 1))
    <3>1. n = 0 \/ fates[n] = "ok"
      <4> SUFFICES ASSUME n # 0 PROVE fates[n] = "ok"
        OBVIOUS
      <4>1. n \in 1 .. n + 1 /\ n \in 1 .. n
        OBVIOUS
      <4>2. (n + 2) - Reach = n
        BY <2>2
      <4>3. Calm(fates', n, n + 1)
        BY <1>12, <4>2
      <4>4. fates'[n] = "ok"
        BY <4>1, <4>3 DEF Calm
      <4> QED BY <1>m, <4>1, <4>4
    <3> QED BY <1>9, <3>1
  <2>3. Clean(rx', Off(n + 1))
    BY <2>1, <2>2, Reaches
  <2>4. ASSUME NEW k \in Nat, From(k) >= Off((n + 2) - 1)
        PROVE  From(k) >= Off(n + 1) - Len(Held(rx'))
    <3>1. (n + 2) - 1 = n + 1 /\ n + 1 \in Nat
      OBVIOUS
    <3>2. Off(n + 1) \in Nat /\ From(k) \in Nat /\ Len(Held(rx')) \in Nat
      <4>1. Proper(rx')
        BY <2>3 DEF Clean
      <4> QED BY <3>1, <4>1, Offs, Froms, HeldType
    <3> QED BY <2>4, <3>1, <3>2
  <2> QED BY <2>3, <2>4 DEF Covered
<1>13. InOrder(fates', n + 1, rx', written')
  <2> SUFFICES ASSUME NEW m \in 1 .. (n + 1) + 1, Calm(fates', m - Reach, n + 1)
               PROVE  Clean(rx', Off(n + 1)) /\ Covered(written', rx', Off(n + 1), m)
    BY <1>8 DEF InOrder
  <2>1. m \in 1 .. n + 1 \/ m = n + 2
    OBVIOUS
  <2> QED BY <1>11, <1>12, <2>1
<1>14. Local(fates', n + 1, written')
  <2> SUFFICES ASSUME NEW m \in 1 .. n + 1, NEW e \in 1 .. n + 1, NEW k \in Nat,
                      m <= e, Off(m - 1) <= From(k), From(k + 2) <= Off(e),
                      Calm(fates', m - Reach, e)
               PROVE  Among(written', k)
    BY DEF Local
  <2>1. m - Reach \in Int
    BY Reaches
  <2>2. CASE e \in 1 .. n
    <3>1. Calm(fates, m - Reach, e)
      BY <1>m, <2>1, <2>2, CalmBefore
    <3>3. m \in 1 .. n
      BY <2>2
    <3>2. Among(written, k)
      BY <1>7, <2>2, <3>1, <3>3 DEF Local
    <3> QED BY <1>5, <1>6, <1>10, <3>2, StillAmong
  <2>3. CASE e = n + 1
    <3>1. Clean(rx', Off(n + 1)) /\ Covered(written', rx', Off(n + 1), m)
      BY <1>11, <2>3
    <3>2. From(k) < Off(n + 1) - Len(Held(rx'))
      <4>1. From(k + 2) = From(k) + 2 * P /\ From(k) \in Nat
        <5>1. k \in Int /\ 2 \in Int
          OBVIOUS
        <5> QED BY <5>1, ManyPackets, Froms
      <4>2. Len(Held(rx')) < 2 * P /\ Len(Held(rx')) \in Nat
        BY <3>1, HeldType DEF Clean
      <4>3. Off(n + 1) \in Nat /\ P \in Nat
        <5>1. n + 1 \in Nat
          OBVIOUS
        <5> QED BY <5>1, Offs, Lengths
      <4> QED BY <2>3, <4>1, <4>2, <4>3
    <3>3. ~(From(k) >= Off(n + 1) - Len(Held(rx')))
      <4>1. From(k) \in Int /\ Off(n + 1) \in Int /\ Len(Held(rx')) \in Int
        <5>1. n + 1 \in Nat /\ Proper(rx')
          BY <3>1 DEF Clean
        <5> QED BY <5>1, Offs, Froms, HeldType
      <4> QED BY <3>2, <4>1
    <3> QED BY <3>1, <3>3 DEF Covered
  <2> QED BY <2>2, <2>3
<1> QED BY <1>13, <1>14, <1>m

\* What is written, checked or not, is delivered.
LEMMA StillDelivered ==
  ASSUME written \in Seq(Seq(Int)), unchecked \in Seq(Seq(Int)), NEW k,
         Among(written, k) \/ Among(unchecked, k)
  PROVE  Delivered(k)
<1>1. Among(written \o unchecked, k)
  BY StillAmong
<1> QED BY <1>1 DEF Among, Delivered

\* The receiver is stopped: the packet it holds is the last one of the file.
LEMMA FinalizeLossless ==
  ASSUME SenderInv, ReceiverInv, LossInv, Finalize
  PROVE  Lossless'
<1>1. /\ receiver = "running" /\ receiver' = "done" /\ unchecked' = rx.previous
      /\ written' = written /\ fates' = fates /\ repeated' = repeated /\ length' = length
      /\ sender = "done" /\ air = <<>>
  BY DEF Finalize, txVars
<1> SUFFICES ASSUME ~repeated, \A f \in 1 .. Len(fates) : fates[f] = "ok",
                    NEW k \in 0 .. length - 1
             PROVE  Delivered(k)'
  BY <1>1 DEF Lossless
<1>2. PICK n \in Nat : n = Len(fates) /\ Full = n
  <2>1. Transmitted = Len(fates) /\ Len(fates) \in Nat
    BY <1>1, Quiet
  <2>2. ~Pending
    BY <1>1 DEF Pending
  <2> QED BY <2>1, <2>2 DEF Full
<1>3. From(length) <= Off(n) /\ length \in Nat
  BY <1>1, <1>2 DEF SenderInv, Place, Numbers
<1>4. Clean(rx, Off(n)) /\ Covered(written, rx, Off(n), 1)
  <2>1. Calm(fates, 1 - Reach, n)
    BY <1>2 DEF Calm
  <2>2. 1 \in 1 .. n + 1
    OBVIOUS
  <2> QED BY <1>1, <1>2, <2>1, <2>2 DEF LossInv, InOrder
<1>5. written \in Seq(Seq(Int)) /\ Proper(rx) /\ rx.previous \in Seq(Seq(Int))
  BY DEF ReceiverInv, Ordered, Honest, Proper
<1>6. k \in Nat /\ k \in Int /\ k + 1 \in Int /\ k + 1 \in Nat /\ length \in Int /\ k + 1 <= length
  BY <1>3
<1>7. /\ From(k) \in Nat /\ From(k + 1) = From(k) + P /\ From(k + 1) <= Off(n)
      /\ From(k + 1) \in Nat
      /\ P \in Nat /\ 2 < P /\ Off(n) \in Nat /\ Off(0) = 0
  <2>1. From(k + 1) <= From(length) /\ From(k + 1) \in Int /\ From(length) \in Int
    BY <1>6, Froms
  <2>2. Off(n) \in Nat /\ Off(0) = 0
    BY Offs
  <2>3. From(k) \in Nat /\ From(k + 1) \in Nat /\ From(k + 1) = From(k) + P
    BY <1>6, FromNext
  <2>4. P \in Nat /\ 2 < P
    BY Lengths
  <2>5. From(k + 1) <= Off(n)
    BY <1>3, <2>1, <2>2
  <2> QED BY <2>2, <2>3, <2>4, <2>5
<1>8. Among(written, k) \/ Among(rx.previous, k)
  <2> SUFFICES ASSUME ~Among(written, k) PROVE Among(rx.previous, k)
    OBVIOUS
  <2> DEFINE e == Off(n) - Len(rx.packet)
  <2>1. From(k) >= Off(n) - Len(Held(rx))
    <3>1. 1 - 1 = 0 /\ From(k) >= 0
      BY <1>7
    <3>2. From(k) >= Off(1 - 1)
      BY <1>7, <3>1
    <3> QED BY <1>4, <1>6, <3>2 DEF Covered
  <2>2. /\ Len(Held(rx)) \in Nat /\ Len(rx.packet) \in Nat /\ Len(rx.packet) < P
        /\ Len(Held(rx)) = Len(rx.packet) + (IF rx.previous = <<>> THEN 0 ELSE P)
        /\ rx.previous # <<>> => \A j \in 1 .. P : Held(rx)[j] = rx.previous[1][j]
        /\ Fresh(rx) <=> Len(Held(rx)) = 0
    BY <1>5, HeldType DEF Proper
  <2>3. ~Fresh(rx)
    <3>1. Fresh(rx) => Len(Held(rx)) = 0
      BY <2>2, Zenon
    <3>2. ~(Len(Held(rx)) = 0)
      BY <1>7, <2>1
    <3> QED BY <3>1, <3>2
  <2>4. Aligned(e) /\ e \in Int
    BY <1>4, <1>7, <2>2, <2>3 DEF Clean
  <2>5. e < From(k + 1) => e + P <= From(k + 1)
    <3>1. Aligned(From(k + 1)) /\ From(k + 1) \in Int
      BY <1>6, <1>7, Alignments
    <3> HIDE DEF e
    <3> QED BY <2>4, <3>1, AlignedApart
  <2>6. rx.previous # <<>> /\ From(k) = Off(n) - Len(Held(rx))
    <3>1. PICK b \in Nat, l \in Nat, h \in Nat, a \in Nat, c \in Nat :
            /\ b = Off(n) /\ l = Len(rx.packet) /\ h = Len(Held(rx)) /\ a = From(k)
            /\ c = From(k + 1)
      BY <1>7, <2>2
    <3>2. /\ a >= b - h /\ c = a + P /\ c <= b /\ l < P
          /\ (b - l < c => b - l + P <= c)
      BY <1>7, <2>1, <2>2, <2>5, <3>1
    <3>3. c <= b - l
      BY <1>7, <3>2
    <3>4. rx.previous # <<>>
      <4>1. rx.previous = <<>> => h = l
        BY <2>2, <3>1
      <4> QED BY <1>7, <3>2, <3>3, <4>1
    <3>5. h = l + P
      BY <2>2, <3>1, <3>4
    <3>6. a = b - h
      BY <1>7, <3>2, <3>3, <3>5
    <3> QED BY <3>1, <3>4, <3>6
  <2>7. ASSUME NEW j \in 2 .. P PROVE rx.previous[1][j] = From(k) + j - 1
    <3>1. j \in 1 .. P
      BY <1>7
    <3>2. j \in 1 .. Len(Held(rx))
      BY <1>7, <2>2, <2>6, <3>1
    <3>3. Held(rx)[j] = Off(n) - Len(Held(rx)) + j - 1
      BY <1>4, <3>2 DEF Clean, Contiguous
    <3> QED BY <2>2, <2>6, <3>1, <3>3
  <2>8. Matches(rx.previous[1], k)
    BY <2>7, Lengths DEF Matches, From
  <2>9. 1 \in 1 .. Len(rx.previous)
    BY <1>5, <2>6
  <2> QED BY <2>8, <2>9 DEF Among
<1>9. Among(written \o rx.previous, k)
  BY <1>5, <1>8, StillAmong
<1> QED BY <1>1, <1>9 DEF Among, Delivered, Matches

\* LossInv holds at the start.
LEMMA LossInitially == Init => LossInv
<1> SUFFICES ASSUME Init PROVE LossInv
  OBVIOUS
<1>1. /\ rx = RxInit /\ written = <<>> /\ fates = <<>> /\ unchecked = <<>>
      /\ receiver = "running" /\ Len(fates) = 0
  BY DEF Init
<1>2. <<>> \in Seq(Seq(Int))
  OBVIOUS
<1>3. Off(0) = 0 /\ Len(Held(RxInit)) = 0
  BY Offs, InitialState
<1>4. \A m : Covered(written, RxInit, Off(0), m)
  <2> SUFFICES ASSUME NEW k \in Nat PROVE From(k) >= Off(0) - Len(Held(RxInit))
    BY DEF Covered
  <2>1. From(k) \in Nat
    BY Froms
  <2> QED BY <1>3, <2>1
<1>5. InOrder(fates, 0, rx, written)
  BY <1>1, <1>4, EmptyIsClean DEF InOrder
<1>6. Local(fates, 0, written)
  BY DEF Local
<1>7. Lossless
  BY <1>1 DEF Lossless
<1> QED BY <1>1, <1>2, <1>5, <1>6, <1>7 DEF LossInv

\* LossInv is inductive, relative to GenuineInv.
LEMMA LossStep == GenuineInv /\ LossInv /\ [Next]_vars => LossInv'
<1> SUFFICES ASSUME SenderInv, ReceiverInv, LossInv, [Next]_vars PROVE LossInv'
  BY DEF GenuineInv
<1>1. ASSUME /\ rx' = rx /\ written' = written /\ receiver' = receiver
             /\ unchecked' = unchecked /\ fates' = fates /\ length' = length
             /\ repeated => repeated'
      PROVE  LossInv'
  <2>1. Lossless'
    BY <1>1 DEF LossInv, Lossless, Delivered, Matches
  <2> QED BY <1>1, <2>1 DEF LossInv
<1>2. CASE Sender
  <2>1. repeated => repeated'
    BY <1>2, SenderStep DEF SenderKeeps
  <2>2. /\ rx' = rx /\ written' = written /\ receiver' = receiver
        /\ unchecked' = unchecked /\ fates' = fates /\ length' = length
    BY <1>2 DEF Sender, ReadPacket, Send, EndOfFile, PadTail, SendTail, Flush, rxVars
  <2> QED BY <1>1, <2>1, <2>2
<1>3. CASE Receive
  BY <1>3, ReceivedLoss DEF Receive
<1>4. written \in Seq(Seq(Int)) /\ Proper(rx)
  BY DEF ReceiverInv, Ordered, Honest
<1>5. CASE ReceiveGarbled
  <2>1. Fated("garbled") /\ "garbled" \in Outcomes \ {"ok"} /\ "garbled" \in Outcomes
    BY <1>5 DEF ReceiveGarbled, Outcomes
  <2>2. PICK u \in 1 .. FieldLen :
          Handle([air[1] EXCEPT !.field = [@ EXCEPT ![u] = Garbled]])
    BY <1>5 DEF ReceiveGarbled
  <2>3. PICK i \in Nat : Undamaged(air[1], i)
    BY <2>1, HandledFated
  <2>4. PICK frame : Handle(frame) /\ Whole(frame)
    <3>1. Received([air[1] EXCEPT !.field = [@ EXCEPT ![u] = Garbled]], i)
      BY <2>3, Delivery
    <3> QED BY <2>2, <3>1 DEF Received
  <2>5. PICK packets \in Seq(Seq(Int)) : written' = written \o packets
    <3>1. written' = written \o RxPush(rx, frame).packets
      BY <2>4 DEF Handle
    <3>2. RxPush(rx, frame).packets \in Seq(Seq(Int))
      BY <1>4, <2>4, PacketsType
    <3> QED BY <3>1, <3>2
  <2> QED BY <2>1, <2>5, DamagedLoss
<1>6. CASE ReceiveBadHeader \/ Lose
  <2>1. PICK fate \in Outcomes \ {"ok"} : Fated(fate)
    <3>1. Fated("header") \/ Fated("lost")
      BY <1>6 DEF ReceiveBadHeader, Lose
    <3>2. "header" \in Outcomes \ {"ok"} /\ "lost" \in Outcomes \ {"ok"}
      BY DEF Outcomes
    <3> QED BY <3>1, <3>2
  <2>2. written' = written
    BY <1>6 DEF ReceiveBadHeader, Lose
  <2>3. PICK packets \in Seq(Seq(Int)) : written' = written \o packets
    <3>1. <<>> \in Seq(Seq(Int)) /\ written \o <<>> = written
      BY <1>4
    <3> QED BY <2>2, <3>1
  <2> QED BY <2>1, <2>3, DamagedLoss
<1>7. CASE Finalize
  <2>1. Lossless'
    BY <1>7, FinalizeLossless
  <2>2. /\ receiver' = "done" /\ unchecked' = rx.previous
        /\ written' = written /\ fates' = fates /\ repeated' = repeated
    BY <1>7 DEF Finalize
  <2>3. unchecked' \in Seq(Seq(Int))
    BY <1>4, <2>2 DEF Proper
  <2> QED BY <2>1, <2>2, <2>3 DEF LossInv
<1>8. CASE UNCHANGED vars
  BY <1>1, <1>8 DEF vars, txVars, rxVars
<1> QED BY <1>2, <1>3, <1>5, <1>6, <1>7, <1>8 DEF Next

\* Both hold in every state.
LEMMA LossInvariant == Spec => [](GenuineInv /\ LossInv)
<1>1. Init => GenuineInv /\ LossInv
  BY GenuineInitially, LossInitially
<1>2. GenuineInv /\ LossInv /\ [Next]_vars => (GenuineInv /\ LossInv)'
  BY GenuineStep, LossStep
<1> QED BY <1>1, <1>2, PTL DEF Spec

\* The frames that carry a packet and the one after it.
LEMMA Carriers ==
  ASSUME NEW k \in Nat
  PROVE  \E m, e \in Nat \ {0} :
           /\ m <= e /\ FramesOf(k) = m .. e
           /\ Off(m - 1) <= From(k) /\ From(k + 2) <= Off(e)
<1> DEFINE p == FieldLen
           a == From(k) \div p
           b == (From(k + 2) - 1) \div p
<1>1. /\ p \in Nat \ {0} /\ P \in Nat /\ 2 < P
      /\ From(k) \in Nat /\ From(k + 2) - 1 \in Nat /\ From(k) <= From(k + 2) - 1
  <2>1. k \in Int /\ 2 \in Int
    OBVIOUS
  <2>2. From(k + 2) = From(k) + 2 * P /\ From(k) \in Nat
    BY <2>1, ManyPackets, Froms
  <2> QED BY <2>2, Lengths
<1>2. FramesOf(k) = a + 1 .. b + 1
  BY DEF FramesOf, From
<1>3. \A i : Off(i) = i * p
  BY DEF Off
<1> HIDE DEF p
<1>4. PICK x \in Nat, y \in Nat : x = From(k) /\ y = From(k + 2) - 1 /\ x <= y
  BY <1>1
<1>5. /\ a \in Nat /\ a * p <= x /\ x < a * p + p
  BY <1>1, <1>4, Quotient
<1>6. /\ b \in Nat /\ b * p <= y /\ y < b * p + p
  BY <1>1, <1>4, Quotient
<1> HIDE DEF a, b
<1>7. a <= b
  <2>1. ~(b < a)
    <3>1. b < a => b * p + p <= a * p
      BY <1>1, <1>5, <1>6, MultipleApart
    <3>2. a * p \in Int /\ b * p \in Int
      BY <1>1, <1>5, <1>6, SMT
    <3> QED BY <1>1, <1>4, <1>5, <1>6, <3>1, <3>2
  <2> QED BY <1>5, <1>6, <2>1
<1>8. Off((a + 1) - 1) <= From(k)
  <2>1. (a + 1) - 1 = a
    BY <1>5
  <2> QED BY <1>3, <1>4, <1>5, <2>1
<1>9. From(k + 2) <= Off(b + 1)
  <2>1. (b + 1) * p = b * p + p /\ b * p \in Int
    BY <1>1, <1>6, SMT
  <2>2. From(k + 2) \in Int
    <3>1. k + 2 \in Int
      OBVIOUS
    <3> QED BY <3>1, Froms
  <2>3. From(k + 2) <= b * p + p
    BY <1>1, <1>4, <1>6, <2>1, <2>2
  <2> QED BY <1>3, <2>1, <2>3
<1>10. a + 1 \in Nat \ {0} /\ b + 1 \in Nat \ {0} /\ a + 1 <= b + 1
  BY <1>5, <1>6, <1>7
<1> QED BY <1>2, <1>8, <1>9, <1>10

\* They say what LossIsLocal does.
LEMMA LossImplies == GenuineInv /\ LossInv => LossIsLocal
<1> SUFFICES ASSUME SenderInv, ReceiverInv, LossInv, ~repeated,
                    NEW k \in 0 .. pushed - 1,
                    \A f \in FramesOf(k) : f <= Len(fates), ~Delivered(k),
                    \A f \in FramesOf(k) : \A g \in f - Reach .. f :
                      g > 0 => fates[g] = "ok"
             PROVE  FALSE
  BY DEF GenuineInv, LossIsLocal
<1>1. k \in Nat
  <2>1. pushed \in Nat
    BY DEF SenderInv, Numbers
  <2> QED BY <2>1
<1>2. PICK m, e \in Nat \ {0} :
        /\ m <= e /\ FramesOf(k) = m .. e
        /\ Off(m - 1) <= From(k) /\ From(k + 2) <= Off(e)
  BY <1>1, Carriers
<1>n. PICK n \in Nat : n = Len(fates)
  <2>1. fates \in Seq(Outcomes)
    BY DEF SenderInv, Numbers
  <2> QED BY <2>1
<1>3. e <= n /\ e \in 1 .. n /\ m \in 1 .. n
  <2>1. e \in m .. e
    BY <1>2
  <2>2. e <= n
    BY <1>2, <1>n, <2>1
  <2> QED BY <1>2, <2>2
<1>4. Calm(fates, m - Reach, e)
  <2> SUFFICES ASSUME NEW g \in 1 .. e, m - Reach <= g PROVE fates[g] = "ok"
    BY DEF Calm
  <2>1. Reach \in {1, 2}
    BY Reaches
  <2>2. CASE g <= m
    <3>1. m \in FramesOf(k) /\ g \in m - Reach .. m /\ g > 0
      BY <1>2, <2>1, <2>2
    <3> QED BY <3>1
  <2>3. CASE m < g
    <3>1. g \in FramesOf(k) /\ g \in g - Reach .. g /\ g > 0
      BY <1>2, <2>1, <2>3
    <3> QED BY <3>1
  <2> QED BY <1>2, <2>2, <2>3
<1>5. Among(written, k)
  <2>1. Local(fates, n, written)
    BY <1>n DEF LossInv
  <2> QED BY <1>1, <1>2, <1>3, <1>4, <2>1 DEF Local
<1>6. written \in Seq(Seq(Int)) /\ unchecked \in Seq(Seq(Int))
  BY DEF ReceiverInv, Ordered, LossInv
<1> QED BY <1>5, <1>6, StillDelivered

\* LossIsLocal: a packet all of whose frames were handled is written, unless one of
\* them was damaged or they come within Reach of one that was.
THEOREM OnlyDamageLoses == Spec => []LossIsLocal
<1> QED BY LossInvariant, LossImplies, PTL

\* Lossless: over a link without losses every packet of the file is written, the last
\* one perhaps by ts_rx_finalize_unchecked.
THEOREM NothingLost == Spec => []Lossless
<1>1. GenuineInv /\ LossInv => Lossless
  BY DEF LossInv
<1> QED BY <1>1, LossInvariant, PTL
=============================================================================
