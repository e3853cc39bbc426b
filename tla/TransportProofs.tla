-------------------------- MODULE TransportProofs --------------------------
(***************************************************************************)
(* The frames of a connection arrive whole and in order, for frames of any *)
(* size, any traffic, any window and however the kernel cuts the units;    *)
(* recv's 0 is the end of the stream.  And the types of both transports.   *)
(*                                                                         *)
(* The argument looks at one direction at a time, and at its wire: what    *)
(* the receiving call has got of a frame, followed by what is on its way.  *)
(* Whether or not a call has failed, the last units of frames come on the  *)
(* wire in rising order and after those of the frames accepted, so that a  *)
(* buffer that decodes is a frame sent, and later than the last one.       *)
(* Until a call fails, the accepted frames and the wire together are all   *)
(* that the peer has sent.                                                 *)
(*                                                                         *)
(* First the order of frames as their wrapping numbers show it in the UDP  *)
(* transport, for every width of the numbers, every first number and any   *)
(* number of frames.                                                       *)
(***************************************************************************)
EXTENDS Transport, Counting, TLAPS

-----------------------------------------------------------------------------
(* Numbers that wrap                                                       *)

\* Half the modulus is a whole number, and a frame is overtaken by that at most.
LEMMA HalfTwice == /\ SeqModulus \in Nat \ {0} /\ Half \in Nat \ {0}
                   /\ SeqModulus = Half + Half /\ Overtaken <= Half /\ Overtaken \in Nat
<1>1. SeqModulus \in Nat \ {0} /\ SeqModulus % 2 = 0 /\ Overtaken \in Nat /\ 2 * Overtaken <= SeqModulus
  BY UdpAssumption
<1>2. SeqModulus = 2 * (SeqModulus \div 2) + (SeqModulus % 2) /\ SeqModulus \div 2 \in Int
  BY <1>1, SMT
<1> QED BY <1>1, <1>2 DEF Half

\* A number that is behind another, by half the modulus at most, is not after it.
LEMMA BehindIsNotAfter ==
  ASSUME NEW x \in Int, NEW d \in 0 .. Half
  PROVE  ~seq_after((x - d) % SeqModulus, x % SeqModulus)
<1> DEFINE M == SeqModulus
           r == x % M
           c == (x - d) % M
<1>1. M \in Nat \ {0} /\ Half \in Nat \ {0} /\ M = Half + Half /\ d \in 0 .. M - 1
  BY HalfTwice
<1>2. r \in 0 .. M - 1 /\ c = IF d <= r THEN r - d ELSE r - d + M
  BY <1>1, BackModulo
<1>3. (c - r) % M = IF d = 0 THEN 0 ELSE M - d
  <2>1. CASE d <= r
    <3>1. c - r = 0 - d
      BY <1>1, <1>2, <2>1
    <3>2. 0 % M = 0
      BY <1>1
    <3>3. (0 - d) % M = IF d <= 0 THEN 0 - d ELSE 0 - d + M
      BY <1>1, <3>2, BackModulo
    <3> QED BY <1>1, <3>1, <3>3
  <2>2. CASE d > r
    <3>1. c - r = M - d /\ M - d \in 0 .. M - 1 /\ d # 0
      BY <1>1, <1>2, <2>2
    <3>2. (M - d) % M = M - d
      BY <1>1, <3>1
    <3> QED BY <3>1, <3>2
  <2> QED BY <1>1, <1>2, <2>1, <2>2
<1>4. seq_compare(c, r) = IF (c - r) % M < Half THEN (c - r) % M ELSE ((c - r) % M) - M
  BY DEF seq_compare
<1>5. ~(seq_compare(c, r) > 0)
  <2>1. ASSUME NEW D, D = (c - r) % M
        PROVE  ~((IF D < Half THEN D ELSE D - M) > 0)
    BY <1>1, <1>3, <2>1
  <2> QED BY <1>4, <2>1
<1> QED BY <1>5 DEF seq_after

\* A number that is ahead of another, by less than half the modulus, is after it.
LEMMA AheadIsAfter ==
  ASSUME NEW x \in Int, NEW d \in 1 .. Half - 1
  PROVE  seq_after(x % SeqModulus, (x - d) % SeqModulus)
<1> DEFINE M == SeqModulus
           r == x % M
           c == (x - d) % M
<1>1. M \in Nat \ {0} /\ Half \in Nat \ {0} /\ M = Half + Half /\ d \in 0 .. M - 1
  BY HalfTwice
<1>2. r \in 0 .. M - 1 /\ c = IF d <= r THEN r - d ELSE r - d + M
  BY <1>1, BackModulo
<1>3. (r - c) % M = d
  <2>1. CASE d <= r
    <3>1. r - c = d
      BY <1>1, <1>2, <2>1
    <3> QED BY <1>1, <3>1
  <2>2. CASE d > r
    <3>1. r - c = 0 - (M - d) /\ M - d \in 0 .. M - 1 /\ 0 % M = 0
      BY <1>1, <1>2, <2>2
    <3>2. (0 - (M - d)) % M = IF M - d <= 0 THEN 0 - (M - d) ELSE 0 - (M - d) + M
      BY <1>1, <3>1, BackModulo
    <3> QED BY <1>1, <3>1, <3>2
  <2> QED BY <1>1, <1>2, <2>1, <2>2
<1>4. seq_compare(r, c) = IF (r - c) % M < Half THEN (r - c) % M ELSE ((r - c) % M) - M
  BY DEF seq_compare
<1>5. seq_compare(r, c) = d
  BY <1>1, <1>3, <1>4
<1> QED BY <1>5 DEF seq_after

\* What the receiver knows, and how far behind it the frames still to be looked
\* at can be: those in the socket, in the order in which they came, were not
\* overtaken by more than half the numbers.
OrderInv ==
  /\ first \in 0 .. SeqModulus - 1 /\ made \in Nat /\ newest \in Int
  /\ net \subseteq 0 .. made - 1
  /\ inbox \in Seq(Nat)
  /\ \A i \in 1 .. Len(inbox) : inbox[i] < made
  /\ last_seq = (first + newest) % SeqModulus
  /\ newest <= Half \/ newest < made
  /\ \A i \in 1 .. Len(inbox) : newest - inbox[i] <= Half
  /\ \A i, j \in 1 .. Len(inbox) : i < j => inbox[i] - inbox[j] <= Half

\* The receiver begins as if it had taken the frame with the number 0.
LEMMA OrderInit == UdpInit => OrderInv
<1> SUFFICES ASSUME UdpInit PROVE OrderInv
  OBVIOUS
<1>1. first \in 0 .. SeqModulus - 1 /\ made = 0 /\ net = {} /\ inbox = <<>> /\ last_seq = 0
  BY UdpAssumption DEF UdpInit
<1>2. newest = IF first < Half THEN 0 - first ELSE SeqModulus - first
  BY <1>1, HalfTwice DEF UdpInit, Start
<1>3. newest \in Int /\ newest <= Half
  BY <1>1, <1>2, HalfTwice
<1>4. (first + newest) % SeqModulus = 0
  <2>1. CASE first < Half
    <3>1. first + newest = 0
      BY <1>1, <1>2, <2>1, HalfTwice
    <3> QED BY <3>1, HalfTwice
  <2>2. CASE first >= Half
    <3>1. /\ first + newest \in Int /\ 1 \in Int /\ 0 \in 0 .. SeqModulus - 1
          /\ first + newest = SeqModulus * 1 + 0
      BY <1>1, <1>2, <2>2, HalfTwice
    <3> QED BY <3>1, HalfTwice, Remainder, Zenon
  <2> QED BY <1>1, <2>1, <2>2, HalfTwice
<1> QED BY <1>1, <1>3, <1>4 DEF OrderInv

\* A frame that arrives is behind no other by more than it can be overtaken.
LEMMA ArriveInv == OrderInv /\ Arrive => OrderInv'
<1> SUFFICES ASSUME OrderInv, Arrive PROVE OrderInv'
  OBVIOUS
<1>1. PICK k \in net : /\ made - 1 - k <= Overtaken
                       /\ inbox' = Append(inbox, k)
                       /\ net' \subseteq net
  BY DEF Arrive
<1>2. UNCHANGED <<first, made, last_seq, newest>>
  BY DEF Arrive
<1>3. k \in Nat /\ k < made /\ inbox \in Seq(Nat) /\ made \in Nat /\ newest \in Int
  BY DEF OrderInv
<1>4. /\ Len(inbox') = Len(inbox) + 1 /\ Len(inbox) \in Nat /\ inbox' \in Seq(Nat)
      /\ inbox'[Len(inbox) + 1] = k
      /\ \A i \in 1 .. Len(inbox) : inbox'[i] = inbox[i] /\ inbox[i] \in Nat
  BY <1>1, <1>3
<1>5. newest - k <= Half
  BY <1>1, <1>3, HalfTwice DEF OrderInv
<1>6. \A i \in 1 .. Len(inbox) : inbox[i] - k <= Half
  BY <1>1, <1>3, <1>4, HalfTwice DEF OrderInv
<1>7. \A i \in 1 .. Len(inbox') : i \in 1 .. Len(inbox) \/ i = Len(inbox) + 1
  BY <1>4
<1>8. ASSUME NEW i \in 1 .. Len(inbox') PROVE inbox'[i] < made /\ newest - inbox'[i] <= Half
  <2>1. CASE i \in 1 .. Len(inbox)
    BY <2>1, <1>4 DEF OrderInv
  <2>2. CASE i = Len(inbox) + 1
    BY <2>2, <1>3, <1>4, <1>5
  <2> QED BY <1>7, <2>1, <2>2
<1>9. ASSUME NEW i \in 1 .. Len(inbox'), NEW j \in 1 .. Len(inbox'), i < j
      PROVE  inbox'[i] - inbox'[j] <= Half
  <2>1. CASE j \in 1 .. Len(inbox)
    <3>1. i \in 1 .. Len(inbox)
      BY <2>1, <1>4, <1>9
    <3>2. inbox[i] - inbox[j] <= Half
      BY <3>1, <2>1, <1>9 DEF OrderInv
    <3> QED BY <3>1, <3>2, <2>1, <1>4
  <2>2. CASE j = Len(inbox) + 1
    <3>1. i \in 1 .. Len(inbox)
      BY <2>2, <1>4, <1>9
    <3> QED BY <3>1, <2>2, <1>4, <1>6
  <2> QED BY <1>7, <2>1, <2>2
<1> QED BY <1>1, <1>2, <1>4, <1>8, <1>9, HalfTwice DEF OrderInv, Half

\* A frame that is taken out of the socket leaves the others in order, whether
\* it becomes the newest or not.
LEMMA TailInv ==
  ASSUME OrderInv, inbox # <<>>, inbox' = Tail(inbox),
         UNCHANGED <<first, made, net>>,
         \/ UNCHANGED <<last_seq, newest>>
         \/ newest' = Head(inbox) /\ last_seq' = sequence(Head(inbox))
  PROVE  OrderInv'
<1>1. /\ inbox \in Seq(Nat) /\ Len(inbox) \in Nat /\ Len(inbox) >= 1 /\ made \in Nat
      /\ inbox' \in Seq(Nat) /\ Len(inbox') = Len(inbox) - 1
      /\ \A i \in 1 .. Len(inbox') : inbox'[i] = inbox[i + 1] /\ i + 1 \in 1 .. Len(inbox)
      /\ Head(inbox) = inbox[1] /\ inbox[1] \in Nat /\ 1 \in 1 .. Len(inbox)
  BY DEF OrderInv
<1>2. \A i \in 1 .. Len(inbox') : inbox'[i] < made /\ newest - inbox'[i] <= Half
                                  /\ inbox[1] - inbox'[i] <= Half
  BY <1>1 DEF OrderInv
<1>3. \A i, j \in 1 .. Len(inbox') : i < j => inbox'[i] - inbox'[j] <= Half
  BY <1>1 DEF OrderInv
<1>4. inbox[1] < made
  BY <1>1 DEF OrderInv
<1> QED BY <1>1, <1>2, <1>3, <1>4 DEF OrderInv, sequence

\* Every step keeps the order of the numbers and the order of sending together.
LEMMA OrderNext == OrderInv /\ [UdpNext]_udpVars => OrderInv'
<1> SUFFICES ASSUME OrderInv, [UdpNext]_udpVars PROVE OrderInv'
  OBVIOUS
<1>1. CASE UNCHANGED <<first, made, net, inbox, last_seq, newest>>
  BY <1>1 DEF OrderInv
<1>2. CASE SetPeer \/ Bind \/ (\E timed \in BOOLEAN : UdpBeginRecv(timed))
           \/ SelectReady \/ SelectTimesOut \/ SelectInterrupted \/ UNCHANGED udpVars
  BY <1>1, <1>2 DEF SetPeer, Bind, UdpBeginRecv, SelectReady, SelectTimesOut,
                    SelectInterrupted, udpVars
<1>3. CASE UdpSendOk
  BY <1>3 DEF UdpSendOk, OrderInv
<1>4. CASE UdpSendFails
  BY <1>4 DEF UdpSendFails, OrderInv
<1>5. CASE Lose
  BY <1>5 DEF Lose, OrderInv
<1>6. CASE Arrive
  BY <1>6, ArriveInv
<1>7. CASE RecvWhole
  BY <1>7, TailInv DEF RecvWhole
<1>8. CASE RecvTruncated
  BY <1>8, TailInv DEF RecvTruncated
<1>9. CASE UdpClose
  BY <1>9 DEF UdpClose, OrderInv
<1> QED BY <1>2, <1>3, <1>4, <1>5, <1>6, <1>7, <1>8, <1>9 DEF UdpNext, UdpWaiting

\* A frame received is compared as its place in the order of sending would be.
LEMMA VerdictRight ==
  ASSUME OrderInv, RecvWhole
  PROVE  /\ verdict' = "taken" => newest' > newest
         /\ verdict' = "old" => Head(inbox) <= newest \/ Head(inbox) - newest >= Half
<1> DEFINE k == Head(inbox)
<1>1. /\ k \in Nat /\ newest \in Int /\ first \in Int /\ newest - k <= Half
      /\ last_seq = (first + newest) % SeqModulus
      /\ sequence(k) = (first + k) % SeqModulus
  <2>1. inbox \in Seq(Nat) /\ inbox # <<>> /\ first \in 0 .. SeqModulus - 1
    BY DEF OrderInv, RecvWhole
  <2>2. k = inbox[1] /\ 1 \in 1 .. Len(inbox) /\ k \in Nat
    BY <2>1
  <2>3. newest - k <= Half
    BY <2>2 DEF OrderInv
  <2> QED BY <2>1, <2>2, <2>3, HalfTwice DEF OrderInv, sequence
<1>2. CASE k <= newest
  <2>1. newest - k \in 0 .. Half
    BY <1>1, <1>2, HalfTwice
  <2>2. ~seq_after((first + newest - (newest - k)) % SeqModulus, last_seq)
    BY <1>1, <2>1, BehindIsNotAfter
  <2>3. first + newest - (newest - k) = first + k
    BY <1>1
  <2>4. ~seq_after(sequence(k), last_seq)
    BY <1>1, <2>2, <2>3
  <2> QED BY <1>2, <2>4 DEF RecvWhole
<1>3. CASE k > newest /\ k - newest < Half
  <2>1. PICK x \in Int, d \in 1 .. Half - 1 : x = first + k /\ d = k - newest
    BY <1>1, <1>3, HalfTwice
  <2>2. seq_after(x % SeqModulus, (x - d) % SeqModulus)
    BY AheadIsAfter
  <2>3. x - d = first + newest
    BY <1>1, <2>1
  <2>4. seq_after(sequence(k), last_seq)
    BY <1>1, <2>1, <2>2, <2>3
  <2> QED BY <1>3, <2>4 DEF RecvWhole
<1>4. CASE k > newest /\ k - newest >= Half
  BY <1>4 DEF RecvWhole
<1> QED BY <1>1, <1>2, <1>3, <1>4, HalfTwice

\* No frame is taken twice or after a newer one, across any number of wraps.
THEOREM FramesInOrder == UdpSpec => FramesForward
<1>1. OrderInv /\ [UdpNext]_udpVars =>
        [RecvWhole /\ verdict' = "taken" => newest' > newest]_udpVars
  BY VerdictRight
<1> QED BY <1>1, OrderInit, OrderNext, PTL DEF UdpSpec, FramesForward

\* No newer frame is refused as old, unless half the numbers were skipped.
THEOREM NewFramesTaken == UdpSpec => NewerTaken
<1>1. OrderInv /\ [UdpNext]_udpVars =>
        [RecvWhole /\ verdict' = "old" =>
           Head(inbox) <= newest \/ Head(inbox) - newest >= Half]_udpVars
  BY VerdictRight
<1> QED BY <1>1, OrderInit, OrderNext, PTL DEF UdpSpec, NewerTaken

-----------------------------------------------------------------------------
(* Frames and units                                                        *)

F == FrameLen

\* The first unit of frame k.
From(k) == k * FrameLen

\* The last unit of a frame.
Final(u) == \E k \in Nat : u = From(k) + F - 1

\* The finals of w come in order, each once.
Rising(w) ==
  \A i, j \in 1 .. Len(w) : i < j /\ Final(w[i]) /\ Final(w[j]) => w[i] < w[j]

\* Units of a connection on which b frames have been sent whole: the finals are of
\* those frames, and come after those of the frames that were accepted, acc.
Flow(w, acc, b) ==
  /\ Rising(w)
  /\ \A i \in 1 .. Len(w) : Final(w[i]) => w[i] < From(b)
  /\ \A i \in 1 .. Len(acc) :
       /\ \E k \in 0 .. b - 1 : acc[i] = Frame(k)
       /\ i > 1 => acc[i - 1][1] < acc[i][1]
       /\ \A j \in 1 .. Len(w) : Final(w[j]) => acc[i][1] + F - 1 < w[j]

Consecutive(w, from) == \A j \in 1 .. Len(w) : w[j] = from + j - 1

\* Frames of F units lie one after the other.
LEMMA Units ==
  /\ F \in Nat \ {0}
  /\ From(0) = 0
  /\ \A k \in Nat : From(k) \in Nat /\ From(k + 1) = From(k) + F
  /\ \A j, k \in Nat : j < k => From(j) + F <= From(k)
<1>1. FrameLen \in Nat \ {0}
  BY TcpAssumption
<1>2. \A k \in Nat : k * FrameLen \in Nat /\ (k + 1) * FrameLen = k * FrameLen + FrameLen
  BY <1>1, SMT
<1>3. \A j, k \in Nat : j < k => j * FrameLen + FrameLen <= k * FrameLen
  <2> TAKE j, k \in Nat
  <2> QED BY <1>1, MultipleApart
<1>4. 0 * FrameLen = 0
  BY <1>1, SMT
<1> QED BY <1>1, <1>2, <1>3, <1>4, Zenon DEF F, From

\* What SMT knows of sequences of units, stated once so that no more is needed.
LEMMA Concatenation ==
  ASSUME NEW s \in Seq(Nat), NEW u \in Seq(Nat)
  PROVE  /\ s \o u \in Seq(Nat) /\ Len(s \o u) = Len(s) + Len(u)
         /\ Len(s) \in Nat /\ Len(u) \in Nat
         /\ \A i \in 1 .. Len(s) : (s \o u)[i] = s[i]
         /\ \A i \in 1 .. Len(u) : (s \o u)[Len(s) + i] = u[i]
OBVIOUS

\* A later part of a sequence.
LEMMA Subsequence ==
  ASSUME NEW s \in Seq(Nat), NEW m \in Nat, NEW n \in Nat, m <= n, n <= Len(s)
  PROVE  /\ SubSeq(s, m + 1, n) \in Seq(Nat) /\ Len(SubSeq(s, m + 1, n)) = n - m
         /\ \A i \in 1 .. n - m : SubSeq(s, m + 1, n)[i] = s[m + i]
OBVIOUS

\* Units are numbers.
LEMMA SequenceType ==
  ASSUME NEW s \in Seq(Nat)
  PROVE  Len(s) \in Nat /\ \A i \in 1 .. Len(s) : s[i] \in Nat
OBVIOUS

\* Sequences are equal when their units are.
LEMMA SameSequence ==
  ASSUME NEW s \in Seq(Nat), NEW u \in Seq(Nat), Len(s) = Len(u),
         \A j \in 1 .. Len(s) : s[j] = u[j]
  PROVE  s = u
<1>1. s = [j \in 1 .. Len(s) |-> s[j]] /\ u = [j \in 1 .. Len(u) |-> u[j]]
  OBVIOUS
<1>2. [j \in 1 .. Len(s) |-> s[j]] = [j \in 1 .. Len(u) |-> u[j]]
  OBVIOUS
<1> QED BY <1>1, <1>2

\* What BeginSend puts into part.
LEMMA FrameType ==
  ASSUME NEW k \in Nat
  PROVE  /\ Frame(k) \in Seq(Nat) /\ Len(Frame(k)) = F
         /\ \A j \in 1 .. F : Frame(k)[j] = From(k) + j - 1
<1>1. Frame(k) = [j \in 1 .. F |-> From(k) + j - 1]
  BY DEF Frame, F, From
<1>2. From(k) \in Nat /\ F \in Nat \ {0}
  BY Units
<1>3. [j \in 1 .. F |-> From(k) + j - 1] \in Seq(Nat) /\ Len([j \in 1 .. F |-> From(k) + j - 1]) = F
  BY <1>2
<1> QED BY <1>1, <1>2, <1>3

\* A frame has one final, and it is the last unit.
LEMMA FinalOf ==
  ASSUME NEW k \in Nat, NEW u \in Nat, From(k) <= u, u < From(k) + F
  PROVE  Final(u) <=> u = From(k) + F - 1
<1>1. ASSUME NEW j \in Nat, u = From(j) + F - 1 PROVE j = k
  <2>1. From(j) \in Nat /\ From(k) \in Nat /\ F \in Nat \ {0}
    BY Units
  <2>2. ~(j < k)
    <3>1. j < k => From(j) + F <= From(k)
      BY Units
    <3> QED BY <1>1, <2>1, <3>1
  <2>3. ~(k < j)
    <3>1. k < j => From(k) + F <= From(j)
      BY Units
    <3> QED BY <1>1, <2>1, <3>1
  <2> QED BY <2>2, <2>3
<1> QED BY <1>1, Zenon DEF Final

\* What the decoder accepts is a frame.
LEMMA DecodesFrame ==
  ASSUME NEW buf \in Seq(Nat), Decodes(buf)
  PROVE  /\ Len(buf) = F
         /\ \E k \in Nat : buf = Frame(k) /\ buf[1] = From(k) /\ buf[F] = From(k) + F - 1
<1>1. Len(buf) = F /\ buf[1] % F = 0 /\ \A j \in 1 .. F : buf[j] = buf[1] + j - 1
  BY DEF Decodes, Magic, F
<1>2. F \in Nat \ {0} /\ 1 \in 1 .. F /\ F \in 1 .. F
  BY Units
<1>3. buf[1] \in Nat
  BY <1>1, <1>2, SequenceType
<1>4. PICK k \in Nat : buf[1] = From(k)
  <2>1. ASSUME NEW x \in Nat, NEW p \in Nat \ {0}, x % p = 0 PROVE \E n \in Nat : x = n * p
    <3>1. x = p * (x \div p) + (x % p) /\ x \div p \in Nat
      BY SMT
    <3>2. x = (x \div p) * p
      BY <2>1, <3>1, SMT
    <3> QED BY <3>1, <3>2
  <2> QED BY <1>1, <1>2, <1>3, <2>1 DEF From, F
<1>5. /\ Frame(k) \in Seq(Nat) /\ Len(Frame(k)) = F
      /\ \A j \in 1 .. F : Frame(k)[j] = From(k) + j - 1
  BY FrameType
<1>6. \A j \in 1 .. F : buf[j] = From(k) + j - 1
  BY <1>1, <1>4, Zenon
<1>7. buf = Frame(k)
  BY <1>1, <1>5, <1>6, SameSequence
<1>8. buf[F] = From(k) + F - 1
  BY <1>2, <1>6
<1> QED BY <1>1, <1>4, <1>7, <1>8

\* An accepted frame was sent whole.
LEMMA AcceptedFrom ==
  ASSUME NEW w, NEW acc, NEW b \in Nat, Flow(w, acc, b)
  PROVE  \A i \in 1 .. Len(acc) : \E k \in 0 .. b - 1 :
           /\ acc[i] = Frame(k) /\ acc[i][1] = From(k)
           /\ From(k) \in Nat /\ From(k) + F <= From(b)
<1> TAKE i \in 1 .. Len(acc)
<1>1. PICK k \in 0 .. b - 1 : acc[i] = Frame(k)
  BY DEF Flow
<1>2. k \in Nat /\ k < b
  OBVIOUS
<1>3. From(k) \in Nat /\ F \in Nat \ {0} /\ From(k) + F <= From(b)
  BY <1>2, Units
<1>4. Frame(k)[1] = From(k) + 1 - 1
  <2>1. 1 \in 1 .. F
    BY <1>3
  <2> QED BY <1>2, <2>1, FrameType
<1>5. acc[i][1] = From(k)
  BY <1>1, <1>3, <1>4
<1> QED BY <1>1, <1>3, <1>5

\* And it is before the end of any frame that was not.
LEMMA AcceptedBefore ==
  ASSUME NEW w, NEW acc, NEW b \in Nat, Flow(w, acc, b)
  PROVE  \A i \in 1 .. Len(acc) :
           acc[i][1] \in Nat /\ acc[i][1] + F - 1 < From(b) + F - 1
<1> TAKE i \in 1 .. Len(acc)
<1>1. PICK k \in 0 .. b - 1 : acc[i][1] = From(k) /\ From(k) \in Nat /\ From(k) + F <= From(b)
  BY AcceptedFrom
<1>2. From(b) \in Nat /\ F \in Nat \ {0}
  BY Units
<1> QED BY <1>1, <1>2

\* A unit of an earlier frame is before the final of a later one.
LEMMA Beyond ==
  ASSUME NEW b \in Nat, NEW u \in Nat, u < From(b)
  PROVE  u < From(b) + F - 1 /\ u < From(b) + F /\ u < From(b + 1)
<1>1. From(b) \in Nat /\ F \in Nat \ {0} /\ From(b + 1) = From(b) + F
  BY Units
<1> QED BY <1>1

\* A stretch of the units, and perhaps more frames sent.
LEMMA FlowStretch ==
  ASSUME NEW w \in Seq(Nat), NEW acc, NEW b \in Nat, Flow(w, acc, b),
         NEW x \in Seq(Nat), NEW d \in Nat, d + Len(x) <= Len(w),
         \A j \in 1 .. Len(x) : x[j] = w[d + j],
         NEW c \in {b, b + 1}
  PROVE  Flow(x, acc, c)
<1>0. Len(x) \in Nat /\ Len(w) \in Nat
  BY SequenceType
<1>1. From(b) \in Nat /\ From(c) \in Nat /\ From(b) <= From(c)
  <2>1. From(b) \in Nat /\ From(b + 1) = From(b) + F /\ F \in Nat
    BY Units
  <2> QED BY <2>1
<1>2. \A j \in 1 .. Len(x) : d + j \in 1 .. Len(w) /\ x[j] = w[d + j] /\ x[j] \in Nat
  BY <1>0, SequenceType
<1>3. Rising(x)
  <2> SUFFICES ASSUME NEW i \in 1 .. Len(x), NEW j \in 1 .. Len(x), i < j, Final(x[i]), Final(x[j])
               PROVE  x[i] < x[j]
    BY DEF Rising
  <2>1. d + i \in 1 .. Len(w) /\ d + j \in 1 .. Len(w) /\ d + i < d + j
    BY <1>0, <1>2
  <2> QED BY <1>2, <2>1 DEF Flow, Rising
<1>4. \A i \in 1 .. Len(x) : Final(x[i]) => x[i] < From(c)
  <2> TAKE i \in 1 .. Len(x)
  <2>1. Final(x[i]) => x[i] < From(b)
    BY <1>2 DEF Flow
  <2> QED BY <1>1, <1>2, <2>1, SMTT(30)
<1>5. ASSUME NEW i \in 1 .. Len(acc)
      PROVE  /\ \E k \in 0 .. c - 1 : acc[i] = Frame(k)
             /\ i > 1 => acc[i - 1][1] < acc[i][1]
             /\ \A j \in 1 .. Len(x) : Final(x[j]) => acc[i][1] + F - 1 < x[j]
  <2>1. \E k \in 0 .. c - 1 : acc[i] = Frame(k)
    <3>1. PICK k \in 0 .. b - 1 : acc[i] = Frame(k)
      BY DEF Flow
    <3>2. k \in 0 .. c - 1
      OBVIOUS
    <3> QED BY <3>1, <3>2
  <2>2. i > 1 => acc[i - 1][1] < acc[i][1]
    BY DEF Flow
  <2>3. ASSUME NEW j \in 1 .. Len(x), Final(x[j]) PROVE acc[i][1] + F - 1 < x[j]
    <3>1. d + j \in 1 .. Len(w) /\ x[j] = w[d + j]
      BY <1>2
    <3> QED BY <2>3, <3>1 DEF Flow
  <2> QED BY <2>1, <2>2, <2>3
<1> QED BY <1>3, <1>4, <1>5 DEF Flow

\* Among consecutive units of a frame only the last can be its final.
LEMMA FinalSent ==
  ASSUME NEW b \in Nat, NEW p \in Seq(Nat), NEW o \in 0 .. F, o + Len(p) <= F,
         Consecutive(p, From(b) + o)
  PROVE  \A j \in 1 .. Len(p) :
           Final(p[j]) => j = Len(p) /\ o + Len(p) = F /\ p[j] = From(b) + F - 1
<1> SUFFICES ASSUME NEW j \in 1 .. Len(p), Final(p[j])
             PROVE  j = Len(p) /\ o + Len(p) = F /\ p[j] = From(b) + F - 1
  OBVIOUS
<1>1. From(b) \in Nat /\ F \in Nat \ {0} /\ Len(p) \in Nat /\ o \in Nat /\ j \in Nat
  BY Units, SequenceType
<1>2. p[j] = From(b) + o + j - 1
  BY DEF Consecutive
<1>3. o + j <= F /\ j >= 1 /\ j <= Len(p)
  BY <1>1
<1>4. p[j] \in Nat /\ From(b) <= p[j] /\ p[j] < From(b) + F
  BY <1>1, <1>2, <1>3
<1>5. p[j] = From(b) + F - 1
  BY <1>4, FinalOf
<1>6. o + j = F
  BY <1>1, <1>2, <1>3, <1>5
<1>7. j = Len(p)
  BY <1>1, <1>3, <1>6
<1> QED BY <1>5, <1>6, <1>7

\* Units of the next frame are sent, from its unit o on.
LEMMA FlowSent ==
  ASSUME NEW w \in Seq(Nat), NEW acc, NEW b \in Nat, Flow(w, acc, b),
         NEW p \in Seq(Nat), NEW o \in 0 .. F, o + Len(p) <= F,
         Consecutive(p, From(b) + o),
         NEW c \in {b, b + 1}, o + Len(p) = F <=> c = b + 1
  PROVE  Flow(w \o p, acc, c)
<1> DEFINE x == w \o p
<1>0. From(b) \in Nat /\ F \in Nat \ {0} /\ From(b + 1) = From(b) + F /\ c \in Nat
  BY Units
<1>1. /\ x \in Seq(Nat) /\ Len(x) = Len(w) + Len(p) /\ Len(w) \in Nat /\ Len(p) \in Nat
      /\ \A i \in 1 .. Len(w) : x[i] = w[i] /\ w[i] \in Nat
      /\ \A i \in 1 .. Len(p) : x[Len(w) + i] = p[i]
  BY Concatenation, SequenceType
<1> HIDE DEF x
<1>2. \A j \in 1 .. Len(p) : Final(p[j]) => j = Len(p) /\ o + Len(p) = F /\ p[j] = From(b) + F - 1
  BY FinalSent
<1>3. ASSUME NEW i \in 1 .. Len(x)
      PROVE  \/ i \in 1 .. Len(w) /\ x[i] = w[i]
             \/ i > Len(w) /\ (Final(x[i]) => /\ i = Len(x) /\ o + Len(p) = F
                                              /\ x[i] = From(b) + F - 1)
  <2>1. CASE i <= Len(w)
    BY <1>1, <2>1, SMTT(40)
  <2>2. CASE i > Len(w)
    <3>1. PICK j \in 1 .. Len(p) : i = Len(w) + j
      <4>1. i - Len(w) \in 1 .. Len(p) /\ i = Len(w) + (i - Len(w))
        BY <1>1, <2>2
      <4> QED BY <4>1
    <3> QED BY <1>1, <1>2, <2>2, <3>1
  <2> QED BY <1>1, <2>1, <2>2
<1>4. \A i \in 1 .. Len(w) : Final(w[i]) => w[i] < From(b)
  BY DEF Flow
<1>5. Rising(x)
  <2> SUFFICES ASSUME NEW i \in 1 .. Len(x), NEW j \in 1 .. Len(x), i < j, Final(x[i]), Final(x[j])
               PROVE  x[i] < x[j]
    BY DEF Rising
  <2>1. CASE j \in 1 .. Len(w)
    <3>1. i \in 1 .. Len(w)
      BY <1>1, <2>1
    <3>2. x[i] = w[i] /\ x[j] = w[j]
      BY <1>1, <2>1, <3>1
    <3> QED BY <2>1, <3>1, <3>2 DEF Flow, Rising
  <2>2. CASE j \notin 1 .. Len(w)
    <3>1. j = Len(x) /\ x[j] = From(b) + F - 1
      BY <1>3, <2>2
    <3>2. i \in 1 .. Len(w) /\ x[i] = w[i]
      BY <1>1, <1>3, <3>1
    <3>3. w[i] < From(b) /\ w[i] \in Nat
      BY <1>1, <1>4, <3>2
    <3>4. w[i] < From(b) + F - 1
      BY <3>3, Beyond
    <3> QED BY <3>1, <3>2, <3>4
  <2> QED BY <2>1, <2>2
<1>6. \A i \in 1 .. Len(x) : Final(x[i]) => x[i] < From(c)
  <2> SUFFICES ASSUME NEW i \in 1 .. Len(x), Final(x[i]) PROVE x[i] < From(c)
    OBVIOUS
  <2>1. CASE i \in 1 .. Len(w)
    <3>1. x[i] < From(b) /\ x[i] \in Nat
      BY <1>1, <1>4, <2>1
    <3>2. From(c) \in {From(b), From(b) + F}
      BY <1>0
    <3> QED BY <1>0, <3>1, <3>2, SMTT(40)
  <2>2. CASE i \notin 1 .. Len(w)
    <3>1. o + Len(p) = F /\ x[i] = From(b) + F - 1
      BY <1>3, <2>2
    <3>2. From(c) = From(b) + F
      BY <1>0, <3>1
    <3> QED BY <1>0, <3>1, <3>2
  <2> QED BY <2>1, <2>2
<1>7. ASSUME NEW i \in 1 .. Len(acc)
      PROVE  /\ \E k \in 0 .. c - 1 : acc[i] = Frame(k)
             /\ i > 1 => acc[i - 1][1] < acc[i][1]
             /\ \A j \in 1 .. Len(x) : Final(x[j]) => acc[i][1] + F - 1 < x[j]
  <2>1. PICK k \in 0 .. b - 1 : acc[i] = Frame(k)
    BY DEF Flow
  <2>2. k \in 0 .. c - 1
    OBVIOUS
  <2>3. ASSUME NEW j \in 1 .. Len(x), Final(x[j]) PROVE acc[i][1] + F - 1 < x[j]
    <3>1. CASE j \in 1 .. Len(w)
      BY <1>1, <2>3, <3>1 DEF Flow
    <3>2. CASE j \notin 1 .. Len(w)
      <4>1. x[j] = From(b) + F - 1
        BY <1>3, <2>3, <3>2
      <4>2. acc[i][1] + F - 1 < From(b) + F - 1
        BY AcceptedBefore
      <4> QED BY <4>1, <4>2
    <3> QED BY <3>1, <3>2
  <2>4. i > 1 => acc[i - 1][1] < acc[i][1]
    BY DEF Flow
  <2> QED BY <2>1, <2>2, <2>3, <2>4
<1>8. Flow(x, acc, c)
  BY <1>5, <1>6, <1>7 DEF Flow
<1> QED BY <1>8 DEF x

\* The first F units are accepted, x is what follows them.
LEMMA FlowAccepted ==
  ASSUME NEW w \in Seq(Nat), NEW acc \in Seq(Seq(Nat)), NEW b \in Nat, Flow(w, acc, b),
         NEW buf \in Seq(Nat), Decodes(buf), NEW x \in Seq(Nat), F + Len(x) = Len(w),
         \A j \in 1 .. F : buf[j] = w[j],
         \A j \in 1 .. Len(x) : x[j] = w[F + j]
  PROVE  Flow(x, Append(acc, buf), b)
<1> DEFINE acd == Append(acc, buf)
<1>0. F \in Nat \ {0} /\ Len(x) \in Nat /\ Len(w) \in Nat /\ From(b) \in Nat
  BY Units, SequenceType
<1>1. PICK k \in Nat : buf = Frame(k) /\ buf[1] = From(k) /\ buf[F] = From(k) + F - 1
  BY DecodesFrame
<1>2. F \in 1 .. F /\ F \in 1 .. Len(w)
  BY <1>0
<1>3. w[F] = From(k) + F - 1 /\ From(k) \in Nat /\ Final(w[F])
  BY <1>1, <1>2, Units DEF Final
<1>4. k \in 0 .. b - 1
  <2>1. From(k) + F - 1 < From(b)
    BY <1>2, <1>3 DEF Flow
  <2>2. b < k => From(b) + F <= From(k)
    BY Units
  <2> QED BY <1>0, <1>3, <2>1, <2>2, SMTT(40)
<1>5. Flow(x, acc, b)
  <2>1. F + Len(x) <= Len(w) /\ F \in Nat
    BY <1>0
  <2> QED BY <2>1, FlowStretch
<1>6. \A j \in 1 .. Len(x) : Final(x[j]) => buf[1] + F - 1 < x[j]
  <2> SUFFICES ASSUME NEW j \in 1 .. Len(x), Final(x[j]) PROVE buf[1] + F - 1 < x[j]
    OBVIOUS
  <2>1. F + j \in 1 .. Len(w) /\ F < F + j /\ x[j] = w[F + j]
    <3>1. F + j \in 1 .. Len(w) /\ F < F + j
      BY <1>0, SMTT(40)
    <3>2. x[j] = w[F + j]
      BY Zenon
    <3> QED BY <3>1, <3>2
  <2>2. w[F] < w[F + j]
    BY <1>2, <1>3, <2>1 DEF Flow, Rising
  <2> QED BY <1>1, <1>3, <2>1, <2>2
<1>7. \A i \in 1 .. Len(acc) : acc[i][1] < buf[1]
  <2>0. ASSUME NEW u \in Nat, NEW v \in Nat, u + F - 1 < v + F - 1 PROVE u < v
    BY <2>0, Units
  <2> TAKE i \in 1 .. Len(acc)
  <2>1. acc[i][1] + F - 1 < w[F]
    BY <1>2, <1>3 DEF Flow
  <2>2. acc[i][1] \in Nat
    BY AcceptedBefore
  <2>3. acc[i][1] + F - 1 < From(k) + F - 1
    BY <1>3, <2>1
  <2> QED BY <1>1, <1>3, <2>0, <2>2, <2>3
<1>8. /\ Len(acc) \in Nat /\ Len(acd) = Len(acc) + 1
      /\ \A i \in 1 .. Len(acc) : acd[i] = acc[i]
      /\ acd[Len(acc) + 1] = buf
  OBVIOUS
<1> HIDE DEF acd
<1>9. ASSUME NEW i \in 1 .. Len(acd)
      PROVE  /\ \E n \in 0 .. b - 1 : acd[i] = Frame(n)
             /\ i > 1 => acd[i - 1][1] < acd[i][1]
             /\ \A j \in 1 .. Len(x) : Final(x[j]) => acd[i][1] + F - 1 < x[j]
  <2>1. CASE i = Len(acc) + 1
    <3>1. acd[i] = buf
      BY <1>8, <2>1
    <3>2. i > 1 => i - 1 \in 1 .. Len(acc) /\ acd[i - 1] = acc[i - 1]
      BY <1>8, <2>1
    <3> QED BY <1>1, <1>4, <1>6, <1>7, <3>1, <3>2
  <2>2. CASE i # Len(acc) + 1
    <3>1. i \in 1 .. Len(acc) /\ acd[i] = acc[i]
      BY <1>8, <2>2
    <3>2. i > 1 => i - 1 \in 1 .. Len(acc)
      BY <1>8, <3>1
    <3>3. i > 1 => acd[i - 1] = acc[i - 1]
      BY <1>8, <3>2, Zenon
    <3> QED BY <1>5, <3>1, <3>2, <3>3 DEF Flow
  <2> QED BY <2>1, <2>2
<1>10. Flow(x, acd, b)
  BY <1>5, <1>9 DEF Flow
<1> QED BY <1>10 DEF acd

\* More frames may have been sent than are known of.
LEMMA FlowLater ==
  ASSUME NEW w \in Seq(Nat), NEW acc, NEW b \in Nat, Flow(w, acc, b), NEW c \in {b, b + 1}
  PROVE  Flow(w, acc, c)
<1>1. 0 \in Nat /\ 0 + Len(w) <= Len(w)
  BY SequenceType
<1>2. \A j \in 1 .. Len(w) : w[j] = w[0 + j]
  <2> TAKE j \in 1 .. Len(w)
  <2>1. 0 + j = j
    OBVIOUS
  <2> QED BY <2>1, Zenon
<1> QED BY <1>1, <1>2, FlowStretch

-----------------------------------------------------------------------------
(* Calls                                                                   *)

\* A connection has two ends.
LEMMA TwoEnds ==
  /\ Peer("client") = "server" /\ Peer("server") = "client"
  /\ \A e \in Ends : Peer(e) \in Ends /\ Peer(e) # e /\ Peer(Peer(e)) = e
  /\ \A e, a \in Ends : e = a \/ e = Peer(a)
BY DEF Ends, Peer

\* What the state of an end says about its call: what is left to send, or what has been received.
CallOf(place, units, next, frames, returned) ==
  /\ place = "send" => /\ next < frames
                       /\ units # <<>>
                       /\ Consecutive(units, From(next) + (F - Len(units)))
  /\ place \in {"none", "idle", "closed"} => units = <<>>
  /\ place \in {"recv", "timed recv"} => Len(units) < F /\ returned = None

\* The types as functions.
Domains ==
  /\ traffic \in [Ends -> Nat]
  /\ part \in [Ends -> Seq(Nat)] /\ stream \in [Ends -> Seq(Nat)]
  /\ accepted \in [Ends -> Seq(Seq(Nat))] /\ seq \in [Ends -> Nat]

CallInv ==
  /\ TypeOK
  /\ Domains
  /\ \A e \in Ends : CallOf(at[e], part[e], seq[e], traffic[e], ret[e])

\* No call runs at the start.
LEMMA InitCallInv == Init => CallInv
<1> SUFFICES ASSUME Init PROVE CallInv
  OBVIOUS
<1>1. FrameLen \in Nat \ {0} /\ Window \in Nat \ {0} /\ traffic \in [Ends -> Nat] /\ traffic \in Traffics
  BY TcpAssumption DEF Init, Ends
<1>2. <<>> \in Seq(Nat) /\ <<>> \in Seq(Seq(Nat)) /\ Len(<<>>) = 0 
  OBVIOUS
<1>3. None \in 0 .. None
  BY <1>1 DEF None
<1>4. TypeOK
  <2>1. \A e \in Ends : /\ part[e] \in Seq(Nat) /\ Len(part[e]) <= FrameLen
                     /\ stream[e] \in Seq(Nat) /\ Len(stream[e]) <= Window
                     /\ accepted[e] \in Seq(Seq(Nat))
                     /\ seq[e] \in 0 .. traffic[e]
    <3> TAKE e \in Ends
    <3>1. part[e] = <<>> /\ stream[e] = <<>> /\ accepted[e] = <<>> /\ seq[e] = 0 /\ traffic[e] \in Nat
      BY <1>1 DEF Init
    <3>2. 0 \in 0 .. traffic[e] /\ 0 <= FrameLen /\ 0 <= Window
      BY <1>1, <3>1
    <3> QED BY <1>2, <3>1, <3>2
  <2>2. timeo \in [Ends -> [send : BOOLEAN, recv : BOOLEAN]]
    BY DEF Init
  <2> QED BY <1>1, <1>3, <2>1, <2>2, Zenon DEF Init, TypeOK
<1>5. Domains
  BY <1>1, <1>2 DEF Init, Domains
<1>6. \A e \in Ends : at[e] = "none" /\ part[e] = <<>>
  BY DEF Init
<1> QED BY <1>4, <1>5, <1>6, Zenon DEF CallInv, CallOf

Places == {"none", "idle", "send", "recv", "timed recv", "closed"}
Timeouts == [send : BOOLEAN, recv : BOOLEAN]

\* A step of one end leaves the call of the other as it is.
LEMMA CallStep ==
  ASSUME CallInv, NEW a \in Ends, traffic' = traffic,
         listener' \in {"none", "open", "closed"}, at' \in [Ends -> Places],
         timeo' \in [Ends -> Timeouts], part' \in [Ends -> Seq(Nat)],
         stream' \in [Ends -> Seq(Nat)], \A e \in Ends : Len(stream'[e]) <= Window,
         accepted' \in [Ends -> Seq(Seq(Nat))], seq' \in [Ends -> Nat],
         ret' \in [Ends -> 0 .. None], reset' \in [Ends -> {"no", "pending", "told"}],
         refused' \in [Ends -> BOOLEAN], failed' \in BOOLEAN,
         \A e \in Ends \ {a} : at'[e] = at[e] /\ part'[e] = part[e] /\ seq'[e] = seq[e] /\ ret'[e] = ret[e],
         Len(part'[a]) <= F, seq'[a] <= traffic[a],
         CallOf(at'[a], part'[a], seq'[a], traffic[a], ret'[a])
  PROVE  CallInv'
<1>1. /\ traffic \in Traffics /\ traffic \in [Ends -> Nat]
      /\ \A e \in Ends : CallOf(at[e], part[e], seq[e], traffic[e], ret[e])
      /\ \A e \in Ends : Len(part[e]) <= F /\ seq[e] \in 0 .. traffic[e]
  BY DEF CallInv, TypeOK, Domains, F
<1>2. \A e \in Ends : CallOf(at'[e], part'[e], seq'[e], traffic[e], ret'[e])
  BY <1>1, Zenon
<1>3. \A e \in Ends : Len(part'[e]) <= F /\ seq'[e] \in 0 .. traffic[e]
  <2> TAKE e \in Ends
  <2>1. seq'[e] \in Nat /\ traffic[e] \in Nat
    BY <1>1
  <2>2. CASE e = a
    BY <2>1, <2>2
  <2>3. CASE e # a
    BY <1>1, <2>3
  <2> QED BY <2>2, <2>3
<1>4. \A e \in Ends : part'[e] \in Seq(Nat) /\ stream'[e] \in Seq(Nat) /\ accepted'[e] \in Seq(Seq(Nat))
  OBVIOUS
<1>5. TypeOK'
  BY <1>1, <1>3, <1>4, Zenon DEF TypeOK, F, Places, Timeouts
<1>6. Domains'
  BY <1>1, Zenon DEF Domains
<1> QED BY <1>1, <1>2, <1>5, <1>6, Zenon DEF CallInv

\* What CallStep asks for, as a state function.
LEMMA Types ==
  ASSUME CallInv
  PROVE  /\ traffic \in [Ends -> Nat]
         /\ listener \in {"none", "open", "closed"} /\ at \in [Ends -> Places]
         /\ timeo \in [Ends -> Timeouts] /\ part \in [Ends -> Seq(Nat)]
         /\ stream \in [Ends -> Seq(Nat)] /\ \A e \in Ends : Len(stream[e]) <= Window
         /\ accepted \in [Ends -> Seq(Seq(Nat))] /\ seq \in [Ends -> Nat]
         /\ ret \in [Ends -> 0 .. None] /\ reset \in [Ends -> {"no", "pending", "told"}]
         /\ refused \in [Ends -> BOOLEAN] /\ failed \in BOOLEAN
         /\ \A e \in Ends : /\ Len(part[e]) <= F /\ seq[e] <= traffic[e]
                            /\ CallOf(at[e], part[e], seq[e], traffic[e], ret[e])
<1>1. \A e \in Ends : seq[e] \in 0 .. traffic[e]
  BY DEF CallInv, TypeOK
<1>2. \A e \in Ends : seq[e] <= traffic[e]
  BY <1>1
<1> QED BY <1>2, Zenon DEF CallInv, TypeOK, Domains, Places, Timeouts, F

\* The first part of a sequence.
LEMMA Beginning ==
  ASSUME NEW s \in Seq(Nat), NEW n \in Nat, n <= Len(s)
  PROVE  /\ SubSeq(s, 1, n) \in Seq(Nat) /\ Len(SubSeq(s, 1, n)) = n
         /\ \A i \in 1 .. n : SubSeq(s, 1, n)[i] = s[i]
OBVIOUS

\* Steps that no call sees.
LEMMA QuietSteps ==
  ASSUME CallInv, ServerInit \/ CloseListener \/ Break \/ UNCHANGED vars
  PROVE  CallInv'
<1> USE Types
<1>1. /\ UNCHANGED <<traffic, at, timeo, part, seq, ret, history>>
      /\ listener' \in {"none", "open", "closed"}
  BY DEF ServerInit, CloseListener, Break, vars
<1>2. reset' \in [Ends -> {"no", "pending", "told"}]
  BY DEF ServerInit, CloseListener, Break, vars, Breaks
<1>3. stream' \in [Ends -> Seq(Nat)] /\ \A e \in Ends : Len(stream'[e]) <= Window
  <2>1. CASE UNCHANGED stream
    BY <2>1
  <2>2. CASE Break
    <3>1. PICK kept \in [Ends -> 0 .. Window] :
            stream' = [e \in Ends |-> SubSeq(stream[e], 1, Smaller(kept[e], Len(stream[e])))]
      BY <2>2 DEF Break
    <3>2. ASSUME NEW e \in Ends PROVE stream'[e] \in Seq(Nat) /\ Len(stream'[e]) <= Window
      <4>1. stream[e] \in Seq(Nat) /\ Len(stream[e]) <= Window /\ kept[e] \in 0 .. Window /\ Window \in Nat
        BY TcpAssumption
      <4>2. Smaller(kept[e], Len(stream[e])) \in Nat /\ Smaller(kept[e], Len(stream[e])) <= Len(stream[e])
        BY <4>1 DEF Smaller
      <4>3. stream'[e] = SubSeq(stream[e], 1, Smaller(kept[e], Len(stream[e])))
        BY <3>1, Zenon
      <4>4. stream'[e] \in Seq(Nat) /\ Len(stream'[e]) = Smaller(kept[e], Len(stream[e]))
        BY <4>1, <4>2, <4>3, Beginning
      <4> QED BY <4>1, <4>2, <4>4
    <3> QED BY <3>1, <3>2
  <2> QED BY <2>1, <2>2 DEF ServerInit, CloseListener, vars
<1>4. "client" \in Ends
  BY DEF Ends
<1> QED BY <1>1, <1>2, <1>3, <1>4, CallStep DEF history

\* An end is opened or closed, or begins to receive.
LEMMA OtherSteps ==
  ASSUME CallInv, NEW a \in Ends,
         \/ \E timed \in BOOLEAN : Connect(timed) /\ a = "client"
         \/ Accept /\ a = "server"
         \/ Close(a) \/ \E timed \in BOOLEAN : BeginRecv(a, timed)
  PROVE  CallInv'
<1> USE Types
<1>0. F \in Nat \ {0} /\ None \in 0 .. None /\ "client" \in Ends /\ "server" \in Ends /\ <<>> \in Seq(Nat)
      /\ Len(<<>>) = 0
  BY Units DEF None, F, Ends
<1>1. /\ UNCHANGED <<traffic, part, seq, reset, history, listener>>
      /\ part[a] = <<>>
      /\ at' \in [Ends -> Places] /\ \A e \in Ends \ {a} : at'[e] = at[e] /\ ret'[e] = ret[e]
      /\ ret' \in [Ends -> 0 .. None]
      /\ \/ at'[a] \in {"idle", "closed"}
         \/ at'[a] \in {"recv", "timed recv"} /\ ret'[a] = None
  <2>1. CASE \E timed \in BOOLEAN : Connect(timed) /\ a = "client"
    <3>1. PICK timed \in BOOLEAN : Connect(timed) /\ a = "client"
      BY <2>1
    <3>2. /\ UNCHANGED <<traffic, part, seq, ret, reset, history, listener>> /\ at[a] = "none"
          /\ at' = [at EXCEPT ![a] = "idle"]
      BY <3>1, Zenon DEF Connect
    <3> QED BY <1>0, <3>2, Zenon DEF Places, CallOf
  <2>2. CASE Accept /\ a = "server"
    BY <1>0, <2>2, Zenon DEF Accept, Places, CallOf
  <2>3. CASE Close(a)
    BY <1>0, <2>3, Zenon DEF Close, Places, CallOf
  <2>4. CASE \E timed \in BOOLEAN : BeginRecv(a, timed)
    <3>1. PICK timed \in BOOLEAN : BeginRecv(a, timed)
      BY <2>4
    <3>2. /\ UNCHANGED <<traffic, part, seq, reset, history, listener>> /\ at[a] = "idle"
          /\ at' = [at EXCEPT ![a] = IF timed THEN "timed recv" ELSE "recv"]
          /\ ret' = [ret EXCEPT ![a] = None]
      BY <3>1, Zenon DEF BeginRecv
    <3>3. (IF timed THEN "timed recv" ELSE "recv") \in {"recv", "timed recv"}
      OBVIOUS
    <3>4. at'[a] \in {"recv", "timed recv"} /\ ret'[a] = None
      BY <3>2, <3>3, Zenon
    <3>5. at' \in [Ends -> Places] /\ ret' \in [Ends -> 0 .. None]
      BY <1>0, <3>2, <3>3, Zenon DEF Places
    <3> QED BY <3>2, <3>4, <3>5, Zenon DEF CallOf
  <2> QED BY <2>1, <2>2, <2>3, <2>4
<1>2. timeo' \in [Ends -> Timeouts]
  <2>1. timeo \in [Ends -> Timeouts]
    OBVIOUS
  <2>2. \A b, c \in BOOLEAN : [send |-> b, recv |-> c] \in Timeouts
    BY DEF Timeouts
  <2>3. CASE UNCHANGED timeo
    BY <2>1, <2>3
  <2>4. CASE \E timed \in BOOLEAN : Connect(timed) /\ a = "client"
    <3>1. PICK timed \in BOOLEAN : timeo' = [timeo EXCEPT !["client"] = [send |-> timed, recv |-> timed]]
      BY <2>4, Zenon DEF Connect
    <3> QED BY <2>1, <2>2, <3>1, Zenon
  <2>5. CASE \E timed \in BOOLEAN : BeginRecv(a, timed)
    <3>1. \/ UNCHANGED timeo
          \/ timeo' = [timeo EXCEPT ![a] = [send |-> FALSE, recv |-> TRUE]]
          \/ timeo' = [timeo EXCEPT ![a] = @]
      BY <2>5, Zenon DEF BeginRecv
    <3> QED BY <2>1, <2>2, <3>1, Zenon
  <2> QED BY <2>3, <2>4, <2>5, Zenon DEF Accept, Close
<1>3. stream' \in [Ends -> Seq(Nat)] /\ \A e \in Ends : Len(stream'[e]) <= Window
  <2>1. CASE UNCHANGED stream
    BY <2>1
  <2>2. CASE stream' = [stream EXCEPT ![a] = <<>>]
    <3>1. Len(<<>>) <= Window
      BY <1>0, TcpAssumption
    <3>2. \A e \in Ends : stream'[e] \in {<<>>, stream[e]}
      BY <2>2, Zenon
    <3>3. stream' \in [Ends -> Seq(Nat)]
      BY <1>0, <2>2, Zenon
    <3> QED BY <3>1, <3>2, <3>3
  <2> QED BY <2>1, <2>2 DEF Connect, Accept, Close, BeginRecv
<1>4. CallOf(at'[a], part'[a], seq'[a], traffic[a], ret'[a])
  <2>1. part'[a] = <<>>
    BY <1>1, Zenon
  <2>2. Len(part'[a]) < F
    BY <1>0, <2>1
  <2> QED BY <1>1, <2>1, <2>2, Zenon DEF CallOf
<1>5. Len(part'[a]) <= F /\ seq'[a] <= traffic[a] /\ seq' \in [Ends -> Nat] /\ part' \in [Ends -> Seq(Nat)]
      /\ \A e \in Ends \ {a} : part'[e] = part[e] /\ seq'[e] = seq[e]
  BY <1>1, Zenon
<1> QED BY <1>1, <1>2, <1>3, <1>4, <1>5, CallStep DEF history

\* A send begins with a whole frame.
LEMMA BeginSendStep ==
  ASSUME CallInv, NEW a \in Ends, BeginSend(a)
  PROVE  CallInv'
<1> USE Types
<1>0. F \in Nat \ {0} /\ seq[a] \in Nat /\ From(seq[a]) \in Nat
  BY Units
<1>1. /\ Frame(seq[a]) \in Seq(Nat) /\ Len(Frame(seq[a])) = F
      /\ \A j \in 1 .. F : Frame(seq[a])[j] = From(seq[a]) + j - 1
  BY <1>0, FrameType
<1>2. /\ UNCHANGED <<traffic, seq, reset, history, listener, timeo, stream, ret>>
      /\ at' = [at EXCEPT ![a] = "send"] /\ part' = [part EXCEPT ![a] = Frame(seq[a])]
      /\ seq[a] < traffic[a]
  BY DEF BeginSend
<1>3. at' \in [Ends -> Places] /\ part' \in [Ends -> Seq(Nat)]
  BY <1>1, <1>2, Zenon DEF Places
<1>4. at'[a] = "send" /\ part'[a] = Frame(seq[a])
  BY <1>2, Zenon
<1>5. Consecutive(part'[a], From(seq[a]) + (F - Len(part'[a])))
  BY <1>0, <1>1, <1>4 DEF Consecutive
<1>6. part'[a] # <<>>
  BY <1>0, <1>1, <1>4
<1>7. CallOf(at'[a], part'[a], seq'[a], traffic[a], ret'[a])
  BY <1>2, <1>4, <1>5, <1>6, Zenon DEF CallOf
<1>8. Len(part'[a]) <= F /\ seq'[a] <= traffic[a]
  BY <1>0, <1>1, <1>2, <1>4
<1>9. \A e \in Ends \ {a} : at'[e] = at[e] /\ part'[e] = part[e] /\ seq'[e] = seq[e] /\ ret'[e] = ret[e]
  BY <1>2, Zenon
<1> QED BY <1>2, <1>3, <1>7, <1>8, <1>9, CallStep DEF history

\* A call that ends leaves nothing in part.
LEMMA EndOfCall ==
  ASSUME CallInv, NEW a \in Ends, traffic' = traffic, listener' = listener, timeo' = timeo,
         at' = [at EXCEPT ![a] = "idle"], part' = [part EXCEPT ![a] = <<>>],
         stream' \in [Ends -> Seq(Nat)], \A e \in Ends : Len(stream'[e]) <= Window,
         accepted' \in [Ends -> Seq(Seq(Nat))], seq' \in [Ends -> Nat],
         ret' \in [Ends -> 0 .. None], reset' \in [Ends -> {"no", "pending", "told"}],
         refused' \in [Ends -> BOOLEAN], failed' \in BOOLEAN,
         \A e \in Ends \ {a} : seq'[e] = seq[e] /\ ret'[e] = ret[e],
         seq'[a] <= traffic[a]
  PROVE  CallInv'
<1> USE Types
<1>1. <<>> \in Seq(Nat) /\ Len(<<>>) = 0 /\ 0 <= F
  BY Units
<1>2. at' \in [Ends -> Places] /\ part' \in [Ends -> Seq(Nat)]
  BY <1>1, Zenon DEF Places
<1>3. at'[a] = "idle" /\ part'[a] = <<>>
  BY Zenon
<1>4. CallOf(at'[a], part'[a], seq'[a], traffic[a], ret'[a])
  BY <1>3 DEF CallOf
<1>5. \A e \in Ends \ {a} : at'[e] = at[e] /\ part'[e] = part[e]
  BY Zenon
<1>6. Len(part'[a]) <= F
  BY <1>1, <1>3
<1> QED BY <1>2, <1>4, <1>5, <1>6, CallStep

\* A send that fails ends the call.
LEMMA SendFailsStep ==
  ASSUME CallInv, NEW a \in Ends, SendTimesOut(a) \/ SendBroken(a)
  PROVE  CallInv'
<1> USE Types
<1>1. /\ UNCHANGED <<traffic, listener, timeo, ret, stream, accepted, refused>>
      /\ at' = [at EXCEPT ![a] = "idle"] /\ part' = [part EXCEPT ![a] = <<>>]
      /\ failed' = TRUE /\ at[a] = "send"
      /\ seq' \in {seq, [seq EXCEPT ![a] = @ + 1]}
  BY Zenon DEF SendTimesOut, SendBroken, SendFails
<1>2. reset' \in [Ends -> {"no", "pending", "told"}]
  BY DEF SendTimesOut, SendBroken
<1>3. seq[a] \in Nat /\ traffic[a] \in Nat /\ seq[a] < traffic[a]
  BY <1>1 DEF CallOf
<1>4. seq' \in [Ends -> Nat] /\ seq'[a] <= traffic[a] /\ \A e \in Ends \ {a} : seq'[e] = seq[e]
  <2>1. seq[a] + 1 \in Nat /\ seq[a] + 1 <= traffic[a] /\ seq[a] <= traffic[a]
    BY <1>3
  <2>2. /\ seq' \in [Ends -> Nat] /\ seq'[a] \in {seq[a], seq[a] + 1}
        /\ \A e \in Ends \ {a} : seq'[e] = seq[e]
    BY <1>1, <2>1, Zenon
  <2> QED BY <2>1, <2>2
<1> QED BY <1>1, <1>2, <1>4, EndOfCall

\* So does a recv.
LEMMA RecvFailsStep ==
  ASSUME CallInv, NEW a \in Ends, RecvTimesOut(a) \/ RecvBroken(a)
  PROVE  CallInv'
<1> USE Types
<1>0. Again \in 0 .. None /\ Broken \in 0 .. None
  BY Units DEF None, Again, Broken, F
<1>1. /\ UNCHANGED <<traffic, listener, timeo, seq, stream, accepted, refused>>
      /\ at' = [at EXCEPT ![a] = "idle"] /\ part' = [part EXCEPT ![a] = <<>>]
      /\ failed' = TRUE
      /\ ret' \in {[ret EXCEPT ![a] = Again], [ret EXCEPT ![a] = Broken]}
  BY DEF RecvTimesOut, RecvBroken, RecvFails
<1>2. reset' \in [Ends -> {"no", "pending", "told"}]
  BY DEF RecvTimesOut, RecvBroken
<1>3. ret' \in [Ends -> 0 .. None] /\ \A e \in Ends \ {a} : ret'[e] = ret[e]
  BY <1>0, <1>1
<1> QED BY <1>1, <1>2, <1>3, EndOfCall

\* And one that returns a count.
LEMMA ReturnStep ==
  ASSUME CallInv, NEW a \in Ends, NEW buf \in Seq(Nat), Len(buf) <= F, Return(a, buf),
         UNCHANGED <<traffic, listener, timeo, seq, reset, failed>>,
         stream' \in [Ends -> Seq(Nat)], \A e \in Ends : Len(stream'[e]) <= Window
  PROVE  CallInv'
<1> USE Types
<1>1. /\ at' = [at EXCEPT ![a] = "idle"] /\ part' = [part EXCEPT ![a] = <<>>]
      /\ ret' = [ret EXCEPT ![a] = Len(buf)]
      /\ accepted' \in {accepted, [accepted EXCEPT ![a] = Append(@, buf)]}
      /\ refused' = [refused EXCEPT ![a] = @ \/ (buf # <<>> /\ ~Decodes(buf))]
  BY Zenon DEF Return
<1>2. Len(buf) \in 0 .. None
  <2>1. Len(buf) \in Nat /\ F \in Nat /\ None = F + 3
    BY Units, SequenceType DEF None, F
  <2> QED BY <2>1
<1>3. ret' \in [Ends -> 0 .. None] /\ \A e \in Ends \ {a} : ret'[e] = ret[e]
  BY <1>1, <1>2
<1>4. accepted' \in [Ends -> Seq(Seq(Nat))]
  <2>1. Append(accepted[a], buf) \in Seq(Seq(Nat))
    OBVIOUS
  <2> QED BY <1>1, <2>1, Zenon
<1>5. refused' \in [Ends -> BOOLEAN]
  BY <1>1, Zenon
<1> QED BY <1>1, <1>3, <1>4, <1>5, EndOfCall

\* Of what is left to send, p goes and q remains.
Sends(a, p, q) ==
  /\ at[a] = "send" /\ reset[a] = "no"
  /\ p \in Seq(Nat) /\ q \in Seq(Nat) /\ Len(p) \in Nat \ {0} /\ Len(q) \in Nat
  /\ Len(p) + Len(q) = Len(part[a]) /\ Len(part[a]) <= F
  /\ Consecutive(p, From(seq[a]) + (F - Len(part[a])))
  /\ Consecutive(q, From(seq[a]) + (F - Len(q)))
  /\ \/ at[Peer(a)] = "closed" /\ UNCHANGED stream
     \/ /\ at[Peer(a)] # "closed" /\ Len(stream[Peer(a)]) + Len(p) <= Window
        /\ stream' = [stream EXCEPT ![Peer(a)] = @ \o p]
  /\ part' = [part EXCEPT ![a] = q]
  /\ Len(q) = 0 => /\ at' = [at EXCEPT ![a] = "idle"]
                   /\ seq' = [seq EXCEPT ![a] = @ + 1]
  /\ Len(q) # 0 => UNCHANGED <<at, seq>>
  /\ UNCHANGED <<traffic, listener, timeo, ret, reset, accepted, refused, failed>>

\* SendPart takes some of what is left of the frame.
LEMMA SendPartSends ==
  ASSUME CallInv, NEW a \in Ends, SendPart(a)
  PROVE  \E p, q \in Seq(Nat) : Sends(a, p, q)
<1>1. PICK n \in 1 .. Len(part[a]) :
       /\ Takes(a, n)
       /\ part' = [part EXCEPT ![a] = SubSeq(@, n + 1, Len(@))]
       /\ IF n = Len(part[a])
          THEN /\ at' = [at EXCEPT ![a] = "idle"]
               /\ seq' = [seq EXCEPT ![a] = @ + 1]
          ELSE UNCHANGED <<at, seq>>
  BY DEF SendPart
<1>2. /\ at[a] = "send" /\ reset[a] = "no"
      /\ UNCHANGED <<traffic, listener, timeo, ret, reset, accepted, refused, failed>>
  BY DEF SendPart, history
<1>3. /\ part[a] \in Seq(Nat) /\ Len(part[a]) <= F
      /\ Consecutive(part[a], From(seq[a]) + (F - Len(part[a]))) /\ seq[a] \in Nat
      /\ part \in [Ends -> Seq(Nat)]
  <2>1. CallOf(at[a], part[a], seq[a], traffic[a], ret[a])
    BY Types
  <2> QED BY <1>2, <2>1, Types DEF CallOf
<1> DEFINE L == Len(part[a])
           p == SubSeq(part[a], 1, n)
           q == SubSeq(part[a], n + 1, L)
<1>4. L \in Nat /\ n \in Nat /\ n # 0 /\ n <= L /\ F \in Nat /\ From(seq[a]) \in Nat
  <2>1. L \in Nat
    BY <1>3, SequenceType
  <2>2. F \in Nat /\ From(seq[a]) \in Nat
    BY <1>3, Units
  <2> QED BY <2>1, <2>2
<1>5. p \in Seq(Nat) /\ Len(p) = n /\ \A i \in 1 .. n : p[i] = part[a][i]
  BY <1>3, <1>4, Beginning
<1>6. q \in Seq(Nat) /\ Len(q) = L - n /\ \A i \in 1 .. L - n : q[i] = part[a][n + i]
  BY <1>3, <1>4, Subsequence
<1>7. \A j \in 1 .. L : part[a][j] = From(seq[a]) + (F - L) + j - 1
  BY <1>3 DEF Consecutive
<1>8. /\ at[Peer(a)] = "closed" => UNCHANGED stream
      /\ at[Peer(a)] # "closed" => /\ Len(stream[Peer(a)]) + n <= Window
                                   /\ stream' = [stream EXCEPT ![Peer(a)] = @ \o p]
  BY <1>1, Zenon DEF Takes
<1>9. part' = [part EXCEPT ![a] = q]
  BY <1>1, <1>3, Zenon
<1> HIDE DEF p, q
<1>10. Consecutive(p, From(seq[a]) + (F - L))
  <2>1. \A j \in 1 .. Len(p) : j \in 1 .. n /\ j \in 1 .. L
    BY <1>4, <1>5
  <2> QED BY <1>5, <1>7, <2>1, Zenon DEF Consecutive
<1>11. Consecutive(q, From(seq[a]) + (F - Len(q)))
  <2> SUFFICES ASSUME NEW j \in 1 .. L - n PROVE q[j] = From(seq[a]) + (F - (L - n)) + j - 1
    BY <1>6 DEF Consecutive
  <2>1. n + j \in 1 .. L /\ q[j] = part[a][n + j]
    BY <1>4, <1>6
  <2>2. part[a][n + j] = From(seq[a]) + (F - L) + (n + j) - 1
    BY <1>7, <2>1
  <2>3. ASSUME NEW x \in Nat, NEW y \in Nat PROVE x + (y - L) + (n + j) - 1 = x + (y - (L - n)) + j - 1
    BY <1>4
  <2> QED BY <1>4, <2>1, <2>2, <2>3
<1>12. Len(p) + Len(q) = L /\ Len(p) \in Nat \ {0} /\ Len(q) \in Nat /\ (Len(q) = 0 <=> n = L)
  BY <1>4, <1>5, <1>6
<1>13. Sends(a, p, q)
  BY <1>1, <1>2, <1>3, <1>5, <1>6, <1>8, <1>9, <1>10, <1>11, <1>12, Zenon DEF Sends
<1> QED BY <1>5, <1>6, <1>13

\* What the kernel takes leaves the rest of the frame to send.
LEMMA SendPartStep ==
  ASSUME CallInv, NEW a \in Ends, SendPart(a)
  PROVE  CallInv'
<1> USE Types
<1>1. PICK p, q \in Seq(Nat) : Sends(a, p, q)
  BY SendPartSends
<1>2. /\ at[a] = "send"  /\ Len(p) \in Nat \ {0} /\ Len(q) \in Nat /\ part' = [part EXCEPT ![a] = q]
      /\ UNCHANGED <<traffic, listener, timeo, ret, reset, accepted, refused, failed>>
      /\ Len(q) <= F
  <2>1. Len(p) + Len(q) = Len(part[a]) /\ Len(part[a]) <= F /\ Len(p) \in Nat \ {0} /\ Len(q) \in Nat
    BY <1>1, Zenon DEF Sends
  <2>2. Len(q) <= F
    BY <2>1, Units, SequenceType
  <2> QED BY <1>1, <2>1, <2>2, Zenon DEF Sends
<1>3. seq[a] \in Nat /\ traffic[a] \in Nat /\ seq[a] < traffic[a]
  BY <1>2 DEF CallOf
<1>4. stream' \in [Ends -> Seq(Nat)] /\ \A e \in Ends : Len(stream'[e]) <= Window
  <2>1. CASE UNCHANGED stream
    BY <2>1
  <2>2. CASE /\ Len(stream[Peer(a)]) + Len(p) <= Window
             /\ stream' = [stream EXCEPT ![Peer(a)] = @ \o p]
    <3>1. Peer(a) \in Ends
      BY TwoEnds
    <3>2. stream[Peer(a)] \o p \in Seq(Nat) /\ Len(stream[Peer(a)] \o p) <= Window
      BY <2>2, <3>1, Concatenation
    <3> QED BY <2>2, <3>1, <3>2, Zenon
  <2> QED BY <1>1, <2>1, <2>2 DEF Sends
<1>5. part' \in [Ends -> Seq(Nat)] /\ part'[a] = q /\ \A e \in Ends \ {a} : part'[e] = part[e]
  BY <1>2, Zenon
<1>6. CASE Len(q) = 0
  <2>1. at' = [at EXCEPT ![a] = "idle"] /\ seq' = [seq EXCEPT ![a] = @ + 1]
    BY <1>1, <1>6 DEF Sends
  <2>2. q = <<>>
    BY <1>6
  <2>3. CallOf(at'[a], part'[a], seq'[a], traffic[a], ret'[a])
    <3>1. at'[a] = "idle" /\ part'[a] = <<>>
      BY <1>5, <2>1, <2>2, Zenon
    <3> QED BY <3>1 DEF CallOf
  <2>4. seq[a] + 1 \in Nat /\ seq[a] + 1 <= traffic[a]
    BY <1>3
  <2>5. at' \in [Ends -> Places] /\ \A e \in Ends \ {a} : at'[e] = at[e]
    BY <2>1, Zenon DEF Places
  <2>6. seq' \in [Ends -> Nat] /\ seq'[a] <= traffic[a] /\ \A e \in Ends \ {a} : seq'[e] = seq[e]
    BY <2>1, <2>4, Zenon
  <2> QED BY <1>2, <1>4, <1>5, <2>3, <2>5, <2>6, CallStep
<1>7. CASE Len(q) # 0
  <2>1. UNCHANGED <<at, seq>>
    BY <1>1, <1>7 DEF Sends
  <2>2. CallOf(at'[a], part'[a], seq'[a], traffic[a], ret'[a])
    <3>1. Consecutive(q, From(seq[a]) + (F - Len(q)))
      BY <1>1 DEF Sends
    <3>2. q # <<>>
      BY <1>7
    <3> QED BY <1>2, <1>3, <1>5, <2>1, <3>1, <3>2, Zenon DEF CallOf
  <2>3. \A e \in Ends \ {a} : at'[e] = at[e] /\ seq'[e] = seq[e] /\ ret'[e] = ret[e]
    BY <1>2, <2>1, Zenon
  <2> QED BY <1>2, <1>3, <1>4, <1>5, <2>1, <2>2, <2>3, CallStep
<1> QED BY <1>6, <1>7

\* Of the units on their way to a, p are received and q remain.
Receives(a, p, q) ==
  /\ InRecv(a)
  /\ p \in Seq(Nat) /\ q \in Seq(Nat) /\ Len(p) \in Nat \ {0} /\ Len(q) \in Nat
  /\ Len(p) + Len(q) = Len(stream[a]) /\ Len(part[a]) + Len(p) <= F
  /\ \A i \in 1 .. Len(p) : p[i] = stream[a][i]
  /\ \A i \in 1 .. Len(q) : q[i] = stream[a][Len(p) + i]
  /\ stream' = [stream EXCEPT ![a] = q]
  /\ Len(part[a]) + Len(p) = F => Return(a, part[a] \o p)
  /\ Len(part[a]) + Len(p) # F => /\ part' = [part EXCEPT ![a] = part[a] \o p]
                                  /\ UNCHANGED <<at, ret, accepted, refused>>
  /\ UNCHANGED <<traffic, listener, timeo, seq, reset, failed>>

\* RecvPart takes some of what is on its way, at most the rest of a frame.
LEMMA RecvPartReceives ==
  ASSUME CallInv, NEW a \in Ends, RecvPart(a)
  PROVE  \E p, q \in Seq(Nat) : Receives(a, p, q)
<1>0. /\ stream \in [Ends -> Seq(Nat)] /\ part[a] \in Seq(Nat) /\ stream[a] \in Seq(Nat) /\ InRecv(a)
      /\ Len(stream[a]) \in Nat /\ Len(part[a]) \in Nat /\ F \in Nat
  <2>1. stream \in [Ends -> Seq(Nat)] /\ part[a] \in Seq(Nat) /\ stream[a] \in Seq(Nat) 
    BY Types
  <2> QED BY <2>1, Units, SequenceType DEF RecvPart
<1>1. PICK n \in 1 .. Smaller(F - Len(part[a]), Len(stream[a])) :
       LET buf == part[a] \o SubSeq(stream[a], 1, n)
       IN /\ stream' = [stream EXCEPT ![a] = SubSeq(@, n + 1, Len(@))]
          /\ IF Len(buf) = F
             THEN Return(a, buf)
             ELSE /\ part' = [part EXCEPT ![a] = buf]
                  /\ UNCHANGED <<at, ret, accepted, refused>>
  BY Zenon DEF RecvPart, F
<1> DEFINE L == Len(stream[a])
           p == SubSeq(stream[a], 1, n)
           q == SubSeq(stream[a], n + 1, L)
<1>2. n \in Nat \ {0} /\ n <= L /\ Len(part[a]) + n <= F
  BY <1>0 DEF Smaller
<1>3. p \in Seq(Nat) /\ Len(p) = n /\ \A i \in 1 .. n : p[i] = stream[a][i]
  BY <1>0, <1>2, Beginning
<1>4. q \in Seq(Nat) /\ Len(q) = L - n /\ \A i \in 1 .. L - n : q[i] = stream[a][n + i]
  BY <1>0, <1>2, Subsequence
<1>5. stream' = [stream EXCEPT ![a] = q]
  BY <1>0, <1>1, Zenon
<1>6. Len(part[a] \o p) = Len(part[a]) + n
  BY <1>0, <1>3, Concatenation
<1>7. IF Len(part[a] \o p) = F
      THEN Return(a, part[a] \o p)
      ELSE /\ part' = [part EXCEPT ![a] = part[a] \o p]
           /\ UNCHANGED <<at, ret, accepted, refused>>
  BY <1>1
<1>8. UNCHANGED <<traffic, listener, timeo, seq, reset, failed>>
  BY DEF RecvPart
<1> HIDE DEF p, q
<1>9. Receives(a, p, q)
  <2>1. Len(p) + Len(q) = L /\ Len(q) \in Nat /\ Len(p) \in Nat \ {0} /\ Len(part[a]) + Len(p) <= F
    BY <1>0, <1>2, <1>3, <1>4
  <2>2. /\ Len(part[a]) + Len(p) = F => Return(a, part[a] \o p)
        /\ Len(part[a]) + Len(p) # F => /\ part' = [part EXCEPT ![a] = part[a] \o p]
                                        /\ UNCHANGED <<at, ret, accepted, refused>>
    BY <1>3, <1>6, <1>7, Zenon
  <2>3. /\ \A i \in 1 .. Len(p) : p[i] = stream[a][i]
        /\ \A i \in 1 .. Len(q) : q[i] = stream[a][Len(p) + i]
    BY <1>3, <1>4, Zenon
  <2> QED BY <1>0, <1>3, <1>4, <1>5, <1>8, <2>1, <2>2, <2>3, Zenon DEF Receives
<1> QED BY <1>3, <1>4, <1>9

\* A recv of the kernel adds to what was received, at most to a frame.
LEMMA RecvPartStep ==
  ASSUME CallInv, NEW a \in Ends, RecvPart(a)
  PROVE  CallInv'
<1>1. PICK p, q \in Seq(Nat) : Receives(a, p, q)
  BY RecvPartReceives
<1>2. /\ stream \in [Ends -> Seq(Nat)] /\ \A e \in Ends : Len(stream[e]) <= Window
      /\ part[a] \in Seq(Nat) /\ stream[a] \in Seq(Nat) /\ part \in [Ends -> Seq(Nat)]
      /\ accepted \in [Ends -> Seq(Seq(Nat))] /\ seq \in [Ends -> Nat] /\ traffic \in [Ends -> Nat]
      /\ seq[a] <= traffic[a]
      /\ CallOf(at[a], part[a], seq[a], traffic[a], ret[a])
  BY Types
<1>3. /\ Len(p) + Len(q) = Len(stream[a]) /\ Len(p) \in Nat \ {0} /\ Len(q) \in Nat
      /\ Len(part[a]) + Len(p) <= F /\ InRecv(a)
      /\ UNCHANGED <<traffic, listener, timeo, seq, reset, failed>>
      /\ stream' = [stream EXCEPT ![a] = q]
  BY <1>1, Zenon DEF Receives
<1>4. stream' \in [Ends -> Seq(Nat)] /\ \A e \in Ends : Len(stream'[e]) <= Window
  <2>1. Window \in Nat
    BY TcpAssumption
  <2>2. Len(stream[a]) <= Window
    BY <1>2
  <2>3. Len(q) <= Window
    BY <1>3, <2>1, <2>2
  <2>4. \A e \in Ends : stream'[e] = IF e = a THEN q ELSE stream[e]
    BY <1>2, <1>3, Zenon
  <2> QED BY <1>2, <1>3, <2>3, <2>4, Zenon
<1>5. part[a] \o p \in Seq(Nat) /\ Len(part[a] \o p) = Len(part[a]) + Len(p) /\ Len(part[a]) \in Nat /\ F \in Nat
  BY <1>2, Concatenation, Units
<1>6. CASE Len(part[a]) + Len(p) = F
  <2>1. Return(a, part[a] \o p)
    BY <1>1, <1>6 DEF Receives
  <2>2. Len(part[a] \o p) <= F
    BY <1>5, <1>6
  <2> QED BY <1>3, <1>4, <1>5, <2>1, <2>2, ReturnStep
<1>7. CASE Len(part[a]) + Len(p) # F
  <2>1. part' = [part EXCEPT ![a] = part[a] \o p] /\ UNCHANGED <<at, ret, accepted, refused>>
    BY <1>1, <1>7 DEF Receives
  <2>2. part' \in [Ends -> Seq(Nat)] /\ part'[a] = part[a] \o p /\ \A e \in Ends \ {a} : part'[e] = part[e]
    BY <1>2, <1>5, <2>1, Zenon
  <2>3. Len(part'[a]) < F /\ Len(part'[a]) <= F
    <3>1. Len(part'[a]) = Len(part[a]) + Len(p)
      BY <1>5, <2>2, Zenon
    <3> QED BY <1>3, <1>5, <1>7, <3>1
  <2>4. CallOf(at'[a], part'[a], seq'[a], traffic[a], ret'[a])
    <3>1. at'[a] = at[a] /\ ret'[a] = ret[a] /\ at[a] \in {"recv", "timed recv"} /\ ret[a] = None
      BY <1>2, <1>3, <2>1 DEF CallOf, InRecv
    <3> QED BY <2>3, <3>1 DEF CallOf
  <2>5. \A e \in Ends \ {a} : at'[e] = at[e] /\ seq'[e] = seq[e] /\ ret'[e] = ret[e]
    BY <1>3, <2>1, Zenon
  <2> QED BY <1>2, <1>3, <1>4, <2>1, <2>2, <2>3, <2>4, <2>5, CallStep, Types
<1> QED BY <1>6, <1>7

\* The end of the stream ends the call.
LEMMA RecvClosedStep ==
  ASSUME CallInv, NEW a \in Ends, RecvClosed(a)
  PROVE  CallInv'
<1>1. /\ part[a] \in Seq(Nat) /\ Len(part[a]) <= F /\ stream \in [Ends -> Seq(Nat)]
      /\ \A e \in Ends : Len(stream[e]) <= Window
  BY Types
<1>2. Return(a, part[a]) /\ UNCHANGED <<traffic, listener, timeo, seq, stream, reset, failed>>
  BY DEF RecvClosed
<1> QED BY <1>1, <1>2, ReturnStep

\* CallInv is inductive.
LEMMA NextCallInv == CallInv /\ [Next]_vars => CallInv'
<1> SUFFICES ASSUME CallInv, [Next]_vars PROVE CallInv'
  OBVIOUS
<1>1. CASE ServerInit \/ CloseListener \/ Break \/ UNCHANGED vars
  BY <1>1, QuietSteps
<1>2. CASE Accept \/ \E timed \in BOOLEAN : Connect(timed)
  <2>1. "client" \in Ends /\ "server" \in Ends
    BY DEF Ends
  <2> QED BY <1>2, <2>1, OtherSteps
<1>3. ASSUME NEW a \in Ends, BeginSend(a) \/ Sending(a) \/ (\E timed \in BOOLEAN : BeginRecv(a, timed))
                             \/ Receiving(a) \/ Close(a)
      PROVE  CallInv'
  <2>1. CASE BeginSend(a)
    BY <2>1, BeginSendStep
  <2>2. CASE Sending(a)
    BY <2>2, SendPartStep, SendFailsStep DEF Sending
  <2>3. CASE Close(a) \/ \E timed \in BOOLEAN : BeginRecv(a, timed)
    BY <2>3, OtherSteps
  <2>4. CASE Receiving(a)
    BY <2>4, RecvPartStep, RecvClosedStep, RecvFailsStep DEF Receiving
  <2> QED BY <1>3, <2>1, <2>2, <2>3, <2>4
<1> QED BY <1>1, <1>2, <1>3, Zenon DEF Next

-----------------------------------------------------------------------------
(* What is on its way                                                      *)

\* What an end has received of a frame, and with it what is on its way to it.
Got(e) == IF InRecv(e) THEN part[e] ELSE <<>>
Wire(e) == Got(e) \o stream[e]

\* How many units an end has sent, when no call has failed.
Sent(e) == From(seq[e]) + (IF at[e] = "send" THEN F - Len(part[e]) ELSE 0)

\* As long as no call has failed: nothing is missing.
Whole(e) ==
  /\ ~refused[e] /\ reset[e] # "told"
  /\ \A i \in 1 .. Len(accepted[e]) : accepted[e][i] = Frame(i - 1)
  /\ Consecutive(Wire(e), From(Len(accepted[e])))
  /\ reset[e] = "no" /\ at[e] # "closed" =>
       From(Len(accepted[e])) + Len(Wire(e)) = Sent(Peer(e))
  /\ ret[e] = 0 => at[Peer(e)] = "closed" /\ Len(accepted[e]) = seq[Peer(e)]

EndInv(e) ==
  /\ Flow(Wire(e), accepted[e], seq[Peer(e)])
  /\ ~failed => Whole(e)

StreamInv ==
  /\ CallInv
  /\ reset["client"] = "no" <=> reset["server"] = "no"
  /\ \A e \in Ends : EndInv(e)

\* The wire is what has been received of a frame and what is on its way.
LEMMA WireType ==
  ASSUME CallInv, NEW e \in Ends
  PROVE  /\ Got(e) \in Seq(Nat) /\ Wire(e) \in Seq(Nat) /\ stream[e] \in Seq(Nat)
         /\ Len(Wire(e)) = Len(Got(e)) + Len(stream[e])
         /\ Len(Got(e)) \in Nat /\ Len(stream[e]) \in Nat
         /\ \A i \in 1 .. Len(Got(e)) : Wire(e)[i] = Got(e)[i]
         /\ \A i \in 1 .. Len(stream[e]) : Wire(e)[Len(Got(e)) + i] = stream[e][i]
<1>1. part[e] \in Seq(Nat) /\ stream[e] \in Seq(Nat)
  BY Types
<1>2. Got(e) \in Seq(Nat)
  BY <1>1 DEF Got
<1> QED BY <1>1, <1>2, Concatenation DEF Wire

\* The same of the state after a step.
LEMMA WireTypeNext ==
  ASSUME CallInv', NEW e \in Ends
  PROVE  Wire(e)' \in Seq(Nat)
<1>1. part'[e] \in Seq(Nat) /\ stream'[e] \in Seq(Nat)
  BY DEF CallInv, Domains
<1>2. Got(e)' \in Seq(Nat)
  BY <1>1 DEF Got
<1> QED BY <1>1, <1>2, Concatenation DEF Wire

\* Nothing has been sent at the start.
LEMMA InitStreamInv == Init => StreamInv
<1> SUFFICES ASSUME Init PROVE StreamInv
  OBVIOUS
<1>1. CallInv
  BY InitCallInv
<1>2. reset["client"] = "no" /\ reset["server"] = "no"
  BY DEF Init, Ends
<1>3. ASSUME NEW e \in Ends PROVE EndInv(e)
  <2>1. /\ accepted[e] = <<>> /\ stream[e] = <<>> /\ ~refused[e] /\ reset[e] = "no"
        /\ at[e] = "none" /\ ret[e] = None
    BY DEF Init
  <2>2. seq[Peer(e)] = 0 /\ at[Peer(e)] = "none" /\ Peer(e) \in Ends
    BY TwoEnds DEF Init
  <2>3. Wire(e) = <<>>
    BY <2>1 DEF Wire, Got, InRecv
  <2>4. Len(<<>>) = 0 /\ From(0) = 0 /\ None # 0
    BY Units DEF None, F
  <2>5. Flow(Wire(e), accepted[e], seq[Peer(e)])
    BY <2>1, <2>2, <2>3 DEF Flow, Rising
  <2>6. Whole(e)
    BY <2>1, <2>2, <2>3, <2>4 DEF Whole, Consecutive, Sent
  <2> QED BY <2>5, <2>6 DEF EndInv
<1> QED BY <1>1, <1>2, <1>3 DEF StreamInv

\* A step that changes nothing of what EndInv is about, except that the
\* connection breaks, an end closes or a call begins.
LEMMA Undisturbed ==
  ASSUME NEW e \in Ends, EndInv(e),
         Wire(e)' = Wire(e), accepted'[e] = accepted[e], refused'[e] = refused[e],
         failed' = failed, seq'[Peer(e)] = seq[Peer(e)],
         ret'[e] \in {ret[e], None}, reset'[e] \in {reset[e], "pending"},
         at[e] = "closed" => at'[e] = "closed",
         at[Peer(e)] = "closed" => at'[Peer(e)] = "closed",
         Sent(Peer(e))' = Sent(Peer(e))
  PROVE  EndInv(e)'
<1>1. None # 0
  BY Units DEF None, F
<1>2. ret'[e] = 0 => ret[e] = 0
  BY <1>1
<1>3. reset'[e] = "no" => reset[e] = "no"
  OBVIOUS
<1>4. Flow(Wire(e), accepted[e], seq[Peer(e)])'
  BY DEF EndInv
<1>5. ASSUME ~failed PROVE Whole(e)'
  <2>1. Whole(e)
    BY <1>5 DEF EndInv
  <2> QED BY <1>2, <1>3, <2>1 DEF Whole
<1> QED BY <1>4, <1>5 DEF EndInv

\* The connection breaks, or an end closes: of the units the first remain, or none.
LEMMA Shortened ==
  ASSUME CallInv, CallInv', NEW e \in Ends, EndInv(e),
         NEW n \in Nat, n <= Len(Wire(e)), Len(Wire(e)') = n,
         \A i \in 1 .. n : Wire(e)'[i] = Wire(e)[i],
         accepted'[e] = accepted[e], refused'[e] = refused[e],
         failed' = failed, seq'[Peer(e)] = seq[Peer(e)],
         ret'[e] = ret[e], reset'[e] # "told" \/ reset'[e] = reset[e],
         reset'[e] # "no" \/ at'[e] = "closed",
         at[Peer(e)] = "closed" => at'[Peer(e)] = "closed"
  PROVE  EndInv(e)'
<1>1. Wire(e) \in Seq(Nat) /\ Wire(e)' \in Seq(Nat) /\ seq[Peer(e)] \in Nat
  <2>1. seq \in [Ends -> Nat] /\ Peer(e) \in Ends
    BY Types, TwoEnds
  <2> QED BY <2>1, WireType, WireTypeNext
<1>2. Flow(Wire(e), accepted[e], seq[Peer(e)])
  BY DEF EndInv
<1>3. \A j \in 1 .. Len(Wire(e)') : Wire(e)'[j] = Wire(e)[0 + j]
  <2> TAKE j \in 1 .. Len(Wire(e)')
  <2>1. 0 + j = j
    OBVIOUS
  <2> QED BY <2>1, Zenon
<1>4. 0 \in Nat /\ 0 + Len(Wire(e)') <= Len(Wire(e))
  OBVIOUS
<1>5. Flow(Wire(e)', accepted[e], seq[Peer(e)])
  BY <1>1, <1>2, <1>3, <1>4, FlowStretch
<1>6. ASSUME ~failed PROVE Whole(e)'
  <2>1. Whole(e)
    BY <1>6 DEF EndInv
  <2>2. \A j \in 1 .. n : j \in 1 .. Len(Wire(e))
    BY <1>1
  <2>3. Consecutive(Wire(e)', From(Len(accepted[e])))
    BY <2>1, <2>2, Zenon DEF Whole, Consecutive
  <2> QED BY <2>1, <2>3 DEF Whole
<1> QED BY <1>5, <1>6 DEF EndInv

\* A call has failed.
LEMMA Disturbed ==
  ASSUME CallInv, NEW e \in Ends, EndInv(e),
         Wire(e)' \in {Wire(e), <<>>}, accepted'[e] = accepted[e], failed',
         seq'[Peer(e)] \in {seq[Peer(e)], seq[Peer(e)] + 1}
  PROVE  EndInv(e)'
<1>1. Wire(e) \in Seq(Nat) /\ seq[Peer(e)] \in Nat /\ Len(Wire(e)) \in Nat
  <2>1. seq \in [Ends -> Nat] /\ Peer(e) \in Ends
    BY Types, TwoEnds
  <2> QED BY <2>1, WireType, SequenceType
<1>2. Flow(Wire(e), accepted[e], seq[Peer(e)])
  BY DEF EndInv
<1>3. Wire(e)' \in Seq(Nat) /\ 0 + Len(Wire(e)') <= Len(Wire(e)) /\ 0 \in Nat
      /\ \A j \in 1 .. Len(Wire(e)') : Wire(e)'[j] = Wire(e)[0 + j]
  <2>1. CASE Wire(e)' = Wire(e)
    <3>1. \A j \in 1 .. Len(Wire(e)) : Wire(e)[j] = Wire(e)[0 + j]
      <4> TAKE j \in 1 .. Len(Wire(e))
      <4>1. 0 + j = j
        OBVIOUS
      <4> QED BY <4>1, Zenon
    <3>2. 0 + Len(Wire(e)) = Len(Wire(e))
      BY <1>1
    <3> QED BY <1>1, <2>1, <3>1, <3>2
  <2>2. CASE Wire(e)' = <<>>
    <3>1. <<>> \in Seq(Nat) /\ Len(<<>>) = 0 /\ \A j \in 1 .. 0 : FALSE
      OBVIOUS
    <3>2. 0 + 0 <= Len(Wire(e))
      BY <1>1
    <3> QED BY <2>2, <3>1, <3>2
  <2> QED BY <2>1, <2>2
<1>4. Flow(Wire(e)', accepted[e], seq'[Peer(e)])
  <2> DEFINE b == seq[Peer(e)]
             c == seq'[Peer(e)]
             x == Wire(e)'
             w == Wire(e)
  <2>1. b \in Nat /\ c \in {b, b + 1} /\ Flow(w, accepted[e], b) /\ w \in Seq(Nat)
    BY <1>1, <1>2
  <2>2. x \in Seq(Nat) /\ 0 + Len(x) <= Len(w) /\ \A j \in 1 .. Len(x) : x[j] = w[0 + j]
    BY <1>3
  <2> HIDE DEF b, c, x, w
  <2>3. Flow(x, accepted[e], b)
    BY <2>1, <2>2, <1>3, FlowStretch
  <2>4. Flow(x, accepted[e], c)
    BY <2>1, <2>2, <2>3, FlowLater
  <2> QED BY <2>4 DEF c, x
<1> QED BY <1>4 DEF EndInv

-----------------------------------------------------------------------------
(* Steps that move no units                                                *)

\* What an end has sent changes with its call and its next frame only.
LEMMA SentSame ==
  ASSUME NEW b, at'[b] = at[b], part'[b] = part[b], seq'[b] = seq[b]
  PROVE  Sent(b)' = Sent(b)
BY DEF Sent

\* A send that begins has sent nothing yet.
LEMMA SentBegun ==
  ASSUME NEW b, at'[b] = "send", NEW u, part'[b] = u, seq'[b] = seq[b]
  PROVE  Sent(b)' = From(seq[b]) + (F - Len(u))
BY DEF Sent

\* That is, of a whole frame.
LEMMA NoneLeft == ASSUME NEW k \in Nat PROVE F - Len(Frame(k)) = 0
BY Units, FrameType

\* An end is opened, or a call begins.
LEMMA Begins ==
  ASSUME CallInv, NEW a \in Ends, NEW p \in {"idle", "send", "recv", "timed recv"},
         at[a] \in {"none", "idle"}, at' = [at EXCEPT ![a] = p],
         part' = IF p = "send" THEN [part EXCEPT ![a] = Frame(seq[a])] ELSE part,
         stream' = stream, seq' = seq, reset' = reset,
         accepted' = accepted, refused' = refused, failed' = failed,
         \A e \in Ends : ret'[e] \in {ret[e], None},
         NEW e \in Ends, EndInv(e)
  PROVE  EndInv(e)'
<1>1. /\ part \in [Ends -> Seq(Nat)] /\ at \in [Ends -> Places] /\ seq \in [Ends -> Nat]
      /\ CallOf(at[a], part[a], seq[a], traffic[a], ret[a])
  BY Types
<1>2. at'[a] = p /\ part[a] = <<>> /\ \A b \in Ends : b # a => at'[b] = at[b] /\ part'[b] = part[b]
  BY <1>1, Zenon DEF CallOf
<1>3. part'[a] = IF p = "send" THEN Frame(seq[a]) ELSE <<>>
  BY <1>1, <1>2, Zenon
<1>4. Got(e)' = Got(e)
  <2>1. CASE e = a
    BY <1>2, <1>3, <2>1 DEF Got, InRecv
  <2>2. CASE e # a
    BY <1>2, <2>2 DEF Got, InRecv
  <2> QED BY <2>1, <2>2
<1>5. Wire(e)' = Wire(e)
  BY <1>4 DEF Wire
<1>6. Sent(a)' = Sent(a)
  <2>1. F \in Nat /\ Len(Frame(seq[a])) = F /\ From(seq[a]) \in Nat
    BY <1>1, Units, FrameType
  <2>2. Sent(a) = From(seq[a]) + 0
    BY DEF Sent
  <2>3. Sent(a)' = From(seq[a]) + 0
    <3>1. CASE p = "send"
      <4>1. Sent(a)' = From(seq[a]) + (F - Len(Frame(seq[a])))
        <5>1. seq'[a] = seq[a] /\ at'[a] = "send" /\ part'[a] = Frame(seq[a])
          BY <1>2, <1>3, <3>1
        <5> QED BY <5>1, SentBegun
      <4>2. F - Len(Frame(seq[a])) = 0
        BY <1>1, NoneLeft, Zenon
      <4> QED BY <4>1, <4>2, Zenon
    <3>2. CASE p # "send"
      BY <1>2, <3>2 DEF Sent
    <3> QED BY <3>1, <3>2
  <2> QED BY <2>2, <2>3
<1>7. \A b \in Ends : b # a => Sent(b)' = Sent(b)
  <2> SUFFICES ASSUME NEW b \in Ends, b # a PROVE Sent(b)' = Sent(b)
    OBVIOUS
  <2>1. at'[b] = at[b] /\ part'[b] = part[b] /\ seq'[b] = seq[b]
    BY <1>2
  <2> QED BY <2>1, SentSame
<1>8. Sent(Peer(e))' = Sent(Peer(e))
  BY <1>6, <1>7, TwoEnds
<1>9. \A b \in Ends : at[b] = "closed" => at'[b] = "closed"
  BY <1>2
<1> QED BY <1>5, <1>8, <1>9, TwoEnds, Undisturbed

\* The steps that Begins is about.
LEMMA BeginsStep ==
  ASSUME CallInv, NEW a \in Ends,
         \/ \E timed \in BOOLEAN : Connect(timed) /\ a = "client"
         \/ Accept /\ a = "server"
         \/ BeginSend(a) \/ \E timed \in BOOLEAN : BeginRecv(a, timed),
         NEW e \in Ends, EndInv(e)
  PROVE  EndInv(e)'
<1>0. ret \in [Ends -> 0 .. None]
  BY Types
<1>1. UNCHANGED <<stream, seq, reset, accepted, refused, failed>> /\ at[a] \in {"none", "idle"}
  BY DEF Connect, Accept, BeginSend, BeginRecv, history
<1>2. \A b \in Ends : ret'[b] \in {ret[b], None}
  BY <1>0, Zenon DEF Connect, Accept, BeginSend, BeginRecv
<1>3. \E p \in {"idle", "send", "recv", "timed recv"} :
        /\ at' = [at EXCEPT ![a] = p]
        /\ part' = IF p = "send" THEN [part EXCEPT ![a] = Frame(seq[a])] ELSE part
  <2>1. CASE (\E timed \in BOOLEAN : Connect(timed) /\ a = "client") \/ (Accept /\ a = "server")
    <3>1. at' = [at EXCEPT ![a] = "idle"] /\ part' = part
      BY <2>1, Zenon DEF Connect, Accept
    <3>2. "idle" \in {"idle", "send", "recv", "timed recv"} /\ "idle" # "send"
      OBVIOUS
    <3> QED BY <3>1, <3>2, Zenon
  <2>2. CASE BeginSend(a)
    BY <2>2, Zenon DEF BeginSend
  <2>3. CASE \E timed \in BOOLEAN : BeginRecv(a, timed)
    <3>1. (at' = [at EXCEPT ![a] = "recv"] \/ at' = [at EXCEPT ![a] = "timed recv"]) /\ part' = part
      BY <2>3, Zenon DEF BeginRecv
    <3>2. "recv" # "send" /\ "timed recv" # "send"
      OBVIOUS
    <3> QED BY <3>1, <3>2, Zenon
  <2> QED BY <2>1, <2>2, <2>3
<1> QED BY <1>1, <1>2, <1>3, Begins

\* The listening socket is opened or closed.
LEMMA ListenerStep ==
  ASSUME ServerInit \/ CloseListener \/ UNCHANGED vars, CallInv, NEW e \in Ends, EndInv(e)
  PROVE  EndInv(e)'
<1>1. UNCHANGED <<at, part, seq, ret, stream, accepted, refused, failed>>
  BY DEF ServerInit, CloseListener, vars, history
<1>2. reset'[e] \in {reset[e], "pending"}
  BY DEF ServerInit, CloseListener, vars, Breaks
<1>3. Wire(e)' = Wire(e) /\ Sent(Peer(e))' = Sent(Peer(e))
  BY <1>1 DEF Wire, Got, InRecv, Sent
<1> QED BY <1>1, <1>2, <1>3, Undisturbed

\* A break keeps the first of the units on their way.
LEMMA BreakStep ==
  ASSUME Break, CallInv, CallInv', NEW e \in Ends, EndInv(e)
  PROVE  EndInv(e)'
<1>1. UNCHANGED <<at, part, seq, ret, accepted, refused, failed>> /\ Got(e)' = Got(e)
  BY DEF Break, history, Got, InRecv
<1>2. reset'[e] = "pending"
  BY DEF Break, Breaks
<1>3. PICK kept \in [Ends -> 0 .. Window] :
        stream' = [b \in Ends |-> SubSeq(stream[b], 1, Smaller(kept[b], Len(stream[b])))]
  BY DEF Break
<1> DEFINE m == Smaller(kept[e], Len(stream[e]))
<1>4. /\ Got(e) \in Seq(Nat) /\ stream[e] \in Seq(Nat) /\ Wire(e) \in Seq(Nat)
      /\ Len(Wire(e)) = Len(Got(e)) + Len(stream[e])
      /\ Len(Got(e)) \in Nat /\ Len(stream[e]) \in Nat
      /\ \A i \in 1 .. Len(Got(e)) : Wire(e)[i] = Got(e)[i]
      /\ \A i \in 1 .. Len(stream[e]) : Wire(e)[Len(Got(e)) + i] = stream[e][i]
  BY WireType
<1>5. m \in Nat /\ m <= Len(stream[e])
  <2>1. kept[e] \in 0 .. Window /\ Window \in Nat
    BY TcpAssumption
  <2> QED BY <1>4, <2>1 DEF Smaller
<1>6. stream'[e] = SubSeq(stream[e], 1, m)
  BY <1>3, Zenon
<1> HIDE DEF m
<1>7. stream'[e] \in Seq(Nat) /\ Len(stream'[e]) = m /\ \A i \in 1 .. m : stream'[e][i] = stream[e][i]
  BY <1>4, <1>5, <1>6, Beginning
<1>8. Wire(e)' = Got(e) \o stream'[e]
  BY <1>1 DEF Wire
<1>9. /\ Len(Wire(e)') = Len(Got(e)) + m
      /\ \A i \in 1 .. Len(Got(e)) : Wire(e)'[i] = Got(e)[i]
      /\ \A i \in 1 .. m : Wire(e)'[Len(Got(e)) + i] = stream'[e][i]
  <2> DEFINE g == Got(e)
             t == stream'[e]
  <2>1. g \in Seq(Nat) /\ t \in Seq(Nat) /\ Len(t) = m
    BY <1>4, <1>7
  <2> HIDE DEF g, t
  <2>2. /\ Len(g \o t) = Len(g) + Len(t)
        /\ \A i \in 1 .. Len(g) : (g \o t)[i] = g[i]
        /\ \A i \in 1 .. Len(t) : (g \o t)[Len(g) + i] = t[i]
    BY <2>1, Concatenation
  <2> QED BY <1>8, <2>1, <2>2, Zenon DEF g, t
<1>10. ASSUME NEW i \in 1 .. Len(Got(e)) + m PROVE Wire(e)'[i] = Wire(e)[i]
  <2>1. CASE i \in 1 .. Len(Got(e))
    BY <1>4, <1>9, <2>1
  <2>2. CASE i \notin 1 .. Len(Got(e))
    <3>1. PICK j \in 1 .. m : i = Len(Got(e)) + j
      <4>1. i - Len(Got(e)) \in 1 .. m /\ i = Len(Got(e)) + (i - Len(Got(e)))
        BY <1>4, <1>5, <2>2
      <4> QED BY <4>1
    <3>2. j \in 1 .. Len(stream[e])
      BY <1>4, <1>5
    <3> QED BY <1>4, <1>7, <1>9, <3>1, <3>2
  <2> QED BY <2>1, <2>2
<1>11. Len(Got(e)) + m \in Nat /\ Len(Got(e)) + m <= Len(Wire(e))
  BY <1>4, <1>5
<1>12. reset'[e] # "told" /\ reset'[e] # "no"
  BY <1>2
<1> QED BY <1>1, <1>9, <1>10, <1>11, <1>12, Shortened

\* An end that closes receives nothing more.
LEMMA CloseStep ==
  ASSUME NEW a \in Ends, Close(a), CallInv, CallInv', NEW e \in Ends, EndInv(e)
  PROVE  EndInv(e)'
<1>1. /\ UNCHANGED <<part, seq, ret, reset, accepted, refused, failed>>
      /\ at[a] = "idle" /\ at' = [at EXCEPT ![a] = "closed"]
      /\ stream' = [stream EXCEPT ![a] = <<>>]
  BY DEF Close, history
<1>2. at \in [Ends -> Places] /\ stream \in [Ends -> Seq(Nat)]
  BY Types
<1>3. at'[a] = "closed" /\ stream'[a] = <<>> /\ \A b \in Ends : b # a => at'[b] = at[b] /\ stream'[b] = stream[b]
  BY <1>1, <1>2, Zenon
<1>4. at[Peer(e)] = "closed" => at'[Peer(e)] = "closed"
  BY <1>1, <1>3, TwoEnds
<1>5. CASE e = a
  <2>1. Wire(e)' = <<>>
    <3>1. Got(e)' = <<>> /\ stream'[e] = <<>>
      BY <1>3, <1>5 DEF Got, InRecv
    <3>2. <<>> \o <<>> = <<>>
      OBVIOUS
    <3> QED BY <3>1, <3>2 DEF Wire
  <2>2. Len(<<>>) = 0 /\ 0 \in Nat
    OBVIOUS
  <2>3. Len(Wire(e)) \in Nat
    BY WireType, SequenceType
  <2>4. 0 <= Len(Wire(e)) /\ \A i \in 1 .. 0 : Wire(e)'[i] = Wire(e)[i]
    BY <2>3
  <2> QED BY <1>1, <1>3, <1>4, <1>5, <2>1, <2>2, <2>4, Shortened
<1>6. CASE e # a
  <2>1. Wire(e)' = Wire(e)
    BY <1>1, <1>3, <1>6 DEF Wire, Got, InRecv
  <2>2. Sent(a)' = Sent(a)
    BY <1>1, <1>3 DEF Sent
  <2>3. Peer(e) = a
    BY <1>6, TwoEnds
  <2>4. at[e] = "closed" => at'[e] = "closed"
    BY <1>3, <1>6
  <2> QED BY <1>1, <1>4, <2>1, <2>2, <2>3, <2>4, Undisturbed
<1> QED BY <1>5, <1>6

-----------------------------------------------------------------------------
(* Sending                                                                 *)

\* Units join a stream in any grouping.
LEMMA Associative ==
  ASSUME NEW s \in Seq(Nat), NEW t \in Seq(Nat), NEW u \in Seq(Nat)
  PROVE  s \o (t \o u) = (s \o t) \o u
BY SMTT(60)

\* The place in the frame where a send goes on.
LEMMA Offsets ==
  \A f, l, m, n \in Nat : m + n = l /\ l <= f =>
    f - l \in 0 .. f /\ (f - l) + m <= f /\ (f - l) + m = f - n /\ ((f - l) + m = f <=> n = 0)
OBVIOUS

\* Both sides of an account grow by the same.
LEMMA SumOf ==
  \A x, m, n, y, o \in Nat : x + m = y + o => x + (m + n) = y + (o + n)
OBVIOUS

\* Units that follow on those before them.
LEMMA ConsecutiveJoined ==
  ASSUME NEW w \in Seq(Nat), NEW p \in Seq(Nat), NEW x \in Nat, Consecutive(w, x),
         Consecutive(p, x + Len(w))
  PROVE  Consecutive(w \o p, x)
<1> DEFINE y == w \o p
<1>1. /\ Len(y) = Len(w) + Len(p) /\ Len(w) \in Nat /\ Len(p) \in Nat
      /\ \A i \in 1 .. Len(w) : y[i] = w[i]
      /\ \A i \in 1 .. Len(p) : y[Len(w) + i] = p[i]
  BY Concatenation
<1> HIDE DEF y
<1>2. ASSUME NEW j \in 1 .. Len(y) PROVE y[j] = x + j - 1
  <2>1. CASE j \in 1 .. Len(w)
    BY <1>1, <2>1 DEF Consecutive
  <2>2. CASE j \notin 1 .. Len(w)
    <3>1. PICK i \in 1 .. Len(p) : j = Len(w) + i
      <4>1. j - Len(w) \in 1 .. Len(p) /\ j = Len(w) + (j - Len(w))
        BY <1>1, <2>2
      <4> QED BY <4>1
    <3>2. p[i] = x + Len(w) + i - 1
      BY DEF Consecutive
    <3> QED BY <1>1, <3>1, <3>2
  <2> QED BY <2>1, <2>2
<1> QED BY <1>2 DEF Consecutive, y

\* The units of a send reach the peer's end of the wire.
LEMMA SentArrive ==
  ASSUME CallInv, reset["client"] = "no" <=> reset["server"] = "no",
         NEW a \in Ends, NEW p \in Seq(Nat), NEW q \in Seq(Nat), Sends(a, p, q),
         NEW e \in Ends, e = Peer(a), EndInv(e)
  PROVE  EndInv(e)'
<1>0. /\ part[a] \in Seq(Nat) /\ seq[a] \in Nat /\ accepted[e] \in Seq(Seq(Nat)) /\ Len(accepted[e]) \in Nat
      /\ seq \in [Ends -> Nat] /\ stream \in [Ends -> Seq(Nat)] /\ at \in [Ends -> Places]
      /\ part \in [Ends -> Seq(Nat)]
  <2>1. accepted[e] \in Seq(Seq(Nat)) => Len(accepted[e]) \in Nat
    OBVIOUS
  <2> QED BY <2>1, Types
<1>1. e # a /\ Peer(e) = a
  BY TwoEnds
<1>2. /\ at[a] = "send" /\ reset[a] = "no" /\ Len(p) \in Nat \ {0} /\ Len(q) \in Nat
      /\ Len(p) + Len(q) = Len(part[a]) /\ Len(part[a]) <= F
      /\ Consecutive(p, From(seq[a]) + (F - Len(part[a])))
      /\ part' = [part EXCEPT ![a] = q]
      /\ UNCHANGED <<ret, reset, accepted, refused, failed>>
  BY Zenon DEF Sends
<1>3. /\ Len(q) = 0 => at'[a] = "idle" /\ seq'[a] = seq[a] + 1
      /\ Len(q) # 0 => at'[a] = "send" /\ seq'[a] = seq[a]
      /\ at'[e] = at[e] /\ part'[e] = part[e] /\ part'[a] = q
  BY <1>0, <1>1, <1>2 DEF Sends
<1>4. Flow(Wire(e), accepted[e], seq[a])
  BY <1>1 DEF EndInv
<1>5. reset[e] = "no"
  BY <1>2 DEF Ends
<1>6. Got(e)' = Got(e)
  BY <1>3 DEF Got, InRecv
<1>7. /\ Got(e) \in Seq(Nat) /\ stream[e] \in Seq(Nat) /\ Wire(e) \in Seq(Nat) /\ Len(Wire(e)) \in Nat
  BY WireType, SequenceType
<1> DEFINE b == seq[a]
           c == seq'[a]
           o == F - Len(part[a])
<1>8. /\ o \in 0 .. F /\ o + Len(p) <= F /\ o + Len(p) = F - Len(q)
      /\ (o + Len(p) = F <=> Len(q) = 0) /\ b \in Nat /\ From(b) \in Nat /\ F \in Nat
      /\ From(b + 1) = From(b) + F /\ Len(part[a]) \in Nat
  <2>1. F \in Nat /\ From(seq[a]) \in Nat /\ From(seq[a] + 1) = From(seq[a]) + F
    BY <1>0, Units
  <2>2. Len(part[a]) \in Nat
    BY <1>0, SequenceType
  <2>0. Len(p) \in Nat
    BY <1>2
  <2>3. /\ F - Len(part[a]) \in 0 .. F /\ (F - Len(part[a])) + Len(p) <= F
        /\ (F - Len(part[a])) + Len(p) = F - Len(q) /\ ((F - Len(part[a])) + Len(p) = F <=> Len(q) = 0)
    <3> DEFINE f == F
               l == Len(part[a])
               m == Len(p)
               n == Len(q)
    <3>1. f \in Nat /\ l \in Nat /\ m \in Nat /\ n \in Nat /\ m + n = l /\ l <= f
      BY <1>2, <2>0, <2>1, <2>2
    <3> HIDE DEF f, l, m, n
    <3>2. f - l \in 0 .. f /\ (f - l) + m <= f /\ (f - l) + m = f - n /\ ((f - l) + m = f <=> n = 0)
      BY <3>1
    <3> QED BY <3>2 DEF f, l, m, n
  <2> QED BY <1>0, <2>1, <2>2, <2>3, Zenon
<1>9. c \in {b, b + 1} /\ (o + Len(p) = F <=> c = b + 1)
  BY <1>3, <1>8
<1>10. Consecutive(p, From(b) + o)
  BY <1>2
<1>11. CASE at[e] = "closed" /\ UNCHANGED stream
  <2>1. Wire(e)' = Wire(e)
    BY <1>6, <1>11 DEF Wire
  <2>2. Flow(Wire(e), accepted[e], c)
    BY <1>4, <1>7, <1>8, <1>9, FlowLater
  <2>3. ASSUME ~failed PROVE Whole(e)'
    <3>1. Whole(e)
      BY <2>3 DEF EndInv
    <3>2. ret[e] # 0
      BY <1>1, <1>2, <3>1 DEF Whole
    <3>3. at'[e] = "closed"
      BY <1>3, <1>11
    <3> QED BY <1>2, <2>1, <3>1, <3>2, <3>3 DEF Whole
  <2> QED BY <1>1, <1>2, <2>1, <2>2, <2>3 DEF EndInv
<1>12. CASE at[e] # "closed" /\ stream' = [stream EXCEPT ![e] = @ \o p]
  <2>1. Wire(e)' = Wire(e) \o p
    <3>1. stream'[e] = stream[e] \o p
      BY <1>0, <1>12, Zenon
    <3>2. Wire(e)' = Got(e) \o (stream[e] \o p)
      BY <1>6, <3>1 DEF Wire
    <3>3. Got(e) \o (stream[e] \o p) = (Got(e) \o stream[e]) \o p
      <4> DEFINE g == Got(e)
                 t == stream[e]
      <4>1. g \in Seq(Nat) /\ t \in Seq(Nat)
        BY <1>7
      <4> HIDE DEF g, t
      <4>2. g \o (t \o p) = (g \o t) \o p
        BY <4>1, Associative, SMTT(40)
      <4> QED BY <4>2 DEF g, t
    <3> QED BY <3>2, <3>3, Zenon DEF Wire
  <2>2. Flow(Wire(e) \o p, accepted[e], c)
    <3> DEFINE w == Wire(e)
    <3>1. w \in Seq(Nat) /\ Flow(w, accepted[e], b)
      BY <1>4, <1>7
    <3> HIDE DEF w, b, c, o
    <3>2. Flow(w \o p, accepted[e], c)
      BY <1>8, <1>9, <1>10, <3>1, FlowSent
    <3> QED BY <3>2 DEF w
  <2>3. ASSUME ~failed PROVE Whole(e)'
    <3> DEFINE x == From(Len(accepted[e]))
    <3>1. Whole(e)
      BY <2>3 DEF EndInv
    <3>2. x \in Nat
      BY <1>0, Units
    <3>3. x + Len(Wire(e)) = From(b) + o
      <4>1. x + Len(Wire(e)) = Sent(a)
        BY <1>1, <1>5, <1>12, <3>1 DEF Whole
      <4> QED BY <1>2, <4>1, Zenon DEF Sent
    <3>4. Consecutive(Wire(e) \o p, x)
      <4>1. Consecutive(Wire(e), x) /\ Consecutive(p, x + Len(Wire(e)))
        BY <1>10, <3>1, <3>3, Zenon DEF Whole
      <4> HIDE DEF x
      <4> QED BY <1>7, <3>2, <4>1, ConsecutiveJoined
    <3>5. x + Len(Wire(e) \o p) = From(b) + (o + Len(p))
      <4>1. Len(Wire(e) \o p) = Len(Wire(e)) + Len(p) /\ Len(p) \in Nat
        BY <1>7, Concatenation
      <4>2. o \in Nat
        BY <1>8
      <4>3. x + (Len(Wire(e)) + Len(p)) = From(b) + (o + Len(p))
        <5> DEFINE m == Len(Wire(e))
                   n == Len(p)
                   y == From(b)
        <5>1. m \in Nat /\ n \in Nat /\ y \in Nat /\ x \in Nat /\ o \in Nat /\ x + m = y + o
          BY <1>7, <1>8, <3>2, <3>3, <4>1, <4>2
        <5> HIDE DEF x, o, m, n, y
        <5>2. x + (m + n) = y + (o + n)
          BY <5>1
        <5> QED BY <5>2 DEF m, n, y
      <4> QED BY <4>1, <4>3, Zenon
    <3>6. Sent(a)' = From(b) + (o + Len(p))
      <4>1. Sent(a)' = From(c) + (IF at'[a] = "send" THEN F - Len(q) ELSE 0)
        BY <1>3, Zenon DEF Sent
      <4>2. CASE Len(q) = 0
        <5>1. Sent(a)' = From(b + 1) + 0
          BY <1>3, <4>1, <4>2
        <5>2. From(b) + F = From(b + 1) + 0 /\ o + Len(p) = F
          BY <1>8, <4>2
        <5> QED BY <5>1, <5>2, Zenon
      <4>3. CASE Len(q) # 0
        <5>1. Sent(a)' = From(b) + (F - Len(q))
          BY <1>3, <4>1, <4>3
        <5> QED BY <1>8, <5>1, Zenon
      <4> QED BY <4>2, <4>3
    <3>7. ret[e] # 0
      BY <1>1, <1>2, <3>1 DEF Whole
    <3>8. /\ Consecutive(Wire(e), From(Len(accepted[e])))'
          /\ (From(Len(accepted[e])) + Len(Wire(e)) = Sent(Peer(e)))'
      BY <1>1, <1>2, <2>1, <3>4, <3>5, <3>6
    <3> QED BY <1>2, <3>1, <3>7, <3>8 DEF Whole
  <2> QED BY <1>1, <1>2, <2>1, <2>2, <2>3 DEF EndInv
<1> QED BY <1>11, <1>12 DEF Sends

\* The calls of an end, seen from the other direction: what it receives is no
\* matter to what is on its way to the peer, and what it sends no matter to itself.
LEMMA OtherDirection ==
  ASSUME CallInv, NEW a \in Ends, NEW e \in Ends, e # a, EndInv(e),
         InRecv(a), at'[a] # "send", seq'[a] = seq[a],
         at'[e] = at[e], part'[e] = part[e], stream'[e] = stream[e], ret'[e] = ret[e],
         reset'[e] = reset[e], failed' = failed,
         accepted'[e] = accepted[e], refused'[e] = refused[e]
  PROVE  EndInv(e)'
<1>1. Wire(e)' = Wire(e)
  BY DEF Wire, Got, InRecv
<1>2. Peer(e) = a
  BY TwoEnds
<1>3. Sent(a)' = Sent(a)
  BY DEF Sent, InRecv
<1>4. at[a] # "closed"
  BY DEF InRecv
<1> QED BY <1>1, <1>2, <1>3, <1>4, Undisturbed

\* A send puts units on the peer's wire, and none on its own.
LEMMA SendPartFlow ==
  ASSUME CallInv, reset["client"] = "no" <=> reset["server"] = "no",
         NEW a \in Ends, SendPart(a), NEW e \in Ends, EndInv(e)
  PROVE  EndInv(e)'
<1>1. PICK p, q \in Seq(Nat) : Sends(a, p, q)
  BY SendPartSends
<1>2. CASE e = Peer(a)
  BY <1>1, <1>2, SentArrive
<1>3. CASE e = a
  <2>0. at \in [Ends -> Places] /\ seq \in [Ends -> Nat] /\ stream \in [Ends -> Seq(Nat)] /\ part \in [Ends -> Seq(Nat)]
    BY Types
  <2>1. /\ at[a] = "send" /\ part' = [part EXCEPT ![a] = q] /\ Len(q) \in Nat
        /\ UNCHANGED <<ret, reset, accepted, refused, failed>>
    BY <1>1, Zenon DEF Sends
  <2>2. at'[a] \in {"idle", "send"} /\ stream'[a] = stream[a]
    <3>1. Peer(a) # a
      BY TwoEnds
    <3>2. UNCHANGED stream \/ stream' = [stream EXCEPT ![Peer(a)] = @ \o p]
      BY <1>1, Zenon DEF Sends
    <3>3. stream'[a] = stream[a]
      BY <2>0, <3>1, <3>2, Zenon
    <3>4. at' = [at EXCEPT ![a] = "idle"] \/ at' = at
      BY <1>1, Zenon DEF Sends
    <3> QED BY <2>0, <2>1, <3>3, <3>4
  <2>3. Wire(e)' = Wire(e)
    BY <1>3, <2>1, <2>2 DEF Wire, Got, InRecv
  <2>4. \A b \in Ends : b # a => at'[b] = at[b] /\ part'[b] = part[b] /\ seq'[b] = seq[b]
    BY <1>1, <2>0, <2>1 DEF Sends
  <2>5. Peer(e) \in Ends /\ Peer(e) # a
    BY <1>3, TwoEnds
  <2>6. at'[Peer(e)] = at[Peer(e)] /\ part'[Peer(e)] = part[Peer(e)] /\ seq'[Peer(e)] = seq[Peer(e)]
    BY <2>4, <2>5, Zenon
  <2>7. Sent(Peer(e))' = Sent(Peer(e))
    BY <2>6, SentSame
  <2>8. at[e] # "closed"
    BY <1>3, <2>1
  <2> QED BY <2>1, <2>3, <2>6, <2>7, <2>8, Undisturbed
<1> QED BY <1>2, <1>3, TwoEnds

\* A call that fails leaves at most a part of a frame behind.
LEMMA FailsFlow ==
  ASSUME CallInv, NEW a \in Ends,
         SendTimesOut(a) \/ SendBroken(a) \/ RecvTimesOut(a) \/ RecvBroken(a),
         NEW e \in Ends, EndInv(e)
  PROVE  EndInv(e)'
<1>0. /\ at \in [Ends -> Places] /\ seq \in [Ends -> Nat] /\ part \in [Ends -> Seq(Nat)]
  BY Types
<1>1. /\ UNCHANGED <<stream, accepted>> /\ failed'
      /\ at' = [at EXCEPT ![a] = "idle"] /\ part' = [part EXCEPT ![a] = <<>>]
      /\ seq' \in {seq, [seq EXCEPT ![a] = @ + 1]}
      /\ at[a] = "send" \/ (InRecv(a) /\ stream[a] = <<>>)
  BY Zenon DEF SendTimesOut, SendBroken, SendFails, RecvTimesOut, RecvBroken, RecvFails, Quiet
<1>2. seq'[Peer(e)] \in {seq[Peer(e)], seq[Peer(e)] + 1}
  <2>1. Peer(e) \in Ends
    BY TwoEnds
  <2> QED BY <1>0, <1>1, <2>1
<1>3. /\ at'[a] = "idle" /\ \A b \in Ends : b # a => at'[b] = at[b] /\ part'[b] = part[b]
  BY <1>0, <1>1, Zenon
<1>4. Wire(e)' \in {Wire(e), <<>>}
  <2>1. CASE e # a
    BY <1>1, <1>3, <2>1 DEF Wire, Got, InRecv
  <2>2. CASE e = a /\ at[a] = "send"
    BY <1>1, <1>3, <2>2 DEF Wire, Got, InRecv
  <2>3. CASE e = a /\ stream[a] = <<>>
    <3>1. Got(e)' = <<>> /\ stream'[e] = <<>>
      BY <1>1, <1>3, <2>3 DEF Got, InRecv
    <3>2. <<>> \o <<>> = <<>>
      OBVIOUS
    <3>3. Wire(e)' = <<>>
      BY <3>1, <3>2 DEF Wire
    <3> QED BY <3>3
  <2> QED BY <1>1, <2>1, <2>2, <2>3
<1> QED BY <1>1, <1>2, <1>4, Disturbed

\* A count of whole frames leaves no remainder.
LEMMA NoRemainder ==
  ASSUME NEW j \in Nat, NEW k \in Nat, NEW l \in Nat, l < F, From(j) + l = From(k)
  PROVE  j = k /\ l = 0
<1>1. From(j) \in Nat /\ From(k) \in Nat /\ F \in Nat
  BY Units
<1>2. ~(j < k)
  <2>1. j < k => From(j) + F <= From(k)
    BY Units
  <2> QED BY <1>1, <2>1
<1>3. ~(k < j)
  <2>1. k < j => From(k) + F <= From(j)
    BY Units
  <2> QED BY <1>1, <2>1
<1>4. j = k
  BY <1>2, <1>3
<1> QED BY <1>1, <1>4

\* recv finds the end of the stream: if no call has failed, the account of the units
\* shows that the peer has closed between two frames and that all were received.
LEMMA ClosedFlow ==
  ASSUME CallInv, reset["client"] = "no" <=> reset["server"] = "no",
         NEW a \in Ends, RecvClosed(a), EndInv(a)
  PROVE  EndInv(a)'
<1>0. /\ at \in [Ends -> Places] /\ seq \in [Ends -> Nat] /\ part \in [Ends -> Seq(Nat)]
      /\ ret \in [Ends -> 0 .. None] /\ refused \in [Ends -> BOOLEAN]
      /\ CallOf(at[a], part[a], seq[a], traffic[a], ret[a])
  BY Types
<1>1. /\ InRecv(a) /\ stream[a] = <<>>
      /\ reset[a] = "told" \/ (reset[a] = "no" /\ at[Peer(a)] = "closed")
      /\ Return(a, part[a])
      /\ UNCHANGED <<seq, stream, reset, failed>>
  BY DEF RecvClosed
<1>2. part[a] \in Seq(Nat) /\ Len(part[a]) < F /\ Len(part[a]) \in Nat
  <2>1. part[a] \in Seq(Nat)
    BY <1>0
  <2>2. Len(part[a]) < F
    BY <1>0, <1>1 DEF CallOf, InRecv
  <2> QED BY <2>1, <2>2, SequenceType
<1>3. ~Decodes(part[a])
  BY <1>2 DEF Decodes, F
<1>4. /\ at'[a] = "idle" /\ accepted' = accepted /\ ret'[a] = Len(part[a])
      /\ refused'[a] = (refused[a] \/ part[a] # <<>>)
      /\ \A b \in Ends : b # a => at'[b] = at[b]
  BY <1>0, <1>1, <1>3, Zenon DEF Return
<1>5. Wire(a) = part[a]
  <2>1. Wire(a) = part[a] \o <<>>
    BY <1>1 DEF Wire, Got
  <2> QED BY <1>2, <2>1
<1>6. Wire(a)' = <<>>
  <2>1. Got(a)' = <<>> /\ stream'[a] = <<>>
    BY <1>1, <1>4 DEF Got, InRecv
  <2>2. <<>> \o <<>> = <<>>
    OBVIOUS
  <2> QED BY <2>1, <2>2 DEF Wire
<1>7. Peer(a) \in Ends /\ Peer(a) # a /\ seq[Peer(a)] \in Nat
  BY <1>0, TwoEnds
<1>8. Flow(<<>>, accepted[a], seq[Peer(a)])
  <2>1. Flow(part[a], accepted[a], seq[Peer(a)])
    BY <1>5 DEF EndInv
  <2>2. <<>> \in Seq(Nat) /\ 0 \in Nat /\ 0 + Len(<<>>) <= Len(part[a]) /\ \A j \in 1 .. Len(<<>>) : FALSE
    BY <1>2
  <2> QED BY <1>2, <1>7, <2>1, <2>2, FlowStretch
<1>9. ASSUME ~failed PROVE Whole(a)'
  <2>1. Whole(a)
    BY <1>9 DEF EndInv
  <2>2. reset[a] = "no" /\ at[Peer(a)] = "closed" /\ at[a] # "closed"
    BY <1>1, <2>1 DEF Whole, InRecv
  <2>3. Len(accepted[a]) \in Nat
    <3>1. accepted \in [Ends -> Seq(Seq(Nat))]
      BY Types
    <3> QED BY <3>1
  <2>4. From(seq[Peer(a)]) \in Nat /\ Sent(Peer(a)) = From(seq[Peer(a)]) + 0
    BY <1>7, <2>2, Units DEF Sent
  <2>5. From(Len(accepted[a])) + Len(part[a]) = From(seq[Peer(a)])
    <3>1. From(Len(accepted[a])) + Len(part[a]) = Sent(Peer(a))
      BY <1>5, <2>1, <2>2 DEF Whole
    <3> QED BY <2>4, <3>1
  <2>6. Len(accepted[a]) = seq[Peer(a)] /\ Len(part[a]) = 0
    BY <1>2, <1>7, <2>3, <2>5, NoRemainder
  <2>7. part[a] = <<>>
    BY <1>2, <2>6
  <2>8. Sent(Peer(a))' = From(seq[Peer(a)]) + 0
    <3>1. at'[Peer(a)] = "closed" /\ seq'[Peer(a)] = seq[Peer(a)]
      BY <1>1, <1>4, <1>7, <2>2
    <3> QED BY <3>1 DEF Sent
  <2>9. Len(<<>>) = 0 /\ Consecutive(<<>>, From(Len(accepted[a])))
    BY DEF Consecutive
  <2>10. From(Len(accepted[a])) + 0 = Sent(Peer(a))'
    BY <2>4, <2>6, <2>8
  <2>11. ~refused'[a] /\ at'[Peer(a)] = "closed" /\ reset'[a] # "told"
    BY <1>1, <1>4, <1>7, <2>1, <2>2, <2>7 DEF Whole
  <2>12. \A i \in 1 .. Len(accepted[a]) : accepted[a][i] = Frame(i - 1)
    BY <2>1 DEF Whole
  <2> QED BY <1>1, <1>4, <1>6, <2>6, <2>9, <2>10, <2>11, <2>12 DEF Whole
<1> QED BY <1>1, <1>4, <1>6, <1>8, <1>9 DEF EndInv

-----------------------------------------------------------------------------
(* Receiving                                                               *)

\* The next units in order make the next frame.
LEMMA NextDecodes ==
  ASSUME NEW k \in Nat, NEW buf \in Seq(Nat), Len(buf) = F, Consecutive(buf, From(k))
  PROVE  Decodes(buf) /\ buf = Frame(k)
<1>0. F \in Nat \ {0} /\ From(k) \in Nat
  BY Units
<1>1. /\ Frame(k) \in Seq(Nat) /\ Len(Frame(k)) = F
      /\ \A j \in 1 .. F : Frame(k)[j] = From(k) + j - 1
  BY FrameType
<1>2. \A j \in 1 .. F : buf[j] = From(k) + j - 1
  BY DEF Consecutive
<1>3. buf = Frame(k)
  BY <1>1, <1>2, SameSequence
<1>4. buf[1] = From(k)
  BY <1>0, <1>2
<1>5. From(k) % F = 0
  <2>1. ASSUME NEW x \in Nat, NEW n \in Nat \ {0} PROVE (x * n) % n = 0
    <3>1. x * n \in Int /\ x * n = n * x + 0
      BY SMT
    <3>2. 0 \in 0 .. n - 1 /\ x \in Int /\ n \in Nat \ {0}
      OBVIOUS
    <3> QED BY <3>1, <3>2, Remainder
  <2>2. (k * F) % F = 0
    BY <1>0, <2>1
  <2> QED BY <2>2 DEF From, F
<1>6. buf # <<>>
  BY <1>0
<1>7. \A j \in 1 .. F : buf[j] = buf[1] + j - 1
  BY <1>2, <1>4
<1>8. Decodes(buf)
  BY <1>4, <1>5, <1>6, <1>7, Zenon DEF Decodes, Magic, F
<1> QED BY <1>3, <1>8

\* Consecutive units, taken apart.
LEMMA ConsecutiveParts ==
  ASSUME NEW w \in Seq(Nat), NEW x \in Nat, Consecutive(w, x),
         NEW u \in Seq(Nat), NEW v \in Seq(Nat), w = u \o v
  PROVE  Consecutive(u, x) /\ Consecutive(v, x + Len(u))
<1>1. /\ Len(w) = Len(u) + Len(v) /\ Len(u) \in Nat /\ Len(v) \in Nat
      /\ \A i \in 1 .. Len(u) : w[i] = u[i]
      /\ \A i \in 1 .. Len(v) : w[Len(u) + i] = v[i]
  BY Concatenation
<1>2. ASSUME NEW i \in 1 .. Len(u) PROVE u[i] = x + i - 1
  <2>1. i \in 1 .. Len(w) /\ w[i] = u[i]
    BY <1>1
  <2> QED BY <2>1 DEF Consecutive
<1>3. ASSUME NEW i \in 1 .. Len(v) PROVE v[i] = x + Len(u) + i - 1
  <2>1. Len(u) + i \in 1 .. Len(w) /\ w[Len(u) + i] = v[i]
    BY <1>1
  <2>2. w[Len(u) + i] = x + (Len(u) + i) - 1
    BY <2>1 DEF Consecutive
  <2> QED BY <1>1, <2>1, <2>2
<1> QED BY <1>2, <1>3 DEF Consecutive

\* A frame is complete: buf, of which q remains behind.
LEMMA FrameReceived ==
  ASSUME CallInv, CallInv', NEW a \in Ends, NEW buf \in Seq(Nat), NEW q \in Seq(Nat),
         Len(buf) = F, Wire(a) = buf \o q, Wire(a)' = q, Return(a, buf),
         at[a] # "closed", Sent(Peer(a))' = Sent(Peer(a)),
         UNCHANGED <<seq, reset, failed>>, EndInv(a)
  PROVE  EndInv(a)'
<1>0. /\ accepted \in [Ends -> Seq(Seq(Nat))] /\ refused \in [Ends -> BOOLEAN]
      /\ ret \in [Ends -> 0 .. None] /\ seq \in [Ends -> Nat] /\ Peer(a) \in Ends
  BY Types, TwoEnds
<1> DEFINE acc == accepted[a]
           w == Wire(a)
           b == seq[Peer(a)]
<1>1. acc \in Seq(Seq(Nat)) /\ w \in Seq(Nat) /\ b \in Nat /\ Flow(w, acc, b)
  BY <1>0, WireType DEF EndInv
<1>2. /\ ret'[a] = Len(buf)
      /\ accepted'[a] = IF Decodes(buf) THEN Append(acc, buf) ELSE acc
      /\ refused'[a] = (refused[a] \/ (buf # <<>> /\ ~Decodes(buf)))
  BY <1>0, Zenon DEF Return
<1>3. F \in Nat \ {0} /\ Len(q) \in Nat /\ Len(acc) \in Nat
  <2>1. \A s : s \in Seq(Seq(Nat)) => Len(s) \in Nat
    OBVIOUS
  <2>2. Len(acc) \in Nat
    BY <1>1, <2>1, Zenon
  <2>3. F \in Nat \ {0}
    BY Units
  <2>4. Len(q) \in Nat
    BY SequenceType
  <2> QED BY <2>2, <2>3, <2>4
<1> HIDE DEF acc, w, b
<1>4. /\ F + Len(q) = Len(w)
      /\ \A j \in 1 .. F : buf[j] = w[j]
      /\ \A j \in 1 .. Len(q) : q[j] = w[F + j]
  <2>1. /\ Len(buf \o q) = Len(buf) + Len(q)
        /\ \A i \in 1 .. Len(buf) : (buf \o q)[i] = buf[i]
        /\ \A i \in 1 .. Len(q) : (buf \o q)[Len(buf) + i] = q[i]
    BY Concatenation
  <2>2. w = buf \o q
    BY DEF w
  <2> QED BY <2>1, <2>2, Zenon
<1>5. Flow(q, accepted'[a], b)
  <2>1. CASE Decodes(buf)
    BY <1>1, <1>2, <1>4, <2>1, FlowAccepted
  <2>2. CASE ~Decodes(buf)
    <3>1. F \in Nat /\ F + Len(q) <= Len(w)
      BY <1>3, <1>4
    <3> QED BY <1>1, <1>2, <1>4, <2>2, <3>1, FlowStretch
  <2> QED BY <2>1, <2>2
<1>6. ASSUME ~failed PROVE Whole(a)'
  <2>1. Whole(a)
    BY <1>6 DEF EndInv
  <2>2. From(Len(acc)) \in Nat /\ From(Len(acc) + 1) = From(Len(acc)) + F
    BY <1>3, Units
  <2>3. Consecutive(buf, From(Len(acc))) /\ Consecutive(q, From(Len(acc)) + F)
    <3>1. Consecutive(w, From(Len(acc)))
      BY <2>1 DEF Whole, w, acc
    <3> QED BY <1>1, <2>2, <3>1, ConsecutiveParts DEF w
  <2>4. Decodes(buf) /\ buf = Frame(Len(acc))
    BY <1>3, <2>3, NextDecodes
  <2>5. accepted'[a] = Append(acc, buf) /\ ~refused'[a] /\ ret'[a] # 0
    BY <1>2, <1>3, <2>1, <2>4 DEF Whole
  <2>6. /\ Len(accepted'[a]) = Len(acc) + 1
        /\ \A i \in 1 .. Len(acc) : accepted'[a][i] = acc[i]
        /\ accepted'[a][Len(acc) + 1] = buf
    BY <1>1, <2>5
  <2>7. \A i \in 1 .. Len(accepted'[a]) : accepted'[a][i] = Frame(i - 1)
    <3> TAKE i \in 1 .. Len(accepted'[a])
    <3>1. CASE i \in 1 .. Len(acc)
      BY <2>1, <2>6, <3>1 DEF Whole, acc
    <3>2. CASE i \notin 1 .. Len(acc)
      <4>1. i = Len(acc) + 1 /\ i - 1 = Len(acc)
        BY <1>3, <2>6, <3>2
      <4> QED BY <2>4, <2>6, <4>1
    <3> QED BY <3>1, <3>2
  <2>8. reset'[a] = "no" /\ at'[a] # "closed" =>
          From(Len(accepted'[a])) + Len(q) = Sent(Peer(a))'
    <3>1. reset[a] = "no" => From(Len(acc)) + Len(w) = Sent(Peer(a))
      BY <2>1 DEF Whole, acc, w
    <3>2. From(Len(acc) + 1) + Len(q) = From(Len(acc)) + Len(w)
      <4>1. Len(w) \in Nat
        BY <1>1, SequenceType
      <4>2. (From(Len(acc)) + F) + Len(q) = From(Len(acc)) + Len(w)
        <5> DEFINE x == From(Len(acc))
                   y == Len(w)
                   f == F
                   l == Len(q)
        <5>1. x \in Nat /\ y \in Nat /\ f \in Nat /\ l \in Nat /\ f + l = y
          BY <1>3, <1>4, <2>2, <4>1
        <5> HIDE DEF x, y, f, l
        <5>2. (x + f) + l = x + y
          BY <5>1
        <5> QED BY <5>2 DEF x, y, f, l
      <4> QED BY <2>2, <4>2, Zenon
    <3> QED BY <2>6, <3>1, <3>2
  <2>9. Consecutive(q, From(Len(accepted'[a])))
    BY <2>2, <2>3, <2>6
  <2> QED BY <2>1, <2>5, <2>7, <2>8, <2>9 DEF Whole
<1> QED BY <1>5, <1>6 DEF EndInv, b

\* A recv takes units off the end's own wire, and completes a frame or not.
LEMMA RecvPartFlow ==
  ASSUME CallInv, CallInv', NEW a \in Ends, RecvPart(a), NEW e \in Ends, EndInv(e)
  PROVE  EndInv(e)'
<1>0. /\ at \in [Ends -> Places] /\ seq \in [Ends -> Nat] /\ part \in [Ends -> Seq(Nat)]
      /\ stream \in [Ends -> Seq(Nat)]
      /\ ret \in [Ends -> 0 .. None] /\ refused \in [Ends -> BOOLEAN]
      /\ accepted \in [Ends -> Seq(Seq(Nat))]
  BY Types
<1>1. PICK p, q \in Seq(Nat) : Receives(a, p, q)
  BY RecvPartReceives
<1> DEFINE buf == part[a] \o p
<1>2. /\ InRecv(a) /\ stream' = [stream EXCEPT ![a] = q]
      /\ UNCHANGED <<seq, reset, failed>>
  BY <1>1, Zenon DEF Receives
<1>3. /\ Len(part[a]) + Len(p) = F => Return(a, buf)
      /\ Len(part[a]) + Len(p) # F => /\ part' = [part EXCEPT ![a] = buf]
                                      /\ UNCHANGED <<at, ret, accepted, refused>>
  BY <1>1, Zenon DEF Receives
<1>4. stream[a] = p \o q
  <2>1. /\ Len(p) + Len(q) = Len(stream[a])
        /\ \A i \in 1 .. Len(p) : p[i] = stream[a][i]
        /\ \A i \in 1 .. Len(q) : q[i] = stream[a][Len(p) + i]
    BY <1>1, Zenon DEF Receives
  <2> DEFINE s == stream[a]
             t == p \o q
  <2>2. /\ t \in Seq(Nat) /\ Len(t) = Len(p) + Len(q) /\ Len(p) \in Nat /\ Len(q) \in Nat
        /\ \A i \in 1 .. Len(p) : t[i] = p[i]
        /\ \A i \in 1 .. Len(q) : t[Len(p) + i] = q[i]
    BY Concatenation
  <2>3. /\ s \in Seq(Nat) /\ Len(s) = Len(t)
        /\ \A i \in 1 .. Len(p) : t[i] = s[i]
        /\ \A i \in 1 .. Len(q) : t[Len(p) + i] = s[Len(p) + i]
    BY <1>0, <2>1, <2>2
  <2> HIDE DEF s, t
  <2>4. \A i \in 1 .. Len(s) : s[i] = t[i]
    <3> TAKE i \in 1 .. Len(s)
    <3>1. i \in 1 .. Len(p) \/ (i - Len(p) \in 1 .. Len(q) /\ i = Len(p) + (i - Len(p)))
      BY <2>2, <2>3
    <3>2. CASE i \in 1 .. Len(p)
      BY <2>3, <3>2
    <3>3. CASE i - Len(p) \in 1 .. Len(q) /\ i = Len(p) + (i - Len(p))
      <4>1. PICK j \in 1 .. Len(q) : i = Len(p) + j
        BY <3>3
      <4>2. t[Len(p) + j] = s[Len(p) + j]
        BY <2>3, Zenon
      <4> QED BY <4>1, <4>2, Zenon
    <3> QED BY <3>1, <3>2, <3>3
  <2>5. s = t
    BY <2>2, <2>3, <2>4, SameSequence
  <2> QED BY <2>5 DEF s, t
<1>5. Wire(a) = buf \o q
  <2>1. Wire(a) = part[a] \o (p \o q)
    BY <1>2, <1>4 DEF Wire, Got
  <2> DEFINE g == part[a]
  <2>2. g \in Seq(Nat)
    BY <1>0
  <2> HIDE DEF g
  <2>3. g \o (p \o q) = (g \o p) \o q
    BY <2>2, Associative
  <2> QED BY <2>1, <2>3, Zenon DEF g
<1>6. buf \in Seq(Nat) /\ Len(buf) = Len(part[a]) + Len(p) /\ stream'[a] = q
  <2>1. part[a] \in Seq(Nat)
    BY <1>0
  <2> QED BY <1>0, <1>2, <2>1, Concatenation
<1> HIDE DEF buf
<1>7. \A d \in Ends : d # a => stream'[d] = stream[d]
  BY <1>0, <1>2, Zenon
<1>8. Peer(a) \in Ends /\ Peer(a) # a
  BY TwoEnds
<1>9. CASE Len(part[a]) + Len(p) = F
  <2>1. Return(a, buf)
    BY <1>3, <1>9
  <2>2. /\ at'[a] = "idle"
        /\ \A d \in Ends : d # a => /\ at'[d] = at[d] /\ part'[d] = part[d] /\ ret'[d] = ret[d]
                                    /\ accepted'[d] = accepted[d] /\ refused'[d] = refused[d]
    BY <1>0, <2>1, Zenon DEF Return
  <2>3. CASE e = a
    <3>1. Wire(a)' = q
      <4>1. Got(a)' = <<>> /\ stream'[a] = q
        BY <1>6, <2>2 DEF Got, InRecv
      <4>2. <<>> \o q = q
        OBVIOUS
      <4> QED BY <4>1, <4>2 DEF Wire
    <3>2. Sent(Peer(a))' = Sent(Peer(a))
      <4>1. at'[Peer(a)] = at[Peer(a)] /\ part'[Peer(a)] = part[Peer(a)] /\ seq'[Peer(a)] = seq[Peer(a)]
        BY <1>2, <1>8, <2>2
      <4> QED BY <4>1, SentSame
    <3>3. at[a] # "closed"
      BY <1>2 DEF InRecv
    <3>4. EndInv(a)
      BY <2>3
    <3>5. Len(buf) = F
      BY <1>6, <1>9
    <3>6. EndInv(a)'
      BY <1>2, <1>5, <1>6, <2>1, <3>1, <3>2, <3>3, <3>4, <3>5, FrameReceived
    <3> QED BY <2>3, <3>6
  <2>4. CASE e # a
    BY <1>2, <1>7, <2>2, <2>4, OtherDirection
  <2> QED BY <2>3, <2>4
<1>10. CASE Len(part[a]) + Len(p) # F
  <2>1. part' = [part EXCEPT ![a] = buf] /\ UNCHANGED <<at, ret, accepted, refused>>
    BY <1>3, <1>10
  <2>2. part'[a] = buf /\ \A d \in Ends : d # a => part'[d] = part[d]
    BY <1>0, <2>1, Zenon
  <2>3. CASE e = a
    <3>1. Wire(a)' = buf \o q
      BY <1>2, <1>6, <2>1, <2>2 DEF Wire, Got, InRecv
    <3>2. Sent(Peer(a))' = Sent(Peer(a))
      <4>1. at'[Peer(a)] = at[Peer(a)] /\ part'[Peer(a)] = part[Peer(a)] /\ seq'[Peer(a)] = seq[Peer(a)]
        BY <1>2, <1>8, <2>1, <2>2
      <4> QED BY <4>1, SentSame
    <3> QED BY <1>2, <1>5, <2>1, <2>3, <3>1, <3>2, Undisturbed
  <2>4. CASE e # a
    <3>1. at'[a] # "send"
      BY <1>2, <2>1 DEF InRecv
    <3> QED BY <1>2, <1>7, <2>1, <2>2, <2>4, <3>1, OtherDirection
  <2> QED BY <2>3, <2>4
<1> QED BY <1>9, <1>10

-----------------------------------------------------------------------------
(* The transports                                                          *)

\* The other direction at the end of the stream.
LEMMA ClosedOther ==
  ASSUME CallInv, NEW a \in Ends, RecvClosed(a), NEW e \in Ends, e # a, EndInv(e)
  PROVE  EndInv(e)'
<1>0. /\ at \in [Ends -> Places] /\ part \in [Ends -> Seq(Nat)]
      /\ ret \in [Ends -> 0 .. None] /\ refused \in [Ends -> BOOLEAN]
      /\ accepted \in [Ends -> Seq(Seq(Nat))]
  BY Types
<1>1. /\ InRecv(a) /\ Return(a, part[a])
      /\ UNCHANGED <<seq, stream, reset, failed>>
  BY DEF RecvClosed
<1>2. /\ at'[a] = "idle" /\ at'[e] = at[e] /\ part'[e] = part[e] /\ ret'[e] = ret[e]
      /\ accepted'[e] = accepted[e] /\ refused'[e] = refused[e]
  BY <1>0, <1>1, Zenon DEF Return
<1> QED BY <1>1, <1>2, OtherDirection

\* A break reaches both ends.
LEMMA BreakReachesBoth ==
  ASSUME CallInv, reset["client"] = "no" <=> reset["server"] = "no", [Next]_vars
  PROVE  (reset["client"] = "no" <=> reset["server"] = "no")'
<1>0. reset \in [Ends -> {"no", "pending", "told"}] /\ "client" \in Ends /\ "server" \in Ends
  BY Types DEF Ends
<1>1. CASE UNCHANGED reset
  BY <1>1
<1>2. CASE Breaks
  BY <1>0, <1>2 DEF Breaks
<1>3. ASSUME NEW a \in Ends, reset' = [reset EXCEPT ![a] = IF @ = "pending" THEN "told" ELSE @]
      PROVE  (reset["client"] = "no" <=> reset["server"] = "no")'
  BY <1>0, <1>3
<1>4. ASSUME NEW a \in Ends, RecvBroken(a)
      PROVE  (reset["client"] = "no" <=> reset["server"] = "no")'
  <2>1. reset[a] = "pending" /\ reset' = [reset EXCEPT ![a] = "told"]
    BY <1>4 DEF RecvBroken
  <2> QED BY <1>0, <2>1
<1>5. ASSUME NEW a \in Ends, BeginSend(a) \/ Sending(a) \/ (\E timed \in BOOLEAN : BeginRecv(a, timed))
                             \/ Receiving(a) \/ Close(a)
      PROVE  \/ UNCHANGED reset \/ RecvBroken(a)
             \/ reset' = [reset EXCEPT ![a] = IF @ = "pending" THEN "told" ELSE @]
  BY <1>5, Zenon DEF BeginSend, Sending, SendPart, SendTimesOut, SendBroken, BeginRecv, Receiving,
                     RecvPart, RecvClosed, RecvTimesOut, Close
<1>6. CASE \E a \in Ends : BeginSend(a) \/ Sending(a) \/ (\E timed \in BOOLEAN : BeginRecv(a, timed))
                             \/ Receiving(a) \/ Close(a)
  BY <1>1, <1>3, <1>4, <1>5, <1>6, Zenon
<1>7. CASE \/ ServerInit \/ Accept \/ CloseListener \/ Break
           \/ (\E timed \in BOOLEAN : Connect(timed)) \/ UNCHANGED vars
  <2>1. UNCHANGED reset \/ Breaks
    BY <1>7, Zenon DEF ServerInit, Accept, CloseListener, Break, Connect, vars
  <2> QED BY <1>1, <1>2, <2>1
<1> QED BY <1>6, <1>7, Zenon DEF Next

\* StreamInv is inductive.
LEMMA NextStreamInv == StreamInv /\ [Next]_vars => StreamInv'
<1> SUFFICES ASSUME StreamInv, [Next]_vars PROVE StreamInv'
  OBVIOUS
<1>1. CallInv /\ CallInv' /\ (reset["client"] = "no" <=> reset["server"] = "no")
  BY NextCallInv DEF StreamInv
<1>2. (reset["client"] = "no" <=> reset["server"] = "no")'
  BY <1>1, BreakReachesBoth
<1>3. ASSUME NEW e \in Ends PROVE EndInv(e)'
  <2>1. EndInv(e)
    BY DEF StreamInv
  <2>2. CASE ServerInit \/ CloseListener \/ UNCHANGED vars
    BY <1>1, <2>1, <2>2, ListenerStep
  <2>3. CASE Accept \/ \E timed \in BOOLEAN : Connect(timed)
    <3>1. "client" \in Ends /\ "server" \in Ends
      BY DEF Ends
    <3> QED BY <1>1, <2>1, <2>3, <3>1, BeginsStep
  <2>4. CASE Break
    BY <1>1, <2>1, <2>4, BreakStep
  <2>5. ASSUME NEW a \in Ends, BeginSend(a) \/ Sending(a) \/ (\E timed \in BOOLEAN : BeginRecv(a, timed))
                               \/ Receiving(a) \/ Close(a)
        PROVE  EndInv(e)'
    <3>1. CASE BeginSend(a) \/ \E timed \in BOOLEAN : BeginRecv(a, timed)
      BY <1>1, <2>1, <3>1, BeginsStep
    <3>2. CASE SendPart(a)
      BY <1>1, <2>1, <3>2, SendPartFlow
    <3>3. CASE SendTimesOut(a) \/ SendBroken(a) \/ RecvTimesOut(a) \/ RecvBroken(a)
      BY <1>1, <2>1, <3>3, FailsFlow
    <3>4. CASE RecvPart(a)
      BY <1>1, <2>1, <3>4, RecvPartFlow
    <3>5. CASE RecvClosed(a)
      BY <1>1, <2>1, <3>5, ClosedFlow, ClosedOther
    <3>6. CASE Close(a)
      BY <1>1, <2>1, <3>6, CloseStep
    <3> QED BY <2>5, <3>1, <3>2, <3>3, <3>4, <3>5, <3>6 DEF Sending, Receiving
  <2> QED BY <2>2, <2>3, <2>4, <2>5, Zenon DEF Next
<1> QED BY <1>1, <1>2, <1>3 DEF StreamInv

\* It says what the properties do.
LEMMA StreamInvIntact == StreamInv => StreamIntact /\ ZeroMeansClosed
<1> SUFFICES ASSUME StreamInv PROVE StreamIntact /\ ZeroMeansClosed
  OBVIOUS
<1>1. ASSUME NEW e \in Ends
      PROVE  /\ \A i \in 1 .. Len(accepted[e]) :
                  /\ \E k \in 0 .. seq[Peer(e)] : accepted[e][i] = Frame(k)
                  /\ i > 1 => accepted[e][i - 1][1] < accepted[e][i][1]
             /\ ~failed => Whole(e)
  <2>1. EndInv(e) /\ seq[Peer(e)] \in Nat
    <3>1. seq \in [Ends -> Nat] /\ Peer(e) \in Ends
      BY Types, TwoEnds DEF StreamInv
    <3> QED BY <3>1 DEF StreamInv
  <2>2. \A k \in 0 .. seq[Peer(e)] - 1 : k \in 0 .. seq[Peer(e)]
    BY <2>1
  <2>3. ASSUME NEW i \in 1 .. Len(accepted[e])
        PROVE  /\ \E k \in 0 .. seq[Peer(e)] - 1 : accepted[e][i] = Frame(k)
               /\ i > 1 => accepted[e][i - 1][1] < accepted[e][i][1]
    BY <2>1, Zenon DEF EndInv, Flow
  <2> QED BY <2>1, <2>2, <2>3, Zenon DEF EndInv
<1>2. StreamIntact
  BY <1>1, Zenon DEF StreamIntact, Whole
<1>3. ZeroMeansClosed
  BY <1>1, Zenon DEF ZeroMeansClosed, Whole
<1> QED BY <1>2, <1>3

\* The types of the UDP transport are kept.
LEMMA UdpTypes ==
  /\ UdpInit => UdpTypeOK
  /\ UdpTypeOK /\ [UdpNext]_udpVars => UdpTypeOK'
<1>0. /\ NumFrames \in Nat /\ InboxSize \in Nat \ {0} /\ SeqModulus \in Nat \ {0}
      /\ FirstSeqs \subseteq 0 .. SeqModulus - 1
  BY UdpAssumption
<1>1. ASSUME UdpInit PROVE UdpTypeOK
  <2>1. newest \in Int
    <3>1. first \in Int /\ newest = IF first < Half THEN -first ELSE SeqModulus - first
      BY <1>0, <1>1 DEF UdpInit, Start
    <3> QED BY <1>0, <3>1
  <2>2. first \in FirstSeqs /\ made = 0 /\ peer_set = FALSE /\ net = {} /\ inbox = <<>>
        /\ receiver = "none" /\ interrupted = FALSE /\ last_seq = 0 /\ verdict = "none"
    BY <1>1 DEF UdpInit
  <2>3. 0 \in 0 .. NumFrames /\ 0 \in 0 .. SeqModulus - 1 /\ <<>> \in Seq(UdpFrames) /\ Len(<<>>) <= InboxSize
    BY <1>0
  <2> QED BY <2>1, <2>2, <2>3 DEF UdpTypeOK
<1>2. ASSUME UdpTypeOK, [UdpNext]_udpVars PROVE UdpTypeOK'
  <2>0. /\ first \in FirstSeqs /\ made \in 0 .. NumFrames /\ peer_set \in BOOLEAN
        /\ net \subseteq UdpFrames
        /\ inbox \in Seq(UdpFrames) /\ Len(inbox) <= InboxSize
        /\ receiver \in {"none", "idle", "select", "recvfrom", "closed"}
        /\ interrupted \in BOOLEAN
        /\ last_seq \in 0 .. SeqModulus - 1
        /\ newest \in Int /\ verdict \in {"none", "taken", "old"}
    BY <1>2 DEF UdpTypeOK
  <2>1. first' = first /\ first' \in FirstSeqs
    BY <1>2, <2>0, Zenon DEF UdpNext, udpVars, SetPeer, UdpSendOk, UdpSendFails, Lose, Arrive, Bind,
         UdpBeginRecv, UdpWaiting, SelectReady, SelectTimesOut, RecvWhole, RecvTruncated,
         SelectInterrupted, UdpClose
  <2>2. CASE UNCHANGED udpVars \/ SetPeer \/ Bind \/ (\E timed \in BOOLEAN : UdpBeginRecv(timed))
             \/ SelectReady \/ SelectTimesOut \/ SelectInterrupted
    <3>1. UNCHANGED <<made, net, inbox, last_seq, newest>>
      BY <2>2, Zenon DEF udpVars, SetPeer, Bind, UdpBeginRecv, SelectReady, SelectTimesOut, SelectInterrupted
    <3>2. /\ peer_set' \in BOOLEAN /\ receiver' \in {"none", "idle", "select", "recvfrom", "closed"}
          /\ interrupted' \in BOOLEAN /\ verdict' \in {"none", "taken", "old"}
      BY <2>0, <2>2 DEF udpVars, SetPeer, Bind, UdpBeginRecv, SelectReady, SelectTimesOut, SelectInterrupted
    <3> QED BY <2>0, <2>1, <3>1, <3>2 DEF UdpTypeOK
  <2>3. CASE UdpSendOk \/ UdpSendFails
    <3>1. /\ made < NumFrames /\ made' = made + 1 /\ net' \in {net, net \cup {made}}
          /\ UNCHANGED <<peer_set, inbox, receiver, interrupted, last_seq, newest, verdict>>
      BY <2>3 DEF UdpSendOk, UdpSendFails
    <3>2. made' \in 0 .. NumFrames /\ made \in UdpFrames
      BY <1>0, <2>0, <3>1 DEF UdpFrames
    <3>3. net' \subseteq UdpFrames
      BY <2>0, <3>1, <3>2
    <3> QED BY <2>0, <2>1, <3>1, <3>2, <3>3 DEF UdpTypeOK
  <2>4. CASE Lose
    BY <2>0, <2>1, <2>4 DEF Lose, UdpTypeOK
  <2>5. CASE Arrive
    <3>1. PICK k \in net : inbox' = Append(inbox, k) /\ net' \in {net, net \ {k}}
      BY <2>5 DEF Arrive
    <3>2. k \in UdpFrames /\ Len(inbox) < InboxSize
      BY <2>0, <2>5 DEF Arrive
    <3>3. inbox' \in Seq(UdpFrames) /\ Len(inbox') <= InboxSize
      BY <1>0, <2>0, <3>1, <3>2
    <3> QED BY <2>0, <2>1, <2>5, <3>1, <3>3 DEF Arrive, UdpTypeOK
  <2>6. CASE RecvWhole \/ RecvTruncated
    <3>1. /\ inbox # <<>> /\ inbox' = Tail(inbox) /\ receiver' = "idle"
          /\ UNCHANGED <<made, peer_set, net, interrupted>>
      BY <2>6, Zenon DEF RecvWhole, RecvTruncated
    <3>2. inbox' \in Seq(UdpFrames) /\ Len(inbox') <= InboxSize /\ Head(inbox) \in UdpFrames
      BY <1>0, <2>0, <3>1
    <3>3. /\ last_seq' \in {last_seq, sequence(Head(inbox))} /\ newest' \in {newest, Head(inbox)}
          /\ verdict' \in {verdict, "taken", "old"}
      BY <2>6 DEF RecvWhole, RecvTruncated
    <3>4. Head(inbox) \in Nat /\ first \in Int
      BY <1>0, <2>0, <3>2 DEF UdpFrames
    <3>5. sequence(Head(inbox)) \in 0 .. SeqModulus - 1
      BY <1>0, <3>4 DEF sequence
    <3>6. last_seq' \in 0 .. SeqModulus - 1 /\ newest' \in Int /\ verdict' \in {"none", "taken", "old"}
      BY <2>0, <3>3, <3>4, <3>5
    <3> QED BY <2>0, <2>1, <3>1, <3>2, <3>6 DEF UdpTypeOK
  <2>7. CASE UdpClose
    <3>1. <<>> \in Seq(UdpFrames) /\ Len(<<>>) <= InboxSize
      BY <1>0
    <3> QED BY <2>0, <2>1, <2>7, <3>1 DEF UdpClose, UdpTypeOK
  <2> QED BY <1>2, <2>2, <2>3, <2>4, <2>5, <2>6, <2>7, Zenon DEF UdpNext, UdpWaiting
<1> QED BY <1>1, <1>2

\* The application opens one transport, and what is shown of each holds of the two:
\* TransportSpec implements the specifications of both.
THEOREM TransportParts == TransportSpec => Spec /\ UdpSpec
<1>1. TransportInit => Init /\ UdpInit
  BY DEF TransportInit
<1>2. [TransportNext]_transportVars => [Next]_vars /\ [UdpNext]_udpVars
  BY Zenon DEF TransportNext, TcpStep, UdpStep, transportVars
<1>3. TransportSpec => TransportInit /\ [][TransportNext]_transportVars
  BY PTL DEF TransportSpec
<1> QED BY <1>1, <1>2, <1>3, PTL DEF Spec, UdpSpec

\* However the kernel cuts the units of a connection, the frames that dvbs2x_frame_decode
\* accepts are frames the peer sent, in order and once each; all of them until a call fails.
THEOREM StreamStaysIntact == TransportSpec => []StreamIntact
<1>1. StreamInv => StreamIntact
  BY StreamInvIntact
<1> QED BY <1>1, TransportParts, InitStreamInv, NextStreamInv, PTL DEF Spec

\* dvbs2x_tcp_recv returns 0 only at the end of the stream, when the peer has closed and
\* every frame it sent has been received, unless a call has failed.
THEOREM ZeroOnlyAtTheEnd == TransportSpec => []ZeroMeansClosed
<1>1. StreamInv => ZeroMeansClosed
  BY StreamInvIntact
<1> QED BY <1>1, TransportParts, InitStreamInv, NextStreamInv, PTL DEF Spec

\* The variables have their types; no call holds more than a frame, no connection more
\* than its window and no socket more datagrams than it has room for.
THEOREM TransportTypes == TransportSpec => []TransportTypeOK
<1>1. StreamInv => TypeOK
  BY DEF StreamInv, CallInv
<1>2. TypeOK /\ UdpTypeOK => TransportTypeOK
  BY DEF TransportTypeOK
<1> QED BY <1>1, <1>2, TransportParts, UdpTypes, InitStreamInv, NextStreamInv, PTL DEF Spec, UdpSpec
=============================================================================
