------------------------------ MODULE RingBuf ------------------------------
(***************************************************************************)
(* streaming/include/dvbs2x_ringbuf.h: the lock-free ring buffer of one    *)
(* producer and one consumer.  Its two indices only ever grow, wrap at     *)
(* 2^Width (the code's 2^32) and are reduced to a place in the buffer by a *)
(* mask.  Each load and store of an index the other thread uses is a step; *)
(* the memcpy between them is a span of time in which slots are half       *)
(* written or being read.                                                  *)
(*                                                                         *)
(* An element is the index at which it was written.  put and get are       *)
(* put_batch and get_batch of one element; the counts of failed calls      *)
(* (overruns, underruns) are left out.                                     *)
(***************************************************************************)
EXTENDS Integers, Sequences

CONSTANTS
  Width,    \* bits of head and tail
  Sizes,    \* sizes an application asks dvbs2x_ringbuf_init for
  Counts    \* numbers of elements it puts or gets in one call

Modulus == 2 ^ Width

ASSUME RingAssumption == /\ Width \in Nat
                         /\ Sizes \subseteq 0 .. Modulus - 1
                         /\ Counts \subseteq Nat \ {0}

\* The powers of two a ring may have as its size divide the range of its indices.
ASSUME PowersDivide ==
  /\ Modulus \in Nat \ {0}
  /\ \A k \in 0 .. Width - 1 : \E q \in 1 .. Modulus : Modulus = 2 ^ k * q

Torn == -1     \* a slot half written

\* Faulty variant of Accepted: every size is taken.
AcceptedAny(n) == n > 0

\* size & (size - 1) is 0; this lets 0 through, and the ring is always full.
Accepted(n) == n = 0 \/ \E k \in 0 .. Width - 1 : n = 2 ^ k

VARIABLES
  size, head, tail, buffer, total_written, total_read,
  \* the producer: its place in put_batch, and the elements it writes
  producer, put,
  \* the consumer: its place in get_batch or peek, and the elements it reads
  consumer, get,
  \* the elements the last call handed to the consumer
  out

ring == <<size, head, tail, buffer, total_written, total_read>>
vars == <<ring, producer, put, consumer, get, out>>

\* dvbs2x_ringbuf_init
Init ==
  /\ size \in {n \in Sizes : Accepted(n)}
  /\ head = 0 /\ tail = 0
  /\ buffer = [s \in 0 .. size - 1 |-> Torn]
  /\ total_written = 0 /\ total_read = 0
  /\ producer = "idle" /\ put = 0
  /\ consumer = "idle" /\ get = 0 /\ out = <<>>

Wrap(i) == i % Modulus
Pos(i) == i % size       \* i & mask
Avail == Wrap(head - tail)
Free == size - Avail
Smaller(a, b) == IF a < b THEN a ELSE b

\* The slots of n elements from index i on, over the end of the buffer if
\* need be (contig).
SlotsOf(i, n) == {Pos(i + j) : j \in 0 .. n - 1}

ElementsOf(i, n) == [j \in 1 .. n |-> buffer[Pos(i + j - 1)]]
-----------------------------------------------------------------------------
(* The producer                                                            *)

\* Faulty variant of PutBegin: the free space is not looked at.
PutBeginBlind(count) ==
  /\ producer = "idle"
  /\ size > 0
  /\ put' = Smaller(count, size)
  /\ producer' = "copy"
  /\ buffer' = [s \in 0 .. size - 1 |->
                  IF s \in SlotsOf(head, put') THEN Torn ELSE buffer[s]]
  /\ UNCHANGED <<size, head, tail, total_written, total_read, consumer, get, out>>

\* The tail is loaded; what fits of the count elements begins to be copied.
PutBegin(count) ==
  /\ producer = "idle"
  /\ Smaller(count, Free) > 0
  /\ put' = Smaller(count, Free)
  /\ producer' = "copy"
  /\ buffer' = [s \in 0 .. size - 1 |->
                  IF s \in SlotsOf(head, put') THEN Torn ELSE buffer[s]]
  /\ UNCHANGED <<size, head, tail, total_written, total_read, consumer, get, out>>

PutCopy ==
  /\ producer = "copy" /\ producer' = "publish"
  /\ buffer' = [s \in 0 .. size - 1 |->
                  IF s \in SlotsOf(head, put)
                  THEN Wrap(CHOOSE i \in head .. head + put - 1 : Pos(i) = s)
                  ELSE buffer[s]]
  /\ UNCHANGED <<size, head, tail, total_written, total_read, put, consumer, get,
                 out>>

PutPublish ==
  /\ producer = "publish" /\ producer' = "count"
  /\ head' = Wrap(head + put)
  /\ UNCHANGED <<size, tail, buffer, total_written, total_read, put, consumer, get,
                 out>>

PutCount ==
  /\ producer = "count" /\ producer' = "idle"
  /\ total_written' = Wrap(total_written + put)
  /\ put' = 0
  /\ UNCHANGED <<size, head, tail, buffer, total_read, consumer, get, out>>
-----------------------------------------------------------------------------
(* The consumer                                                            *)

GetBegin(count) ==
  /\ consumer = "idle"
  /\ Smaller(count, Avail) > 0
  /\ get' = Smaller(count, Avail)
  /\ consumer' = "copy"
  /\ UNCHANGED <<ring, producer, put, out>>

GetCopy ==
  /\ consumer = "copy" /\ consumer' = "release"
  /\ out' = ElementsOf(tail, get)
  /\ UNCHANGED <<ring, producer, put, get>>

GetRelease ==
  /\ consumer = "release" /\ consumer' = "count"
  /\ tail' = Wrap(tail + get)
  /\ UNCHANGED <<size, head, buffer, total_written, total_read, producer, put, get,
                 out>>

GetCount ==
  /\ consumer = "count" /\ consumer' = "idle"
  /\ total_read' = Wrap(total_read + get)
  /\ get' = 0 /\ out' = <<>>
  /\ UNCHANGED <<size, head, tail, buffer, total_written, producer, put>>

\* An element further on is read and nothing is removed.
PeekBegin(offset) ==
  /\ consumer = "idle"
  /\ offset < Avail
  /\ get' = offset + 1
  /\ consumer' = "peek"
  /\ UNCHANGED <<ring, producer, put, out>>

PeekCopy ==
  /\ consumer = "peek" /\ consumer' = "idle"
  /\ get' = 0
  /\ UNCHANGED <<ring, producer, put, out>>

\* Not thread-safe: the application calls it while neither thread is at work.
Reset ==
  /\ producer = "idle" /\ consumer = "idle"
  /\ head' = 0 /\ tail' = 0
  /\ total_written' = 0 /\ total_read' = 0
  /\ UNCHANGED <<size, buffer, producer, put, consumer, get, out>>

Next == \/ \E n \in Counts : PutBegin(n) \/ GetBegin(n) \/ PeekBegin(n - 1)
        \/ PutCopy \/ PutPublish \/ PutCount
        \/ GetCopy \/ GetRelease \/ GetCount \/ PeekCopy
        \/ Reset

Spec == Init /\ [][Next]_vars
-----------------------------------------------------------------------------
(* Properties                                                              *)

\* The slots put_batch fills (line 208) and those get_batch or peek is reading are never
\* the same, at any place of the indices relative to their wrap.
NoSlotShared ==
  producer = "copy" /\ consumer \in {"copy", "peek"} =>
    SlotsOf(head, put) \cap SlotsOf(tail, get) = {}

Queue == INSTANCE Fifo WITH
           capacity <- size, queue <- ElementsOf(tail, Avail), next <- head,
           given <- IF consumer = "count" THEN out ELSE <<>>

\* The ring buffer is a bounded queue: each put_batch and get_batch takes effect
\* at the one store by which it publishes or releases (lines 223 and 263).
ImplementsFifo == Queue!Spec
=============================================================================
