--------------------------- MODULE RingBufProofs ---------------------------
(***************************************************************************)
(* The ring buffer is a bounded queue, for every width of the indices,     *)
(* every size that is a power of two and every size of batch.              *)
(***************************************************************************)
EXTENDS RingBuf, Counting, SequenceTheorems, TLAPS

(* Places and indices                                                      *)

\* What a size the buffer accepts has to do with the range of the indices.
LEMMA Sized ==
  ASSUME size \in Sizes, Accepted(size)
  PROVE  /\ Modulus \in Nat \ {0} /\ size \in Nat /\ size < Modulus
         /\ size # 0 => \E q \in Int : Modulus = size * q
<1>1. Modulus \in Nat \ {0}
  BY PowersDivide
<1>2. size \in 0 .. Modulus - 1
  BY RingAssumption
<1>3. ASSUME size # 0 PROVE \E q \in Int : Modulus = size * q
  <2>1. PICK k \in 0 .. Width - 1 : size = 2 ^ k
    BY <1>3 DEF Accepted
  <2>2. PICK q \in 1 .. Modulus : Modulus = 2 ^ k * q
    BY PowersDivide, Zenon
  <2>3. q \in Int
    BY <1>1, <2>2
  <2> QED BY <2>1, <2>2, <2>3, Zenon
<1> QED BY <1>1, <1>2, <1>3

\* An index that wrapped has the number of one that did not.
LEMMA WrapShift ==
  ASSUME NEW x \in Int, NEW j \in Int
  PROVE  Wrap(x) \in 0 .. Modulus - 1 /\ Wrap(Wrap(x) + j) = Wrap(x + j)
<1>1. Modulus \in Nat \ {0} /\ Modulus = Modulus * 1
  BY PowersDivide
<1>2. x % Modulus \in 0 .. Modulus - 1
  BY <1>1
<1>3. ((x % Modulus) + j) % Modulus = (x + j) % Modulus
  BY <1>1, RoundInRound, 1 \in Int, Zenon
<1> QED BY <1>2, <1>3 DEF Wrap

\* The same of its place in the buffer, whose size divides the range.
LEMMA PosShift ==
  ASSUME size \in Sizes, Accepted(size), size # 0, NEW x \in Int, NEW j \in Int
  PROVE  Pos(Wrap(x) + j) = Pos(x + j)
<1>1. size \in Nat \ {0} /\ Modulus \in Nat \ {0}
  BY Sized
<1>2. PICK q \in Int : Modulus = size * q
  BY Sized
<1>3. ((x % Modulus) + j) % size = (x + j) % size
  BY <1>1, <1>2, RoundInRound, Zenon
<1> QED BY <1>1, <1>3 DEF Wrap, Pos

\* A place is in the buffer.
LEMMA PosIn ==
  ASSUME size \in Nat, size # 0, NEW x \in Int
  PROVE  Pos(x) \in 0 .. size - 1
BY DEF Pos

\* Indices less than a size apart are at different places.
LEMMA PosApart ==
  ASSUME size \in Sizes, Accepted(size), NEW x \in Int,
         NEW i \in 0 .. size - 1, NEW j \in 0 .. size - 1, i # j
  PROVE  Pos(x + i) # Pos(x + j)
<1>1. size \in Nat \ {0}
  BY Sized
<1>2. ASSUME NEW a \in 0 .. size - 1, NEW b \in 0 .. size - 1, a < b
      PROVE  (x + a) % size # (x + b) % size
  <2>1. x + a \in Int /\ b - a \in 1 .. size - 1 /\ x + a + (b - a) = x + b
    BY <1>1, <1>2
  <2>2. (x + a + (b - a)) % size # (x + a) % size
    BY <1>1, <2>1, Apart, Zenon
  <2> QED BY <2>1, <2>2
<1>3. CASE i < j
  BY <1>2, <1>3 DEF Pos
<1>4. CASE j < i
  BY <1>2, <1>4 DEF Pos
<1> QED BY <1>1, <1>3, <1>4

\* The head is as far from the tail as there are elements.
LEMMA HeadPlace ==
  ASSUME head \in 0 .. Modulus - 1, tail \in 0 .. Modulus - 1,
         size \in Sizes, Accepted(size), NEW j \in Int
  PROVE  /\ Avail \in 0 .. Modulus - 1
         /\ Wrap(head + j) = Wrap(tail + Avail + j)
         /\ size # 0 => Pos(head + j) = Pos(tail + Avail + j)
<1>1. Modulus \in Nat \ {0} /\ head \in Int /\ tail \in Int /\ size \in Nat
  BY Sized
<1>2. Avail \in 0 .. Modulus - 1
  BY <1>1 DEF Avail, Wrap
<1>3. Wrap(head - tail) \in Int
  BY <1>1, <1>2 DEF Avail
<1>4. head = Wrap(head)
  BY <1>1 DEF Wrap
<1>5. Wrap(Wrap(head - tail) + tail) = head
  <2>1. Wrap(Wrap(head - tail) + tail) = Wrap(head - tail + tail)
    BY <1>1, WrapShift
  <2>2. head - tail + tail = head
    BY <1>1
  <2> QED BY <1>4, <2>1, <2>2
<1>6. tail + Avail \in Int /\ tail + Avail = Wrap(head - tail) + tail
  BY <1>1, <1>2 DEF Avail
<1>7. head = Wrap(tail + Avail)
  BY <1>5, <1>6
<1>8. Wrap(Wrap(tail + Avail) + j) = Wrap(tail + Avail + j)
  BY <1>6, WrapShift
<1>9. size # 0 => Pos(Wrap(tail + Avail) + j) = Pos(tail + Avail + j)
  BY <1>6, PosShift
<1> QED BY <1>2, <1>7, <1>8, <1>9

(* The invariant                                                           *)

\* The slots put_batch has begun to fill and not yet published.
Pending == IF producer \in {"copy", "publish"} THEN put ELSE 0

Numbers(i, n) == [j \in 1 .. n |-> Wrap(i + j - 1)]

RingTypes ==
  /\ size \in Sizes /\ Accepted(size)
  /\ head \in 0 .. Modulus - 1 /\ tail \in 0 .. Modulus - 1
  /\ put \in Nat /\ get \in Nat

\* Both sides keep to what there was when they looked.
InUse ==
  /\ Avail + Pending <= size
  /\ producer \in {"copy", "publish"} => put > 0
  /\ consumer \in {"copy", "release", "peek"} => get \in 1 .. Avail

\* What waits is what was written, what is copied is what will wait, and what was
\* read is what waited.
Stored == \A i \in 0 .. Avail - 1 : buffer[Pos(tail + i)] = Wrap(tail + i)
Copied == producer = "publish" =>
            \A i \in 0 .. put - 1 : buffer[Pos(head + i)] = Wrap(head + i)
Taken == consumer = "release" => out = Numbers(tail, get)

RingInv == RingTypes /\ InUse /\ Stored /\ Copied /\ Taken

\* The number of elements follows from the distance of the two indices.
LEMMA Difference ==
  ASSUME NEW t \in Int, NEW a \in 0 .. Modulus - 1
  PROVE  Wrap(Wrap(t + a) - t) = a
<1>1. Modulus \in Nat \ {0}
  BY PowersDivide
<1>2. t + a \in Int /\ 0 - t \in Int /\ t + a + (0 - t) = a
  BY <1>1
<1>3. Wrap(Wrap(t + a) + (0 - t)) = Wrap(a)
  BY <1>2, WrapShift
<1>4. Wrap(a) = a
  BY <1>1 DEF Wrap
<1>5. Wrap(t + a) + (0 - t) = Wrap(t + a) - t
  BY <1>1, <1>2, WrapShift
<1> QED BY <1>3, <1>4, <1>5

\* The free slots hold no element that waits.
LEMMA FreeSlots ==
  ASSUME RingTypes, NEW n \in Nat, Avail + n <= size, NEW i \in 0 .. Avail - 1
  PROVE  Pos(tail + i) \notin SlotsOf(head, n)
<1>1. /\ size \in Sizes /\ Accepted(size) /\ head \in 0 .. Modulus - 1
      /\ tail \in 0 .. Modulus - 1
  BY DEF RingTypes
<1>2. size \in Nat /\ Modulus \in Nat \ {0}
  BY <1>1, Sized
<1>3. Avail \in 0 .. Modulus - 1
  BY <1>1, HeadPlace, 0 \in Int
<1>4. ASSUME NEW j \in 0 .. n - 1 PROVE Pos(head + j) # Pos(tail + i)
  <2>1. /\ size # 0 /\ i \in 0 .. size - 1 /\ Avail + j \in 0 .. size - 1
        /\ i # Avail + j /\ tail \in Int /\ j \in Int
    BY <1>1, <1>2, <1>3
  <2>2. Pos(head + j) = Pos(tail + Avail + j)
    BY <1>1, <2>1, HeadPlace
  <2>3. Pos(tail + i) # Pos(tail + (Avail + j))
    BY <1>1, <2>1, PosApart
  <2>4. tail + (Avail + j) = tail + Avail + j
    BY <1>1, <1>2, <1>3
  <2> QED BY <2>2, <2>3, <2>4
<1> QED BY <1>4 DEF SlotsOf

\* The producer and the consumer are never at the same slot.
LEMMA InvApart == RingInv => NoSlotShared
<1> SUFFICES ASSUME RingInv, producer = "copy", consumer \in {"copy", "peek"}
             PROVE  SlotsOf(head, put) \cap SlotsOf(tail, get) = {}
  BY DEF NoSlotShared
<1>1. RingTypes /\ Avail + put <= size /\ get \in 1 .. Avail /\ put \in Nat
  BY DEF RingInv, InUse, Pending, RingTypes
<1>2. Avail \in Int
  BY <1>1, HeadPlace, 0 \in Int, Sized DEF RingTypes
<1>3. ASSUME NEW i \in 0 .. get - 1 PROVE Pos(tail + i) \notin SlotsOf(head, put)
  BY <1>1, <1>2, FreeSlots
<1> QED BY <1>3 DEF SlotsOf

\* An index that was written is found again by its place.
LEMMA ChosenIndex ==
  ASSUME RingTypes, NEW n \in Nat, n <= size, NEW j \in 0 .. n - 1
  PROVE  (CHOOSE i \in head .. head + n - 1 : Pos(i) = Pos(head + j)) = head + j
<1>1. /\ size \in Sizes /\ Accepted(size) /\ head \in Int /\ size \in Nat
  BY Sized DEF RingTypes
<1>2. head + j \in head .. head + n - 1
  BY <1>1
<1>3. ASSUME NEW i \in head .. head + n - 1, Pos(i) = Pos(head + j)
      PROVE  i = head + j
  <2>1. i - head \in 0 .. size - 1 /\ j \in 0 .. size - 1 /\ head + (i - head) = i
    BY <1>1
  <2>2. i - head = j
    BY <1>1, <1>3, <2>1, PosApart
  <2> QED BY <2>1, <2>2
<1> QED BY <1>2, <1>3

-----------------------------------------------------------------------------
(* The steps                                                               *)

\* A ring that was just made is empty.
LEMMA InitRingInv == Init => RingInv
<1> SUFFICES ASSUME Init PROVE RingInv
  OBVIOUS
<1>1. size \in Sizes /\ Accepted(size) /\ size \in Nat /\ Modulus \in Nat \ {0}
  BY Sized DEF Init
<1>2. Avail = 0 /\ Pending = 0
  <2>1. 0 % Modulus = 0
    BY <1>1
  <2> QED BY <2>1 DEF Init, Avail, Wrap, Pending
<1> QED BY <1>1, <1>2 DEF Init, RingInv, RingTypes, InUse, Stored, Copied, Taken

\* The numbers that matter of a state that keeps the invariant.
LEMMA Bounds ==
  ASSUME RingInv
  PROVE  /\ size \in Sizes /\ Accepted(size) /\ size \in Nat /\ size < Modulus
         /\ Modulus \in Nat \ {0} /\ head \in Int /\ tail \in Int
         /\ Avail \in 0 .. Modulus - 1 /\ Avail <= size
         /\ put \in Nat /\ get \in Nat /\ head = Wrap(tail + Avail)
<1>1. /\ size \in Sizes /\ Accepted(size) /\ head \in 0 .. Modulus - 1
      /\ tail \in 0 .. Modulus - 1 /\ put \in Nat /\ get \in Nat
      /\ Avail + Pending <= size
  BY DEF RingInv, RingTypes, InUse
<1>2. size \in Nat /\ size < Modulus /\ Modulus \in Nat \ {0}
  BY <1>1, Sized
<1>3. Avail \in 0 .. Modulus - 1 /\ Wrap(head + 0) = Wrap(tail + Avail + 0)
  BY <1>1, HeadPlace, 0 \in Int
<1>4. head + 0 = head /\ tail + Avail + 0 = tail + Avail /\ head % Modulus = head
  BY <1>1, <1>2, <1>3
<1>5. Pending \in Nat
  BY <1>1 DEF Pending
<1> QED BY <1>1, <1>2, <1>3, <1>4, <1>5 DEF Wrap

\* What begins to be filled is free.
LEMMA PutBeginInv ==
  ASSUME RingInv, NEW count \in Counts, PutBegin(count)
  PROVE  RingInv'
<1> DEFINE n == Smaller(count, Free)
<1>1. n \in Nat /\ n > 0 /\ Avail + n <= size
  BY Bounds, RingAssumption DEF PutBegin, Smaller, Free
<1>2. /\ put' = n /\ producer' = "copy"
      /\ buffer' = [s \in 0 .. size - 1 |->
                      IF s \in SlotsOf(head, n) THEN Torn ELSE buffer[s]]
      /\ UNCHANGED <<size, head, tail, consumer, get, out>>
  BY DEF PutBegin
<1>3. ASSUME NEW i \in 0 .. Avail - 1
      PROVE  buffer'[Pos(tail + i)] = Wrap(tail + i)
  <2>1. Pos(tail + i) \notin SlotsOf(head, n)
    BY <1>1, FreeSlots DEF RingInv
  <2>2. Pos(tail + i) \in 0 .. size - 1
    BY Bounds, PosIn
  <2>3. buffer[Pos(tail + i)] = Wrap(tail + i)
    BY DEF RingInv, Stored
  <2> QED BY <1>2, <2>1, <2>2, <2>3
<1>4. RingTypes'
  BY <1>1, <1>2 DEF RingInv, RingTypes
<1>5. InUse'
  BY <1>1, <1>2 DEF RingInv, InUse, Avail, Pending
<1>6. Stored'
  BY <1>2, <1>3 DEF Stored, Avail, Pos, Wrap
<1>7. Copied' /\ Taken'
  BY <1>2 DEF RingInv, Copied, Taken, Numbers
<1> QED BY <1>4, <1>5, <1>6, <1>7 DEF RingInv

\* The copy fills the slots of the batch and no other.
LEMMA PutCopyInv ==
  ASSUME RingInv, PutCopy
  PROVE  RingInv'
<1>1. /\ producer = "copy" /\ put > 0 /\ Avail + put <= size /\ put \in Nat
  BY DEF RingInv, RingTypes, InUse, Pending, PutCopy
<1>2. /\ producer' = "publish"
      /\ buffer' = [s \in 0 .. size - 1 |->
                      IF s \in SlotsOf(head, put)
                      THEN Wrap(CHOOSE i \in head .. head + put - 1 : Pos(i) = s)
                      ELSE buffer[s]]
      /\ UNCHANGED <<size, head, tail, put, consumer, get, out>>
  BY DEF PutCopy
<1>3. ASSUME NEW i \in 0 .. Avail - 1
      PROVE  buffer'[Pos(tail + i)] = Wrap(tail + i)
  <2>1. Pos(tail + i) \notin SlotsOf(head, put)
    BY <1>1, FreeSlots DEF RingInv
  <2>2. Pos(tail + i) \in 0 .. size - 1
    BY Bounds, PosIn
  <2>3. buffer[Pos(tail + i)] = Wrap(tail + i)
    BY DEF RingInv, Stored
  <2> QED BY <1>2, <2>1, <2>2, <2>3
<1>4. ASSUME NEW j \in 0 .. put - 1
      PROVE  buffer'[Pos(head + j)] = Wrap(head + j)
  <2>1. Pos(head + j) \in SlotsOf(head, put)
    BY DEF SlotsOf
  <2>2. Pos(head + j) \in 0 .. size - 1
    BY <1>1, Bounds, PosIn
  <2>3. (CHOOSE i \in head .. head + put - 1 : Pos(i) = Pos(head + j)) = head + j
    BY <1>1, Bounds, ChosenIndex DEF RingInv
  <2> QED BY <1>2, <2>1, <2>2, <2>3
<1>5. RingTypes'
  BY <1>2 DEF RingInv, RingTypes
<1>6. InUse'
  BY <1>1, <1>2 DEF RingInv, InUse, Avail, Pending
<1>7. Stored'
  BY <1>2, <1>3 DEF Stored, Avail, Pos, Wrap
<1>8. Copied'
  BY <1>2, <1>4 DEF Copied, Pos, Wrap
<1>9. Taken'
  BY <1>2 DEF RingInv, Taken, Numbers
<1> QED BY <1>5, <1>6, <1>7, <1>8, <1>9 DEF RingInv

\* The store of the head makes the copied elements wait.
LEMMA Published ==
  ASSUME RingInv, PutPublish
  PROVE  /\ Avail' = Avail + put /\ put > 0 /\ Avail + put <= size
         /\ UNCHANGED <<size, tail, buffer>>
<1>1. /\ put > 0 /\ Avail + put <= size
      /\ UNCHANGED <<size, tail, buffer>> /\ head' = Wrap(head + put)
  BY DEF RingInv, RingTypes, InUse, Pending, PutPublish
<1>2. head' = Wrap(tail + Avail + put)
  BY <1>1, Bounds, HeadPlace DEF RingInv, RingTypes
<1>3. Avail + put \in 0 .. Modulus - 1 /\ tail + Avail + put = tail + (Avail + put)
  BY <1>1, Bounds
<1>4. Wrap(head' - tail) = Avail + put
  BY <1>2, <1>3, Bounds, Difference
<1> QED BY <1>1, <1>4 DEF Avail, Wrap

\* What was copied waits.
LEMMA PutPublishInv ==
  ASSUME RingInv, PutPublish
  PROVE  RingInv'
<1>1. /\ Avail' = Avail + put /\ put > 0 /\ Avail + put <= size
      /\ UNCHANGED <<size, tail, buffer>>
  BY Published
<1>2. /\ producer = "publish" /\ producer' = "count" /\ head' = Wrap(head + put)
      /\ UNCHANGED <<put, consumer, get, out>>
  BY DEF PutPublish
<1>3. RingTypes'
  BY <1>1, <1>2, Bounds, WrapShift DEF RingInv, RingTypes
<1>4. InUse'
  BY <1>1, <1>2, Bounds DEF RingInv, InUse, Pending
<1>5. ASSUME NEW i \in 0 .. Avail + put - 1
      PROVE  buffer[Pos(tail + i)] = Wrap(tail + i)
  <2>1. CASE i \in 0 .. Avail - 1
    BY <2>1 DEF RingInv, Stored
  <2>2. CASE i \notin 0 .. Avail - 1
    <3>1. /\ i - Avail \in 0 .. put - 1 /\ tail + Avail + (i - Avail) = tail + i
          /\ size # 0
      BY <1>1, <2>2, Bounds
    <3>2. /\ Pos(head + (i - Avail)) = Pos(tail + i)
          /\ Wrap(head + (i - Avail)) = Wrap(tail + i)
      BY <3>1, HeadPlace DEF RingInv, RingTypes
    <3>3. buffer[Pos(head + (i - Avail))] = Wrap(head + (i - Avail))
      BY <1>2, <3>1 DEF RingInv, Copied
    <3> QED BY <3>2, <3>3
  <2> QED BY <2>1, <2>2
<1>6. Stored'
  <2>1. SUFFICES ASSUME NEW i \in 0 .. Avail' - 1
                 PROVE  buffer'[(tail' + i) % size'] = (tail' + i) % Modulus
    BY DEF Stored, Pos, Wrap
  <2>2. i \in 0 .. Avail + put - 1
    BY <1>1, Bounds
  <2>3. buffer[(tail + i) % size] = (tail + i) % Modulus
    BY <1>5, <2>2 DEF Pos, Wrap
  <2> QED BY <1>1, <2>3
<1>7. Copied' /\ Taken'
  BY <1>1, <1>2 DEF RingInv, Copied, Taken, Numbers
<1> QED BY <1>3, <1>4, <1>6, <1>7 DEF RingInv

\* The elements that wait are numbered from the tail on.
LEMMA ElementsAre ==
  ASSUME RingInv, NEW n \in 0 .. Avail
  PROVE  ElementsOf(tail, n) = Numbers(tail, n)
<1>1. ASSUME NEW j \in 1 .. n
      PROVE  buffer[Pos(tail + j - 1)] = Wrap(tail + j - 1)
  <2>1. j - 1 \in 0 .. Avail - 1 /\ tail + (j - 1) = tail + j - 1
    BY Bounds
  <2> QED BY <2>1 DEF RingInv, Stored
<1> QED BY <1>1 DEF ElementsOf, Numbers

\* No more is read than waits.
LEMMA GetBeginInv ==
  ASSUME RingInv, \/ \E count \in Counts : GetBegin(count)
                  \/ \E count \in Counts : PeekBegin(count - 1)
  PROVE  RingInv'
<1>1. /\ UNCHANGED <<size, head, tail, buffer, producer, put, out>>
      /\ consumer' \in {"copy", "peek"}
  BY DEF GetBegin, PeekBegin, ring
<1>2. get' \in 1 .. Avail
  BY Bounds, RingAssumption DEF GetBegin, PeekBegin, Smaller
<1>3. RingTypes' /\ Stored' /\ Copied'
  BY <1>1, <1>2, Bounds DEF RingInv, RingTypes, Stored, Copied, Avail, Pos, Wrap
<1>4. InUse' /\ Taken'
  BY <1>1, <1>2 DEF RingInv, InUse, Taken, Pending, Avail
<1> QED BY <1>3, <1>4 DEF RingInv

\* What is read is what waits.
LEMMA GetCopyInv ==
  ASSUME RingInv, GetCopy
  PROVE  RingInv'
<1>1. /\ UNCHANGED <<size, head, tail, buffer, producer, put, get>>
      /\ consumer = "copy" /\ consumer' = "release" /\ out' = ElementsOf(tail, get)
  BY DEF GetCopy, ring
<1>2. out' = Numbers(tail, get)
  BY <1>1, ElementsAre, Bounds DEF RingInv, InUse
<1>3. Taken'
  BY <1>1, <1>2 DEF Taken, Numbers, Wrap
<1>4. RingTypes' /\ Stored' /\ Copied'
  BY <1>1 DEF RingInv, RingTypes, Stored, Copied, Avail, Pos, Wrap
<1>5. InUse'
  BY <1>1 DEF RingInv, InUse, Pending, Avail
<1> QED BY <1>3, <1>4, <1>5 DEF RingInv

\* The store of the tail removes what was read.
LEMMA Released ==
  ASSUME RingInv, GetRelease
  PROVE  /\ Avail' = Avail - get /\ get \in 1 .. Avail
         /\ tail' = Wrap(tail + get) /\ tail' \in 0 .. Modulus - 1
         /\ UNCHANGED <<size, head, buffer>>
<1>1. /\ get \in 1 .. Avail /\ UNCHANGED <<size, head, buffer>>
      /\ tail' = Wrap(tail + get)
  BY DEF RingInv, InUse, GetRelease
<1>2. /\ tail + get \in Int /\ Avail - get \in 0 .. Modulus - 1
      /\ tail + get + (Avail - get) = tail + Avail
  BY <1>1, Bounds
<1>3. tail' \in 0 .. Modulus - 1 /\ Wrap(tail' + (Avail - get)) = head
  BY <1>1, <1>2, Bounds, WrapShift
<1>4. tail' \in Int
  BY <1>3, Bounds
<1>5. Wrap(head - tail') = Avail - get
  BY <1>2, <1>3, <1>4, Difference
<1> QED BY <1>1, <1>3, <1>5 DEF Avail, Wrap

\* What is left is numbered from the new tail on.
LEMMA GetReleaseInv ==
  ASSUME RingInv, GetRelease
  PROVE  RingInv'
<1>1. /\ Avail' = Avail - get /\ get \in 1 .. Avail
      /\ tail' = Wrap(tail + get) /\ tail' \in 0 .. Modulus - 1
      /\ UNCHANGED <<size, head, buffer>>
  BY Released
<1>2. /\ consumer' = "count" /\ UNCHANGED <<producer, put, get, out>>
  BY DEF GetRelease
<1>3. RingTypes'
  BY <1>1, <1>2 DEF RingInv, RingTypes
<1>4. Pending \in Nat
  BY Bounds DEF Pending
<1>5. InUse'
  BY <1>1, <1>2, <1>4, Bounds DEF RingInv, InUse, Pending
<1>6. Copied' /\ Taken'
  BY <1>1, <1>2 DEF RingInv, Copied, Taken, Pos, Wrap
<1>7. Stored'
  <2>1. SUFFICES ASSUME NEW i \in 0 .. Avail' - 1
                 PROVE  buffer'[(tail' + i) % size'] = (tail' + i) % Modulus
    BY DEF Stored, Pos, Wrap
  <2>2. /\ get + i \in 0 .. Avail - 1 /\ tail + get \in Int /\ i \in Int
        /\ tail + get + i = tail + (get + i) /\ size # 0
    BY <1>1, Bounds
  <2>3. buffer[Pos(tail + (get + i))] = Wrap(tail + (get + i))
    BY <2>2 DEF RingInv, Stored
  <2>4. Pos(Wrap(tail + get) + i) = Pos(tail + get + i)
    BY <2>2, Bounds, PosShift
  <2>5. Wrap(Wrap(tail + get) + i) = Wrap(tail + get + i)
    BY <2>2, WrapShift
  <2>6. buffer[Pos(tail' + i)] = Wrap(tail' + i)
    BY <1>1, <2>2, <2>3, <2>4, <2>5
  <2> QED BY <1>1, <2>6 DEF Pos, Wrap
<1> QED BY <1>3, <1>5, <1>6, <1>7 DEF RingInv

\* The rest moves no element.
LEMMA QuietInv ==
  ASSUME RingInv, PutCount \/ GetCount \/ PeekCopy \/ UNCHANGED vars
  PROVE  RingInv'
<1>1. UNCHANGED <<size, head, tail, buffer>>
  BY DEF PutCount, GetCount, PeekCopy, vars, ring
<1>2. RingTypes'
  BY <1>1 DEF RingInv, RingTypes, PutCount, GetCount, PeekCopy, vars
<1>3. Stored'
  BY <1>1 DEF RingInv, Stored, Avail, Pos, Wrap
<1>4. InUse'
  BY <1>1 DEF RingInv, InUse, Pending, Avail, PutCount, GetCount, PeekCopy, vars
<1>5. Copied' /\ Taken'
  BY <1>1 DEF RingInv, Copied, Taken, Numbers, Pos, Wrap, PutCount, GetCount, PeekCopy, vars
<1> QED BY <1>2, <1>3, <1>4, <1>5 DEF RingInv

\* A reset leaves nothing that waits.
LEMMA ResetInv ==
  ASSUME RingInv, Reset
  PROVE  RingInv' /\ Avail' = 0
<1>1. /\ UNCHANGED <<size, producer, consumer, put, get>> /\ head' = 0 /\ tail' = 0
      /\ producer = "idle" /\ consumer = "idle"
  BY DEF Reset
<1>2. 0 \in 0 .. Modulus - 1 /\ 0 % Modulus = 0 /\ size \in Nat
  BY Bounds
<1>3. Avail' = 0
  BY <1>1, <1>2 DEF Avail, Wrap
<1>4. RingTypes'
  BY <1>1, <1>2 DEF RingInv, RingTypes
<1>5. InUse' /\ Stored'
  BY <1>1, <1>2, <1>3 DEF InUse, Stored, Pending
<1>6. Copied' /\ Taken'
  BY <1>1 DEF Copied, Taken
<1> QED BY <1>3, <1>4, <1>5, <1>6 DEF RingInv

\* Every step keeps the invariant.
LEMMA NextRingInv == RingInv /\ [Next]_vars => RingInv'
<1> SUFFICES ASSUME RingInv, [Next]_vars PROVE RingInv'
  OBVIOUS
<1>1. CASE \E n \in Counts : PutBegin(n)
  BY <1>1, PutBeginInv
<1>2. CASE PutCopy
  BY <1>2, PutCopyInv
<1>3. CASE PutPublish
  BY <1>3, PutPublishInv
<1>4. CASE (\E n \in Counts : GetBegin(n)) \/ (\E n \in Counts : PeekBegin(n - 1))
  BY <1>4, GetBeginInv
<1>5. CASE GetCopy
  BY <1>5, GetCopyInv
<1>6. CASE GetRelease
  BY <1>6, GetReleaseInv
<1>7. CASE PutCount \/ GetCount \/ PeekCopy \/ UNCHANGED vars
  BY <1>7, QuietInv
<1>8. CASE Reset
  BY <1>8, ResetInv
<1> QED BY <1>1, <1>2, <1>3, <1>4, <1>5, <1>6, <1>7, <1>8 DEF Next

\* Producer and consumer are never at the same slot.
THEOREM RingApart == Spec => []NoSlotShared
<1> QED BY InitRingInv, NextRingInv, InvApart, PTL DEF Spec

-----------------------------------------------------------------------------
(* The refinement                                                          *)

\* A run of numbers as a sequence.
LEMMA NumbersSeq ==
  ASSUME NEW i \in Int, NEW n \in Nat
  PROVE  /\ Numbers(i, n) \in Seq(Int) /\ Len(Numbers(i, n)) = n
         /\ \A j \in 1 .. n : Numbers(i, n)[j] = Wrap(i + j - 1)
<1>1. ASSUME NEW j \in 1 .. n PROVE Wrap(i + j - 1) \in Int
  <2>1. i + j - 1 \in Int /\ Modulus \in Nat \ {0}
    BY PowersDivide
  <2> QED BY <2>1 DEF Wrap
<1>2. Numbers(i, n) \in [1 .. n -> Int]
  BY <1>1 DEF Numbers
<1>3. Numbers(i, n) \in Seq(Int)
  BY <1>2, SeqDef
<1>4. Len(Numbers(i, n)) = n
  BY <1>2, <1>3
<1> QED BY <1>3, <1>4 DEF Numbers

\* A batch that is appended goes on with the numbers.
LEMMA NumbersConcat ==
  ASSUME NEW i \in Int, NEW a \in Nat, NEW n \in Nat
  PROVE  Numbers(i, a + n) = Numbers(i, a) \o Numbers(i + a, n)
<1> DEFINE s == Numbers(i, a)
           t == Numbers(i + a, n)
           u == Numbers(i, a + n)
<1>1. /\ s \in Seq(Int) /\ Len(s) = a /\ \A j \in 1 .. a : s[j] = Wrap(i + j - 1)
      /\ t \in Seq(Int) /\ Len(t) = n
      /\ \A j \in 1 .. n : t[j] = Wrap(i + a + j - 1)
      /\ u \in Seq(Int) /\ Len(u) = a + n
      /\ \A j \in 1 .. a + n : u[j] = Wrap(i + j - 1)
  BY NumbersSeq, i + a \in Int, a + n \in Nat
<1> HIDE DEF s, t, u
<1>2. /\ s \o t \in Seq(Int) /\ Len(s \o t) = a + n
      /\ \A j \in 1 .. a + n : (s \o t)[j] = IF j <= a THEN s[j] ELSE t[j - a]
  BY <1>1, ConcatProperties
<1>3. ASSUME NEW j \in 1 .. a + n PROVE (s \o t)[j] = u[j]
  <2>1. CASE j <= a
    <3>1. j \in 1 .. a /\ (s \o t)[j] = s[j]
      BY <1>2, <2>1
    <3> QED BY <1>1, <3>1
  <2>2. CASE j > a
    <3>1. j - a \in 1 .. n /\ i + a + (j - a) - 1 = i + j - 1
      BY <2>2
    <3>2. t[j - a] = Wrap(i + a + (j - a) - 1)
      BY <1>1, <3>1
    <3>3. (s \o t)[j] = t[j - a]
      BY <1>2, <2>2
    <3>4. u[j] = Wrap(i + j - 1)
      BY <1>1
    <3> QED BY <3>1, <3>2, <3>3, <3>4, Zenon
  <2>3. j <= a \/ j > a
    OBVIOUS
  <2> QED BY <2>1, <2>2, <2>3, Zenon
<1>4. s \o t = u
  BY <1>1, <1>2, <1>3, SeqEqual
<1> QED BY <1>4 DEF s, t, u

\* A batch that is removed leaves the numbers after it.
LEMMA NumbersSplit ==
  ASSUME NEW i \in Int, NEW a \in Nat, NEW n \in 1 .. a
  PROVE  /\ SubSeq(Numbers(i, a), 1, n) = Numbers(i, n)
         /\ SubSeq(Numbers(i, a), n + 1, a) = Numbers(i + n, a - n)
<1> DEFINE u == Numbers(i, a)
           s == Numbers(i, n)
           t == Numbers(i + n, a - n)
<1>1. /\ u \in Seq(Int) /\ Len(u) = a /\ \A j \in 1 .. a : u[j] = Wrap(i + j - 1)
      /\ s \in Seq(Int) /\ Len(s) = n /\ \A j \in 1 .. n : s[j] = Wrap(i + j - 1)
      /\ t \in Seq(Int) /\ Len(t) = a - n
      /\ \A j \in 1 .. a - n : t[j] = Wrap(i + n + j - 1)
  BY NumbersSeq, i + n \in Int, a - n \in Nat, n \in Nat
<1> HIDE DEF s, t, u
<1>2. \A j \in 1 .. a : u[j] \in Int
  BY <1>1, ElementOfSeq
<1>3. SubSeq(u, 1, n) = s
  <2>1. /\ SubSeq(u, 1, n) \in Seq(Int) /\ Len(SubSeq(u, 1, n)) = n
        /\ \A j \in 1 .. n : SubSeq(u, 1, n)[j] = u[j]
    BY <1>2, SubSeqProperties
  <2>2. ASSUME NEW j \in 1 .. n PROVE SubSeq(u, 1, n)[j] = s[j]
    <3>1. j \in 1 .. a
      OBVIOUS
    <3> QED BY <1>1, <2>1, <3>1
  <2> QED BY <1>1, <2>1, <2>2, SeqEqual
<1>4. SubSeq(u, n + 1, a) = t
  <2>1. /\ SubSeq(u, n + 1, a) \in Seq(Int) /\ Len(SubSeq(u, n + 1, a)) = a - n
        /\ \A j \in 1 .. a - n : SubSeq(u, n + 1, a)[j] = u[n + 1 + j - 1]
    BY <1>2, SubSeqProperties
  <2>2. ASSUME NEW j \in 1 .. a - n PROVE SubSeq(u, n + 1, a)[j] = t[j]
    <3>1. n + 1 + j - 1 \in 1 .. a /\ i + (n + 1 + j - 1) - 1 = i + n + j - 1
      OBVIOUS
    <3>2. u[n + 1 + j - 1] = Wrap(i + n + j - 1)
      BY <1>1, <3>1
    <3> QED BY <1>1, <2>1, <3>2
  <2> QED BY <1>1, <2>1, <2>2, SeqEqual
<1> QED BY <1>3, <1>4 DEF s, t, u

\* The queue after a step, once its number of elements is known.
LEMMA ElementsNext ==
  ASSUME RingInv', NEW t \in Int, NEW a \in Nat, tail' = t, Avail' = a
  PROVE  ElementsOf(tail, Avail)' = Numbers(t, a)
<1>1. ASSUME NEW j \in 1 .. a
      PROVE  buffer'[(t + j - 1) % size'] = (t + j - 1) % Modulus
  <2>1. j - 1 \in 0 .. Avail' - 1 /\ t + (j - 1) = t + j - 1
    OBVIOUS
  <2>2. buffer'[(tail' + (j - 1)) % size'] = (tail' + (j - 1)) % Modulus
    BY <2>1 DEF RingInv, Stored, Pos, Wrap
  <2> QED BY <2>1, <2>2
<1> QED BY <1>1 DEF ElementsOf, Numbers, Pos, Wrap

\* Nothing happens to the queue while no index moves.
LEMMA QueueStays ==
  ASSUME RingInv, RingInv', UNCHANGED <<size, head, tail>>
  PROVE  ElementsOf(tail, Avail)' = ElementsOf(tail, Avail)
<1>1. Avail' = Avail
  BY DEF Avail, Wrap
<1>2. tail \in Int /\ Avail \in Nat /\ Avail \in 0 .. Avail
  BY Bounds
<1>3. ElementsOf(tail, Avail)' = Numbers(tail, Avail)
  BY <1>1, <1>2, ElementsNext
<1> QED BY <1>2, <1>3, ElementsAre

\* Publishing appends, releasing removes, a reset clears, the next call of the
\* consumer takes what was removed, and nothing else is seen of the ring.
LEMMA RingStep ==
  RingInv /\ RingInv' /\ [Next]_vars => [Queue!Next]_(Queue!vars)
<1> SUFFICES ASSUME RingInv, RingInv', [Next]_vars
             PROVE  Queue!Next \/ UNCHANGED Queue!vars
  OBVIOUS
<1> DEFINE queue == ElementsOf(tail, Avail)
           given == IF consumer = "count" THEN out ELSE <<>>
<1>1. tail \in Int /\ head \in Int /\ Avail \in Nat /\ size \in Nat
  BY Bounds
<1>2. queue = Numbers(tail, Avail)
  BY <1>1, ElementsAre
<1>3. Len(queue) = Avail
  BY <1>1, <1>2, NumbersSeq
<1>4. CASE PutPublish
  <2>1. /\ Avail' = Avail + put /\ put > 0 /\ Avail + put <= size
        /\ UNCHANGED <<size, tail, buffer>> /\ put \in Nat
    BY <1>4, Published, Bounds
  <2>2. /\ head' = (head + put) % Modulus /\ UNCHANGED <<consumer, out>>
    BY <1>4 DEF PutPublish, Wrap
  <2>3. queue' = Numbers(tail, Avail + put)
    BY <1>1, <2>1, ElementsNext
  <2>4. Numbers(tail + Avail, put) = [j \in 1 .. put |-> (head + j - 1) % Modulus]
    <3>1. ASSUME NEW j \in 1 .. put
          PROVE  Wrap(tail + Avail + j - 1) = (head + j - 1) % Modulus
      <4>1. /\ j - 1 \in Int /\ tail + Avail + (j - 1) = tail + Avail + j - 1
            /\ head + (j - 1) = head + j - 1
        BY <1>1
      <4>2. Wrap(head + (j - 1)) = Wrap(tail + Avail + (j - 1))
        BY <4>1, HeadPlace DEF RingInv, RingTypes
      <4> QED BY <4>1, <4>2 DEF Wrap
    <3> QED BY <3>1 DEF Numbers
  <2>5. queue' = queue \o [j \in 1 .. put |-> (head + j - 1) % Modulus]
    <3>1. Numbers(tail, Avail + put) = Numbers(tail, Avail) \o Numbers(tail + Avail, put)
      BY <1>1, <2>1, NumbersConcat
    <3> HIDE DEF queue
    <3> QED BY <1>2, <2>3, <2>4, <3>1, Zenon
  <2>6. put \in 1 .. size /\ Len(queue) + put <= size /\ given' = given
    BY <1>1, <1>3, <2>1, <2>2
  <2> HIDE DEF queue, given
  <2>7. Queue!Put(put)
    BY <2>1, <2>2, <2>5, <2>6 DEF Queue!Put, queue, given
  <2> QED BY <2>6, <2>7 DEF Queue!Next
<1>5. CASE GetRelease
  <2>1. /\ Avail' = Avail - get /\ get \in 1 .. Avail
        /\ tail' = Wrap(tail + get) /\ tail' \in Int
        /\ UNCHANGED <<size, head, buffer>>
    BY <1>5, Released, Bounds
  <2>2. /\ consumer = "release" /\ consumer' = "count" /\ out' = out
        /\ out = Numbers(tail, get)
    BY <1>5 DEF GetRelease, RingInv, Taken
  <2>3. queue' = Numbers(tail', Avail - get)
    BY <1>1, <2>1, ElementsNext
  <2>4. Numbers(tail', Avail - get) = Numbers(tail + get, Avail - get)
    <3>1. ASSUME NEW j \in 1 .. Avail - get
          PROVE  Wrap(tail' + j - 1) = Wrap(tail + get + j - 1)
      <4>1. /\ tail + get \in Int /\ j - 1 \in Int
            /\ tail' + (j - 1) = tail' + j - 1
            /\ tail + get + (j - 1) = tail + get + j - 1
        BY <1>1, <2>1
      <4>2. Wrap(Wrap(tail + get) + (j - 1)) = Wrap(tail + get + (j - 1))
        BY <4>1, WrapShift
      <4> QED BY <2>1, <4>1, <4>2
    <3> QED BY <3>1 DEF Numbers
  <2>5. /\ SubSeq(queue, 1, get) = Numbers(tail, get)
        /\ SubSeq(queue, get + 1, Len(queue)) = Numbers(tail + get, Avail - get)
    <3>1. /\ SubSeq(Numbers(tail, Avail), 1, get) = Numbers(tail, get)
          /\ SubSeq(Numbers(tail, Avail), get + 1, Avail) = Numbers(tail + get, Avail - get)
      BY <1>1, <2>1, NumbersSplit
    <3> HIDE DEF queue
    <3> QED BY <1>2, <1>3, <3>1, Zenon
  <2>6. given = <<>> /\ given' = SubSeq(queue, 1, get)
    BY <2>2, <2>5
  <2>7. queue' = SubSeq(queue, get + 1, Len(queue))
    BY <2>3, <2>4, <2>5
  <2> HIDE DEF queue, given
  <2>8. Queue!Get(get)
    BY <2>1, <2>6, <2>7 DEF Queue!Get, queue, given
  <2> QED BY <1>3, <2>1, <2>8 DEF Queue!Next, queue
<1>6. CASE GetCount
  <2>1. UNCHANGED <<size, head, tail>> /\ consumer' = "idle"
    BY <1>6 DEF GetCount
  <2>2. queue' = queue /\ given' = <<>>
    BY <2>1, QueueStays
  <2>3. Queue!Consume
    BY <2>1, <2>2 DEF Queue!Consume
  <2> QED BY <2>3 DEF Queue!Next
<1>7. CASE Reset
  <2>1. /\ UNCHANGED <<size, consumer, out>> /\ head' = 0 /\ tail' = 0 /\ Avail' = 0
    BY <1>7, ResetInv DEF Reset
  <2>2. queue' = Numbers(0, 0)
    BY <2>1, ElementsNext
  <2>3. Numbers(0, 0) = <<>>
    BY NumbersSeq, EmptySeq
  <2>4. queue' = <<>> /\ given' = given
    BY <2>1, <2>2, <2>3
  <2>5. Queue!Clear
    BY <2>1, <2>4 DEF Queue!Clear
  <2> QED BY <2>5 DEF Queue!Next
<1>8. CASE \/ \E n \in Counts : PutBegin(n) \/ GetBegin(n) \/ PeekBegin(n - 1)
           \/ PutCopy \/ PutCount \/ GetCopy \/ PeekCopy \/ UNCHANGED vars
  <2>1. UNCHANGED <<size, head, tail>>
    BY <1>8 DEF PutBegin, GetBegin, PeekBegin, PutCopy, PutCount, GetCopy, PeekCopy,
                vars, ring
  <2>2. given' = given
    BY <1>8 DEF PutBegin, GetBegin, PeekBegin, PutCopy, PutCount, GetCopy, PeekCopy,
                vars
  <2>3. queue' = queue
    BY <2>1, QueueStays
  <2> QED BY <2>1, <2>2, <2>3 DEF Queue!vars
<1> QED BY <1>4, <1>5, <1>6, <1>7, <1>8 DEF Next

\* The ring buffer is a bounded queue.
THEOREM RingIsFifo == Spec => ImplementsFifo
<1>1. Init => Queue!Init
  <2> SUFFICES ASSUME Init PROVE Queue!Init
    OBVIOUS
  <2>1. RingInv
    BY InitRingInv
  <2>2. Avail = 0 /\ size \in Nat
    <3>1. 0 % Modulus = 0
      BY <2>1, Bounds
    <3> QED BY <2>1, <3>1, Bounds DEF Init, Avail, Wrap
  <2>3. ElementsOf(tail, Avail) = Numbers(0, 0)
    BY <2>1, <2>2, ElementsAre DEF Init
  <2>4. Numbers(0, 0) = <<>>
    BY NumbersSeq, EmptySeq
  <2> QED BY <2>2, <2>3, <2>4 DEF Init, Queue!Init
<1> QED BY <1>1, InitRingInv, NextRingInv, RingStep, PTL
        DEF Spec, ImplementsFifo, Queue!Spec
=============================================================================
