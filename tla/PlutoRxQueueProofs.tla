------------------------- MODULE PlutoRxQueueProofs -------------------------
(***************************************************************************)
(* Theorems about the receive queue, for every number of slots and every   *)
(* number of blocks.  QueueInv, the inductive invariant, relates the two   *)
(* positions to the blocks published and released; from it follow that a   *)
(* block under the decoder is never overwritten and that the queue         *)
(* implements the abstract BlockChannel.                                   *)
(***************************************************************************)
EXTENDS PlutoRxQueue, TLAPS

\* Below twice the modulus a remainder is one conditional subtraction: the only
\* arithmetic on positions that receive_loop, acquire and release need.
LEMMA ModOnce ==
  ASSUME NEW x \in Nat, x < 2 * NumBlocks
  PROVE  x % NumBlocks = IF x < NumBlocks THEN x ELSE x - NumBlocks
<1>1. CASE x < NumBlocks
  BY <1>1, QueueAssumption
<1>2. CASE x >= NumBlocks
  <2>1. x = NumBlocks * 1 + (x - NumBlocks) /\ x - NumBlocks \in 0 .. NumBlocks - 1
    BY <1>2, QueueAssumption
  <2>2. QED
    BY <2>1, <1>2, QueueAssumption
<1>3. QED
  BY <1>1, <1>2, QueueAssumption

\* The successor of a slot is the next one, or the first after the last.
LEMMA SuccStep ==
  ASSUME NEW p \in Slots
  PROVE  /\ Succ(p) \in Slots
         /\ Succ(p) = IF p + 1 = NumBlocks THEN 0 ELSE p + 1
<1>1. PICK x \in Nat : x = p + 1 /\ x < 2 * NumBlocks
  BY QueueAssumption DEF Slots
<1>2. x % NumBlocks = IF x < NumBlocks THEN x ELSE x - NumBlocks
  BY <1>1, ModOnce
<1>3. QED
  BY <1>1, <1>2, QueueAssumption DEF Succ, Slots

\* The distance between two slots, without the modulus.
LEMMA DepthValue ==
  ASSUME NEW a \in Slots, NEW b \in Slots
  PROVE  /\ Depth(a, b) \in Slots
         /\ Depth(a, b) = IF b >= a THEN b - a ELSE b + NumBlocks - a
<1>1. PICK x \in Nat : x = b + NumBlocks - a /\ x < 2 * NumBlocks
  BY QueueAssumption DEF Slots
<1>2. x % NumBlocks = IF x < NumBlocks THEN x ELSE x - NumBlocks
  BY <1>1, ModOnce
<1>3. QED
  BY <1>1, <1>2, QueueAssumption DEF Depth, Slots

\* The slot k places past another one.
LEMMA SlotAt ==
  ASSUME NEW a \in Slots, NEW k \in Slots
  PROVE  /\ (a + k) % NumBlocks \in Slots
         /\ (a + k) % NumBlocks = IF a + k < NumBlocks THEN a + k
                                  ELSE a + k - NumBlocks
<1>1. PICK x \in Nat : x = a + k /\ x < 2 * NumBlocks
  BY QueueAssumption DEF Slots
<1>2. x % NumBlocks = IF x < NumBlocks THEN x ELSE x - NumBlocks
  BY <1>1, ModOnce
<1>3. QED
  BY <1>1, <1>2, QueueAssumption DEF Slots

\* A slot before write_pos is not write_pos.
LEMMA QueuedSlotIsNotWritePos ==
  ASSUME NEW r \in Slots, NEW w \in Slots, NEW k \in Slots, k < Depth(r, w)
  PROVE  (r + k) % NumBlocks # w
<1>1. Depth(r, w) = IF w >= r THEN w - r ELSE w + NumBlocks - r
  BY DepthValue
<1>2. (r + k) % NumBlocks = IF r + k < NumBlocks THEN r + k ELSE r + k - NumBlocks
  BY SlotAt
<1>3. (IF r + k < NumBlocks THEN r + k ELSE r + k - NumBlocks) # w
  BY <1>1, QueueAssumption DEF Slots
<1>4. QED
  BY <1>2, <1>3

\* Publishing in a queue that is not full makes it one deeper.
LEMMA DepthGrows ==
  ASSUME NEW a \in Slots, NEW b \in Slots, Succ(b) # a
  PROVE  /\ Depth(a, Succ(b)) = Depth(a, b) + 1
         /\ (a + Depth(a, b)) % NumBlocks = b
<1>1. Succ(b) \in Slots /\ Succ(b) = IF b + 1 = NumBlocks THEN 0 ELSE b + 1
  BY SuccStep
<1>2. /\ Depth(a, b) \in Slots
      /\ Depth(a, b) = IF b >= a THEN b - a ELSE b + NumBlocks - a
  BY DepthValue
<1>3. Depth(a, Succ(b)) = IF Succ(b) >= a THEN Succ(b) - a
                          ELSE Succ(b) + NumBlocks - a
  BY <1>1, DepthValue
<1>4. (a + Depth(a, b)) % NumBlocks =
        IF a + Depth(a, b) < NumBlocks THEN a + Depth(a, b)
        ELSE a + Depth(a, b) - NumBlocks
  BY <1>2, SlotAt
<1>5. ASSUME NEW s, s = Succ(b), NEW d, d = Depth(a, b)
      PROVE  (IF s >= a THEN s - a ELSE s + NumBlocks - a) = d + 1
  BY <1>1, <1>2, <1>5, QueueAssumption DEF Slots
<1>6. ASSUME NEW d, d = Depth(a, b)
      PROVE  (IF a + d < NumBlocks THEN a + d ELSE a + d - NumBlocks) = b
  BY <1>2, <1>6, QueueAssumption DEF Slots
<1>7. QED
  BY <1>3, <1>4, <1>5, <1>6

\* Releasing from a queue that is not empty makes it one shallower.
LEMMA DepthShrinks ==
  ASSUME NEW a \in Slots, NEW b \in Slots, a # b
  PROVE  Depth(Succ(a), b) = Depth(a, b) - 1
<1>1. Succ(a) \in Slots /\ Succ(a) = IF a + 1 = NumBlocks THEN 0 ELSE a + 1
  BY SuccStep
<1>2. Depth(a, b) = IF b >= a THEN b - a ELSE b + NumBlocks - a
  BY DepthValue
<1>3. Depth(Succ(a), b) = IF b >= Succ(a) THEN b - Succ(a)
                          ELSE b + NumBlocks - Succ(a)
  BY <1>1, DepthValue
<1>4. ASSUME NEW s, s = Succ(a)
      PROVE  (IF b >= s THEN b - s ELSE b + NumBlocks - s)
               = (IF b >= a THEN b - a ELSE b + NumBlocks - a) - 1
  BY <1>1, <1>4, QueueAssumption DEF Slots
<1>5. QED
  BY <1>2, <1>3, <1>4

\* The slot k past the successor is the slot k + 1 past the position itself.
LEMMA SlotShift ==
  ASSUME NEW a \in Slots, NEW k \in Slots, k + 1 \in Slots
  PROVE  (Succ(a) + k) % NumBlocks = (a + (k + 1)) % NumBlocks
<1>1. Succ(a) \in Slots /\ Succ(a) = IF a + 1 = NumBlocks THEN 0 ELSE a + 1
  BY SuccStep
<1>2. (Succ(a) + k) % NumBlocks = IF Succ(a) + k < NumBlocks THEN Succ(a) + k
                                  ELSE Succ(a) + k - NumBlocks
  BY <1>1, SlotAt
<1>3. (a + (k + 1)) % NumBlocks = IF a + (k + 1) < NumBlocks THEN a + (k + 1)
                                  ELSE a + (k + 1) - NumBlocks
  BY SlotAt
<1>4. ASSUME NEW s, s = Succ(a)
      PROVE  (IF s + k < NumBlocks THEN s + k ELSE s + k - NumBlocks)
               = IF a + (k + 1) < NumBlocks THEN a + (k + 1)
                 ELSE a + (k + 1) - NumBlocks
  BY <1>1, <1>4, QueueAssumption DEF Slots
<1>5. QED
  BY <1>2, <1>3, <1>4

-----------------------------------------------------------------------------
\* Every variable the queue's invariant mentions keeps its value.
QueueUnchanged ==
  UNCHANGED <<blocks, read_pos, write_pos, published, released>>

\* The parts of QueueInv that relate positions, blocks and history depend on
\* the queue alone.
LEMMA OrderFrame ==
  ASSUME PositionsAgree /\ InOrder, QueueUnchanged
  PROVE  PositionsAgree' /\ InOrder'
BY DEF PositionsAgree, InOrder, QueueUnchanged

\* The initial queue is empty, its slots hold nothing.
LEMMA InitQueueInv == Init => QueueInv
<1> SUFFICES ASSUME Init PROVE QueueInv
  OBVIOUS
<1> USE DEF Init
<1>0. 0 \in Slots /\ NumBlocks \in Nat
  BY QueueAssumption DEF Slots
<1>1. Depth(0, 0) = 0
  BY <1>0, DepthValue
<1>2. TypeOK
  <2>1. blocks \in [Slots -> 0 .. MaxBlocks] /\ published \in 0 .. MaxBlocks
    BY QueueAssumption DEF Torn
  <2>2. read_pos \in Slots /\ write_pos \in Slots
    BY <1>0
  <2>3. report \in [queued : Slots, received : Nat, high : Nat]
    BY <1>0
  <2>4. QED
    BY <2>1, <2>2, <2>3 DEF TypeOK, RadioPC, MainPC
<1>3. PositionsAgree /\ InOrder
  BY <1>0, <1>1 DEF PositionsAgree, InOrder, Slots
<1>4. SlotReady /\ HoldsBlock
  BY DEF SlotReady, HoldsBlock, Writing, Reading
<1>5. QED
  BY <1>2, <1>3, <1>4 DEF QueueInv

\* Filling write_pos leaves every queued block as it is.
LEMMA FillFrame ==
  ASSUME QueueInv, NEW v,
         blocks' = [blocks EXCEPT ![write_pos] = v],
         UNCHANGED <<read_pos, write_pos, published, released>>
  PROVE  PositionsAgree' /\ InOrder'
<1> USE DEF QueueInv, TypeOK
<1>1. PositionsAgree'
  BY DEF PositionsAgree
<1>2. InOrder'
  <2> SUFFICES ASSUME NEW k \in Slots, k < Depth(read_pos, write_pos)
               PROVE  blocks'[(read_pos + k) % NumBlocks] = released + k + 1
    BY DEF InOrder
  <2>1. (read_pos + k) % NumBlocks \in Slots /\ (read_pos + k) % NumBlocks # write_pos
    BY SlotAt, QueuedSlotIsNotWritePos
  <2>2. blocks[(read_pos + k) % NumBlocks] = released + k + 1
    BY DEF InOrder
  <2>3. QED
    BY <2>1, <2>2
<1>3. QED
  BY <1>1, <1>2

\* Publishing a whole block extends the queue by it.
LEMMA PublishInv ==
  ASSUME QueueInv, PublishBlock
  PROVE  QueueInv'
<1> USE DEF QueueInv
<1>0. /\ read_pos \in Slots /\ write_pos \in Slots /\ released \in Nat
      /\ published \in 0 .. MaxBlocks /\ published < MaxBlocks
      /\ blocks[write_pos] = published + 1 /\ Succ(write_pos) # read_pos
      /\ NumBlocks \in Nat /\ MaxBlocks \in Nat
  BY QueueAssumption DEF PublishBlock, RadioGo, TypeOK, SlotReady, Writing
<1>1. /\ Succ(write_pos) \in Slots
      /\ Depth(read_pos, Succ(write_pos)) = Depth(read_pos, write_pos) + 1
      /\ Depth(read_pos, write_pos) \in Slots
      /\ (read_pos + Depth(read_pos, write_pos)) % NumBlocks = write_pos
  BY <1>0, SuccStep, DepthValue, DepthGrows
<1>2. TypeOK'
  BY <1>0, <1>1 DEF TypeOK, PublishBlock, RadioGo, RadioPC, mainVars, procVars
<1>3. PositionsAgree'
  BY <1>0, <1>1 DEF PositionsAgree, PublishBlock, Slots
<1>4. InOrder'
  <2> SUFFICES ASSUME NEW k \in Slots, k < Depth(read_pos, Succ(write_pos))
               PROVE  blocks[(read_pos + k) % NumBlocks] = released + k + 1
    BY DEF InOrder, PublishBlock
  <2>1. CASE k < Depth(read_pos, write_pos)
    BY <2>1 DEF InOrder
  <2>2. CASE k = Depth(read_pos, write_pos)
    BY <2>2, <1>0, <1>1 DEF PositionsAgree, Slots
  <2>3. QED
    BY <2>1, <2>2, <1>1 DEF Slots
<1>5. SlotReady'
  BY DEF SlotReady, PublishBlock, RadioGo, Writing
<1>6. HoldsBlock'
  BY <1>0 DEF HoldsBlock, PublishBlock, Reading, mainVars
<1>7. QED
  BY <1>2, <1>3, <1>4, <1>5, <1>6

\* Releasing the held block drops the first one of the queue.
LEMMA ReleaseInv ==
  ASSUME QueueInv, Release
  PROVE  QueueInv'
<1> USE DEF QueueInv
<1>0. /\ read_pos \in Slots /\ write_pos \in Slots /\ released \in Nat
      /\ published \in Nat /\ read_pos # write_pos /\ NumBlocks \in Nat
      /\ NumBlocks >= 2
  BY QueueAssumption DEF Release, MainGo, TypeOK, HoldsBlock, Reading
<1>1. /\ Succ(read_pos) \in Slots
      /\ Depth(Succ(read_pos), write_pos) = Depth(read_pos, write_pos) - 1
      /\ Depth(read_pos, write_pos) \in Slots
  BY <1>0, SuccStep, DepthValue, DepthShrinks
<1>2. TypeOK'
  BY <1>0, <1>1 DEF TypeOK, Release, MainGo, MainPC, radioVars, procVars
<1>3. PositionsAgree'
  BY <1>0, <1>1 DEF PositionsAgree, Release, Slots
<1>4. InOrder'
  <2> SUFFICES ASSUME NEW k \in Slots, k < Depth(Succ(read_pos), write_pos)
               PROVE  blocks[(Succ(read_pos) + k) % NumBlocks] = released + 1 + k + 1
    BY DEF InOrder, Release
  <2>1. k + 1 \in Slots /\ k + 1 < Depth(read_pos, write_pos)
    BY <1>0, <1>1 DEF Slots
  <2>2. (Succ(read_pos) + k) % NumBlocks = (read_pos + (k + 1)) % NumBlocks
    BY <1>0, <2>1, SlotShift
  <2>3. blocks[(read_pos + (k + 1)) % NumBlocks] = released + (k + 1) + 1
    BY <2>1 DEF InOrder
  <2>4. QED
    BY <2>2, <2>3, <1>0 DEF Slots
<1>5. SlotReady'
  <2>1. Writing' => Writing
    BY DEF Release, radioVars, Writing
  <2>2. Writing => Succ(write_pos) # Succ(read_pos)
    BY <1>0, SuccStep DEF Slots
  <2>3. QED
    BY <2>1, <2>2 DEF SlotReady, Release, radioVars
<1>6. HoldsBlock'
  BY DEF HoldsBlock, Release, MainGo, Reading
<1>7. QED
  BY <1>2, <1>3, <1>4, <1>5, <1>6

-----------------------------------------------------------------------------
\* The steps of the radio thread other than PublishBlock: they fill the slot at
\* write_pos, or leave slots and positions alone.
LEMMA RadioInv ==
  ASSUME QueueInv, Radio
  PROVE  QueueInv'
<1> USE DEF QueueInv
<1>0. /\ Succ(write_pos) \in Slots /\ NumBlocks \in Nat /\ MaxBlocks \in Nat
      /\ read_pos \in Slots /\ write_pos \in Slots
      /\ Depth(read_pos, write_pos) \in Slots
  BY QueueAssumption, SuccStep, DepthValue DEF TypeOK
<1>1. CASE CheckStop
  BY <1>1, OrderFrame DEF CheckStop, RadioGo, TypeOK, RadioPC, SlotReady,
     HoldsBlock, Reading, Writing, queueVars, mainVars, procVars, ghostVars,
     QueueUnchanged
<1>2. CASE QueueFull
  BY <1>2, OrderFrame DEF QueueFull, RadioGo, TypeOK, RadioPC, SlotReady,
     HoldsBlock, Reading, Writing, mainVars, procVars, ghostVars, QueueUnchanged
<1>3. CASE ReadStart
  <2>1. PositionsAgree' /\ InOrder'
    BY <1>3, FillFrame DEF ReadStart, ghostVars
  <2>2. TypeOK'
    <3>1. Torn \in 0 .. MaxBlocks
      BY <1>0 DEF Torn
    <3>2. blocks' \in [Slots -> 0 .. MaxBlocks]
      BY <1>3, <3>1 DEF ReadStart, TypeOK
    <3>3. QED
      BY <1>3, <3>2 DEF ReadStart, RadioGo, TypeOK, RadioPC, mainVars, procVars,
         ghostVars
  <2>3. SlotReady' /\ HoldsBlock'
    BY <1>3 DEF ReadStart, RadioGo, SlotReady, HoldsBlock, Reading, Writing,
       mainVars
  <2>4. QED
    BY <2>1, <2>2, <2>3
<1>4. CASE ReadOk
  <2>1. PositionsAgree' /\ InOrder'
    BY <1>4, FillFrame DEF ReadOk, ghostVars
  <2>2. published + 1 \in 0 .. MaxBlocks
    BY <1>0, <1>4 DEF ReadOk, TypeOK
  <2>3. TypeOK'
    BY <2>2, <1>4 DEF ReadOk, RadioGo, TypeOK, RadioPC, mainVars, procVars,
       ghostVars
  <2>4. SlotReady' /\ HoldsBlock'
    BY <1>4 DEF ReadOk, RadioGo, SlotReady, HoldsBlock, Reading, Writing,
       mainVars, ghostVars, TypeOK
  <2>5. QED
    BY <2>1, <2>3, <2>4
<1>5. CASE ReadTimeout
  BY <1>5, OrderFrame DEF ReadTimeout, RadioGo, TypeOK, RadioPC, SlotReady,
     HoldsBlock, Reading, Writing, queueVars, mainVars, procVars, ghostVars,
     QueueUnchanged
<1>6. CASE ReadFail
  BY <1>6, OrderFrame DEF ReadFail, RadioGo, TypeOK, RadioPC, SlotReady,
     HoldsBlock, Reading, Writing, queueVars, mainVars, procVars, QueueUnchanged
<1>7. CASE ReadFailed
  BY <1>7, OrderFrame DEF ReadFailed, RadioGo, TypeOK, RadioPC, SlotReady,
     HoldsBlock, Reading, Writing, mainVars, procVars, ghostVars, QueueUnchanged
<1>8. CASE CaptureOk
  BY <1>8, OrderFrame DEF CaptureOk, RadioGo, TypeOK, RadioPC, SlotReady,
     HoldsBlock, Reading, Writing, queueVars, mainVars, procVars, ghostVars,
     QueueUnchanged
<1>9. CASE CaptureFail
  BY <1>9, OrderFrame DEF CaptureFail, RadioGo, TypeOK, RadioPC, SlotReady,
     HoldsBlock, Reading, Writing, mainVars, procVars, QueueUnchanged
<1>10. CASE CountSamples
  BY <1>10, OrderFrame DEF CountSamples, RadioGo, TypeOK, RadioPC, SlotReady,
     HoldsBlock, Reading, Writing, mainVars, procVars, ghostVars, QueueUnchanged
<1>11. CASE MarkHighWater
  <2>1. Larger(high_water, Depth(read_pos, write_pos)) \in Nat
    BY <1>0 DEF Larger, TypeOK, Slots
  <2>2. TypeOK'
    BY <1>11, <2>1 DEF MarkHighWater, RadioGo, TypeOK, RadioPC, mainVars,
       procVars, ghostVars
  <2>3. PositionsAgree' /\ InOrder' /\ SlotReady' /\ HoldsBlock'
    BY <1>11, OrderFrame DEF MarkHighWater, RadioGo, SlotReady, HoldsBlock,
       Reading, Writing, mainVars, ghostVars, QueueUnchanged
  <2>4. QED
    BY <2>2, <2>3
<1>12. CASE Finish
  BY <1>12, OrderFrame DEF Finish, RadioGo, TypeOK, RadioPC, SlotReady,
     HoldsBlock, Reading, Writing, mainVars, procVars, ghostVars, QueueUnchanged
<1>13. QED
  BY <1>1, <1>2, <1>3, <1>4, <1>5, <1>6, <1>7, <1>8, <1>9, <1>10, <1>11, <1>12,
     PublishInv DEF Radio

\* The steps of the main thread other than Release leave slots, positions and
\* history alone; it takes a block only where it saw the queue not empty.
LEMMA MainInv ==
  ASSUME QueueInv, MainThread
  PROVE  QueueInv'
<1> USE DEF QueueInv, MainGo
<1>0. Depth(read_pos, write_pos) \in Slots
  BY DepthValue DEF TypeOK
<1>1. CASE StartOk
  BY <1>1, OrderFrame DEF StartOk, TypeOK, MainPC, RadioPC, SlotReady, HoldsBlock,
     Reading, Writing, queueVars, procVars, ghostVars, QueueUnchanged
<1>2. CASE StartFail
  BY <1>2, OrderFrame DEF StartFail, TypeOK, MainPC, SlotReady, HoldsBlock,
     Reading, Writing, queueVars, radioVars, procVars, QueueUnchanged
<1>3. CASE LoopTop
  BY <1>3, OrderFrame DEF LoopTop, TypeOK, MainPC, SlotReady, HoldsBlock,
     Reading, Writing, queueVars, radioVars, procVars, ghostVars, QueueUnchanged
<1>4. CASE Acquire
  BY <1>4, OrderFrame DEF Acquire, TypeOK, MainPC, SlotReady, HoldsBlock,
     Reading, Writing, queueVars, radioVars, procVars, ghostVars, QueueUnchanged
<1>5. CASE AcquireEmpty
  BY <1>5, OrderFrame DEF AcquireEmpty, TypeOK, MainPC, SlotReady, HoldsBlock,
     Reading, Writing, queueVars, radioVars, procVars, ghostVars, QueueUnchanged
<1>6. CASE AcquireDone
  BY <1>6, OrderFrame DEF AcquireDone, TypeOK, MainPC, SlotReady, HoldsBlock,
     Reading, Writing, queueVars, radioVars, procVars, ghostVars, QueueUnchanged
<1>7. CASE AcquireResult
  BY <1>7, OrderFrame DEF AcquireResult, TypeOK, MainPC, SlotReady, HoldsBlock,
     Reading, Writing, queueVars, radioVars, procVars, ghostVars, QueueUnchanged
<1>8. CASE StatsPositions
  BY <1>0, <1>8, OrderFrame DEF StatsPositions, TypeOK, MainPC, SlotReady,
     HoldsBlock, Reading, Writing, queueVars, radioVars, procVars, ghostVars,
     QueueUnchanged
<1>9. CASE StatsReceived
  BY <1>9, OrderFrame DEF StatsReceived, TypeOK, MainPC, SlotReady, HoldsBlock,
     Reading, Writing, queueVars, radioVars, procVars, ghostVars, QueueUnchanged
<1>10. CASE StatsHighWater
  BY <1>10, OrderFrame DEF StatsHighWater, TypeOK, MainPC, SlotReady, HoldsBlock,
     Reading, Writing, queueVars, radioVars, procVars, ghostVars, QueueUnchanged
<1>11. CASE UseBlock
  <2>1. PositionsAgree' /\ InOrder' /\ SlotReady' /\ HoldsBlock'
    BY <1>11, OrderFrame DEF UseBlock, SlotReady, HoldsBlock, Reading, Writing,
       queueVars, radioVars, ghostVars, QueueUnchanged
  <2>2. stop_requested' \in BOOLEAN
    BY <1>11, Zenon DEF UseBlock, TypeOK
  <2>3. TypeOK'
    BY <1>11, <2>2 DEF UseBlock, TypeOK, MainPC, queueVars, radioVars, ghostVars
  <2>4. QED
    BY <2>1, <2>3
<1>12. CASE UseFail
  BY <1>12, OrderFrame DEF UseFail, TypeOK, MainPC, SlotReady, HoldsBlock,
     Reading, Writing, queueVars, radioVars, procVars, QueueUnchanged
<1>13. CASE FlushOk
  BY <1>13, OrderFrame DEF FlushOk, TypeOK, MainPC, SlotReady, HoldsBlock,
     Reading, Writing, queueVars, radioVars, procVars, ghostVars, QueueUnchanged
<1>14. CASE FlushFail
  BY <1>14, OrderFrame DEF FlushFail, TypeOK, MainPC, SlotReady, HoldsBlock,
     Reading, Writing, queueVars, radioVars, procVars, QueueUnchanged
<1>15. CASE StopQueue
  BY <1>15, OrderFrame DEF StopQueue, TypeOK, MainPC, SlotReady, HoldsBlock,
     Reading, Writing, radioVars, procVars, ghostVars, QueueUnchanged
<1>16. CASE StopCancel
  BY <1>16, OrderFrame DEF StopCancel, TypeOK, MainPC, SlotReady, HoldsBlock,
     Reading, Writing, queueVars, radioVars, ghostVars, QueueUnchanged
<1>17. CASE StopJoin
  BY <1>17, OrderFrame DEF StopJoin, TypeOK, MainPC, SlotReady, HoldsBlock,
     Reading, Writing, queueVars, radioVars, procVars, ghostVars, QueueUnchanged
<1>18. QED
  BY <1>1, <1>2, <1>3, <1>4, <1>5, <1>6, <1>7, <1>8, <1>9, <1>10, <1>11, <1>12,
     <1>13, <1>14, <1>15, <1>16, <1>17, ReleaseInv DEF MainThread

\* QueueInv is inductive.
LEMMA NextQueueInv == QueueInv /\ [Next]_vars => QueueInv'
<1> SUFFICES ASSUME QueueInv, [Next]_vars PROVE QueueInv'
  OBVIOUS
<1>1. CASE HandlerFlag \/ HandlerCancel \/ DeadlinePasses \/ UNCHANGED vars
  <2>1. /\ UNCHANGED <<queueVars, radioVars, mainVars, ghostVars>>
        /\ handler' \in {"idle", "flagged", "returned"}
    BY <1>1 DEF HandlerFlag, HandlerCancel, DeadlinePasses, vars, procVars,
       QueueInv, TypeOK
  <2>2. /\ stop_requested' \in BOOLEAN /\ cancelled' \in BOOLEAN
        /\ expired' \in BOOLEAN
    BY <1>1, Zenon DEF HandlerFlag, HandlerCancel, DeadlinePasses, vars, procVars,
       QueueInv, TypeOK
  <2>3. PositionsAgree' /\ InOrder'
    BY <2>1, OrderFrame DEF QueueInv, QueueUnchanged, queueVars, ghostVars
  <2>4. TypeOK' /\ SlotReady' /\ HoldsBlock'
    BY <2>1, <2>2 DEF QueueInv, TypeOK, SlotReady, HoldsBlock, Reading, Writing,
       queueVars, radioVars, mainVars, ghostVars
  <2>5. QED
    BY <2>3, <2>4 DEF QueueInv
<1>2. CASE Radio
  BY <1>2, RadioInv
<1>3. CASE MainThread
  BY <1>3, MainInv
<1>4. QED
  BY <1>1, <1>2, <1>3 DEF Next, Ended

-----------------------------------------------------------------------------
\* Type correctness, and the two invariants that make the queue correct: the
\* slot under the decoder is not the one the radio fills, and the queued slots
\* hold the next blocks in order.
THEOREM QueueCorrect == Spec => [](TypeOK /\ NoSharedSlot /\ InOrder)
<1>1. QueueInv => TypeOK /\ NoSharedSlot /\ InOrder
  BY DEF QueueInv, HoldsBlock, NoSharedSlot
<1>2. QED
  BY <1>1, InitQueueInv, NextQueueInv, PTL DEF Spec

-----------------------------------------------------------------------------
\* The block main holds is the next one after those it released.
LEMMA HeldBlock ==
  ASSUME QueueInv
  PROVE  Held = IF Reading THEN released + 1 ELSE 0
<1> USE DEF QueueInv
<1>1. CASE Reading
  <2>1. /\ read_pos \in Slots /\ write_pos \in Slots /\ read_pos # write_pos
        /\ released \in Nat /\ 0 \in Slots
    BY <1>1, QueueAssumption DEF TypeOK, HoldsBlock, Slots
  <2>2. 0 < Depth(read_pos, write_pos)
    <3>1. Depth(read_pos, write_pos) =
            IF write_pos >= read_pos THEN write_pos - read_pos
            ELSE write_pos + NumBlocks - read_pos
      BY <2>1, DepthValue
    <3>2. QED
      BY <2>1, <3>1, QueueAssumption DEF Slots
  <2>3. (read_pos + 0) % NumBlocks = read_pos
    <3>1. (read_pos + 0) % NumBlocks = IF read_pos + 0 < NumBlocks
                                       THEN read_pos + 0
                                       ELSE read_pos + 0 - NumBlocks
      BY <2>1, SlotAt
    <3>2. QED
      BY <2>1, <3>1, QueueAssumption DEF Slots
  <2>4. blocks[(read_pos + 0) % NumBlocks] = released + 0 + 1
    BY <2>1, <2>2 DEF InOrder
  <2>5. QED
    BY <1>1, <2>1, <2>3, <2>4 DEF Held
<1>2. CASE ~Reading
  BY <1>2 DEF Held
<1>3. QED
  BY <1>1, <1>2

\* The queue never holds more than Capacity blocks, and a held one is queued.
LEMMA ChannelBounds ==
  ASSUME QueueInv
  PROVE  /\ published - released \in 0 .. NumBlocks - 1
         /\ Reading => released < published
         /\ Writing => published - released < NumBlocks - 1
<1> USE DEF QueueInv
<1>1. /\ read_pos \in Slots /\ write_pos \in Slots /\ NumBlocks \in Nat
      /\ published \in Nat /\ released \in Nat
      /\ Depth(read_pos, write_pos) \in Slots
  BY QueueAssumption, DepthValue DEF TypeOK
<1>2. published - released = Depth(read_pos, write_pos)
  BY DEF PositionsAgree
<1>3. Reading => Depth(read_pos, write_pos) > 0
  <2>1. Depth(read_pos, write_pos) =
          IF write_pos >= read_pos THEN write_pos - read_pos
          ELSE write_pos + NumBlocks - read_pos
    BY <1>1, DepthValue
  <2>2. QED
    BY <1>1, <2>1 DEF HoldsBlock, Slots
<1>4. Writing => Depth(read_pos, write_pos) < NumBlocks - 1
  <2> SUFFICES ASSUME Writing PROVE Depth(read_pos, write_pos) < NumBlocks - 1
    OBVIOUS
  <2>1. Succ(write_pos) \in Slots
    BY <1>1, SuccStep
  <2>2. Depth(read_pos, Succ(write_pos)) \in Slots
    BY <1>1, <2>1, DepthValue
  <2>3. Depth(read_pos, Succ(write_pos)) = Depth(read_pos, write_pos) + 1
    BY <1>1, DepthGrows DEF SlotReady
  <2>4. QED
    BY <1>1, <2>2, <2>3 DEF Slots
<1>5. QED
  BY <1>1, <1>2, <1>3, <1>4 DEF Slots

\* Every step of the two threads, of the handler and of time is a step of the
\* abstract channel or leaves it alone.
LEMMA ChannelStep ==
  ASSUME QueueInv, QueueInv', [Next]_vars
  PROVE  [Channel!Next]_(Channel!vars)
<1> USE DEF MainGo, RadioGo
<1>0. /\ Held = IF Reading THEN released + 1 ELSE 0
      /\ Held' = IF Reading' THEN released' + 1 ELSE 0
      /\ released \in Nat /\ released' \in Nat
  <2>1. Held = IF Reading THEN released + 1 ELSE 0
    BY HeldBlock
  <2>2. (Held = IF Reading THEN released + 1 ELSE 0)'
    BY HeldBlock, PTL
  <2>3. QED
    BY <2>1, <2>2 DEF QueueInv, TypeOK
<1>1. CASE PublishBlock
  <2>1. published - released < NumBlocks - 1 /\ Reading' = Reading
    BY <1>1, ChannelBounds DEF PublishBlock, Writing, Reading, mainVars
  <2>2. Held' = Held
    BY <1>0, <1>1, <2>1 DEF PublishBlock
  <2>3. QED
    BY <1>1, <2>1, <2>2 DEF PublishBlock, Channel!Next, Channel!Publish
<1>2. CASE Acquire
  <2>1. ~Reading /\ Reading' /\ UNCHANGED <<published, released>>
    BY <1>2 DEF Acquire, Reading, ghostVars
  <2>2. released' < published'
    <3>1. (Reading => released < published)'
      BY ChannelBounds, PTL
    <3>2. QED
      BY <2>1, <3>1
  <2>3. QED
    BY <1>0, <2>1, <2>2 DEF Channel!Next, Channel!Take, Channel!None
<1>3. CASE Release
  <2>1. /\ Reading /\ ~Reading' /\ released' = released + 1
        /\ UNCHANGED published
    BY <1>3 DEF Release, Reading
  <2>2. QED
    BY <1>0, <2>1 DEF Channel!Next, Channel!Return, Channel!None
<1>4. CASE UseFail
  <2>1. Reading /\ ~Reading' /\ UNCHANGED <<published, released>>
    BY <1>4 DEF UseFail, Reading
  <2>2. QED
    BY <1>0, <2>1 DEF Channel!Next, Channel!Abandon, Channel!None
<1>5. CASE Radio /\ ~PublishBlock
  <2>1. UNCHANGED <<published, released, main>>
    BY <1>5 DEF Radio, CheckStop, QueueFull, ReadStart, ReadOk, ReadTimeout,
       ReadFail, ReadFailed, CaptureOk, CaptureFail, CountSamples, MarkHighWater,
       Finish, mainVars, ghostVars
  <2>2. Held' = Held
    BY <1>0, <2>1 DEF Reading
  <2>3. QED
    BY <2>1, <2>2 DEF Channel!vars
<1>6. CASE MainThread /\ ~Acquire /\ ~Release /\ ~UseFail
  <2> USE DEF Reading, ghostVars
  <2> DEFINE Same == UNCHANGED <<published, released>> /\ Reading' = Reading
  <2>1. StartOk \/ StartFail \/ LoopTop \/ AcquireEmpty
          => Same
    BY DEF StartOk, StartFail, LoopTop, AcquireEmpty
  <2>2. AcquireDone \/ AcquireResult
          => Same
    BY DEF AcquireDone, AcquireResult
  <2>3. StatsPositions \/ StatsReceived \/ StatsHighWater => Same
    BY DEF StatsPositions, StatsReceived, StatsHighWater
  <2>4. UseBlock => Same
    <3>1. UseBlock => UNCHANGED <<published, released>> /\ Reading /\ Reading'
      BY DEF UseBlock
    <3>2. QED
      BY <3>1
  <2>5. FlushOk \/ FlushFail \/ StopQueue \/ StopCancel \/ StopJoin
          => Same
    BY DEF FlushOk, FlushFail, StopQueue, StopCancel, StopJoin
  <2>6. Same
    BY <1>6, <2>1, <2>2, <2>3, <2>5, <2>4 DEF MainThread
  <2>7. Held' = Held
    BY <1>0, <2>6
  <2>8. QED
    BY <2>6, <2>7 DEF Channel!vars
<1>7. CASE HandlerFlag \/ HandlerCancel \/ DeadlinePasses \/ UNCHANGED vars
  <2>1. UNCHANGED <<published, released, main>>
    BY <1>7 DEF HandlerFlag, HandlerCancel, DeadlinePasses, mainVars, ghostVars,
       vars
  <2>2. Held' = Held
    BY <1>0, <2>1 DEF Reading
  <2>3. QED
    BY <2>1, <2>2 DEF Channel!vars
<1>8. QED
  BY <1>1, <1>2, <1>3, <1>4, <1>5, <1>6, <1>7 DEF Next, Ended

\* The queue implements the abstract channel: blocks come out one at a time,
\* whole, in order, each once.
THEOREM QueueImplementsChannel == Spec => ImplementsChannel
<1>1. Init => Channel!Init
  BY DEF Init, Channel!Init, Held, Reading, Channel!None
<1>2. QueueInv /\ QueueInv' /\ [Next]_vars => [Channel!Next]_(Channel!vars)
  BY ChannelStep
<1>3. QED
  BY <1>1, <1>2, InitQueueInv, NextQueueInv, PTL
     DEF Spec, ImplementsChannel, Channel!Spec

-----------------------------------------------------------------------------
(* The exit status *)

\* The places of main before it knows how the program ends, and after.
Early == {"start", "loop", "poll", "use", "stats", "stats2", "decode", "release", "end",
          "result"}
Late == {"out", "cancel", "join", "exited"}

\* Who raised which flag before whom: the radio thread sets error before done, the
\* handler sets stop_requested before it cancels, main sets stop before it does.
FlagOrder ==
  /\ main = "start" => radio = "none"
  /\ done => radio = "exited"
  /\ main = "result" => done
  /\ stop => main \in {"cancel", "join", "exited"}
  /\ main = "cancel" => stop
  /\ handler = "flagged" => stop_requested
  /\ cancelled => stop \/ stop_requested

\* What a failure leaves behind: error, unless the radio thread is still about to
\* set it, and from error a cause.
Causes ==
  /\ radio = "failed" => genuine \/ cancelled
  /\ error => genuine \/ stop_requested
  /\ genuine /\ main \in Early => error \/ radio = "failed"

\* What main has decided, and why it may.
Decision ==
  /\ main \notin Late => status = 1
  /\ main \in Late /\ status = 1 => genuine
  /\ main = "flush" \/ (main \in Late /\ status = 0) =>
       stop_requested \/ (~genuine /\ radio = "exited")

ExitInv == FlagOrder /\ Causes /\ Decision

\* The flags of the program are Booleans.
Flags == /\ stop \in BOOLEAN /\ done \in BOOLEAN /\ error \in BOOLEAN
         /\ stop_requested \in BOOLEAN /\ cancelled \in BOOLEAN /\ genuine \in BOOLEAN

\* Nothing has happened yet.
LEMMA InitExitInv == Init => ExitInv
BY DEF Init, ExitInv, FlagOrder, Causes, Decision, Early, Late

\* The radio thread's steps keep the order of the flags and leave a cause.
LEMMA RadioExit ==
  ASSUME Flags, ExitInv, Radio
  PROVE  ExitInv'
<1>1. CASE CheckStop \/ QueueFull \/ ReadStart \/ ReadOk \/ ReadTimeout \/ CaptureOk
           \/ PublishBlock \/ CountSamples \/ MarkHighWater
  <2>1. /\ UNCHANGED <<stop, done, error, main, status, handler, stop_requested,
                       cancelled, genuine>>
        /\ radio \notin {"none", "failed", "exited"} /\ radio' \notin {"none", "failed", "exited"}
    BY <1>1 DEF CheckStop, QueueFull, ReadStart, ReadOk, ReadTimeout, CaptureOk,
                PublishBlock, CountSamples, MarkHighWater, RadioGo, queueVars, mainVars,
                procVars, ghostVars
  <2> QED BY <2>1 DEF ExitInv, FlagOrder, Causes, Decision
<1>2. CASE ReadFail
  <2>1. /\ UNCHANGED <<stop, done, error, main, status, handler, stop_requested, cancelled>>
        /\ radio = "read" /\ radio' = "failed" /\ genuine' = (genuine \/ ~cancelled)
    BY <1>2 DEF ReadFail, RadioGo, queueVars, mainVars, procVars
  <2> QED BY <2>1 DEF Flags, ExitInv, FlagOrder, Causes, Decision
<1>3. CASE ReadFailed
  <2>1. /\ UNCHANGED <<stop, done, main, status, handler, stop_requested, cancelled, genuine>>
        /\ radio = "failed" /\ radio' = "finish" /\ error' = (error \/ ~stop)
    BY <1>3 DEF ReadFailed, RadioGo, mainVars, procVars, ghostVars
  <2> QED BY <2>1 DEF Flags, ExitInv, FlagOrder, Causes, Decision, Early
<1>4. CASE CaptureFail
  <2>1. /\ UNCHANGED <<stop, done, main, status, handler, stop_requested, cancelled>>
        /\ radio = "capture" /\ radio' = "finish" /\ error' = TRUE /\ genuine' = TRUE
    BY <1>4 DEF CaptureFail, RadioGo, mainVars, procVars
  <2> QED BY <2>1 DEF ExitInv, FlagOrder, Causes, Decision
<1>5. CASE Finish
  <2>1. /\ UNCHANGED <<stop, error, main, status, handler, stop_requested, cancelled, genuine>>
        /\ radio = "finish" /\ radio' = "exited" /\ done' = TRUE
    BY <1>5 DEF Finish, RadioGo, mainVars, procVars, ghostVars
  <2> QED BY <2>1 DEF ExitInv, FlagOrder, Causes, Decision
<1> QED BY <1>1, <1>2, <1>3, <1>4, <1>5 DEF Radio

\* The main thread decides for success only when no failure can be missed, and for
\* failure only when there was one.
LEMMA MainExit ==
  ASSUME Flags, ExitInv, MainThread
  PROVE  ExitInv'
<1>1. CASE StartOk
  <2>1. /\ UNCHANGED <<stop, done, error, status, handler, stop_requested, cancelled, genuine>>
        /\ main = "start" /\ main' = "loop" /\ radio' = "check"
    BY <1>1 DEF StartOk, MainGo, queueVars, procVars, ghostVars
  <2> QED BY <2>1 DEF ExitInv, FlagOrder, Causes, Decision, Early, Late
<1>2. CASE StartFail \/ UseFail \/ FlushFail
  <2>1. /\ UNCHANGED <<stop, done, error, radio, status, handler, stop_requested, cancelled>>
        /\ main \in {"start", "use", "decode", "flush"} /\ main' \in {"exited", "out"}
        /\ genuine' = TRUE
    BY <1>2 DEF StartFail, UseFail, FlushFail, MainGo, queueVars, radioVars, procVars
  <2> QED BY <2>1 DEF ExitInv, FlagOrder, Causes, Decision, Early, Late
<1>3. CASE Acquire \/ AcquireEmpty \/ StatsPositions \/ StatsReceived
           \/ StatsHighWater \/ Release
  <2>1. /\ UNCHANGED <<stop, done, error, radio, status, handler, stop_requested, cancelled,
                       genuine>>
        /\ main \in Early /\ main' \in Early \ {"start", "result"}
    BY <1>3 DEF Acquire, AcquireEmpty, StatsPositions, StatsReceived, StatsHighWater,
                Release, MainGo, queueVars, radioVars, procVars, ghostVars, Early
  <2> QED BY <2>1 DEF ExitInv, FlagOrder, Causes, Decision, Early, Late
<1>4. CASE LoopTop
  <2>1. /\ UNCHANGED <<stop, done, error, radio, status, handler, stop_requested, cancelled,
                       genuine>>
        /\ main = "loop" /\ main' = IF stop_requested THEN "flush" ELSE "poll"
    BY <1>4 DEF LoopTop, MainGo, queueVars, radioVars, procVars, ghostVars
  <2> QED BY <2>1 DEF ExitInv, FlagOrder, Causes, Decision, Early, Late
<1>5. CASE AcquireDone
  <2>1. /\ UNCHANGED <<stop, done, error, radio, status, handler, stop_requested, cancelled,
                       genuine>>
        /\ main = "end" /\ main' = IF done THEN "result" ELSE "poll"
    BY <1>5 DEF AcquireDone, MainGo, queueVars, radioVars, procVars, ghostVars
  <2> QED BY <2>1 DEF ExitInv, FlagOrder, Causes, Decision, Early, Late
<1>6. CASE AcquireResult
  <2>1. /\ UNCHANGED <<stop, done, error, radio, status, handler, stop_requested, cancelled,
                       genuine>>
        /\ main = "result"
        /\ main' = IF error /\ ~stop_requested THEN "out" ELSE "flush"
    BY <1>6 DEF AcquireResult, MainGo, queueVars, radioVars, procVars, ghostVars
  <2>2. radio = "exited" /\ status = 1 /\ (genuine => error)
    BY <2>1 DEF ExitInv, FlagOrder, Causes, Decision, Early, Late
  <2> QED BY <2>1, <2>2 DEF Flags, ExitInv, FlagOrder, Causes, Decision, Early, Late
<1>7. CASE UseBlock
  <2>1. /\ UNCHANGED <<stop, done, error, radio, status, handler, cancelled, genuine>>
        /\ main \in {"use", "decode"} /\ main' = "release"
        /\ stop_requested' \in {stop_requested, TRUE}
    BY <1>7 DEF UseBlock, queueVars, radioVars, ghostVars
  <2>2. CASE stop_requested' = stop_requested
    BY <2>1, <2>2 DEF ExitInv, FlagOrder, Causes, Decision, Early, Late
  <2>3. CASE stop_requested' = TRUE
    BY <2>1, <2>3 DEF ExitInv, FlagOrder, Causes, Decision, Early, Late
  <2> QED BY <2>1, <2>2, <2>3
<1>8. CASE FlushOk
  <2>1. /\ UNCHANGED <<stop, done, error, radio, handler, stop_requested, cancelled, genuine>>
        /\ main = "flush" /\ main' = "out" /\ status' = 0
    BY <1>8 DEF FlushOk, MainGo, queueVars, radioVars, procVars, ghostVars
  <2> QED BY <2>1 DEF ExitInv, FlagOrder, Causes, Decision, Early, Late
<1>9. CASE StopQueue
  <2>1. /\ UNCHANGED <<done, error, radio, status, handler, stop_requested, cancelled, genuine>>
        /\ main = "out" /\ main' = "cancel" /\ stop' = TRUE
    BY <1>9 DEF StopQueue, MainGo, radioVars, procVars, ghostVars
  <2> QED BY <2>1 DEF ExitInv, FlagOrder, Causes, Decision, Early, Late
<1>10. CASE StopCancel
  <2>1. /\ UNCHANGED <<stop, done, error, radio, status, handler, stop_requested, genuine>>
        /\ main = "cancel" /\ main' = "join" /\ cancelled' = TRUE
    BY <1>10 DEF StopCancel, MainGo, queueVars, radioVars, ghostVars
  <2> QED BY <2>1 DEF ExitInv, FlagOrder, Causes, Decision, Early, Late
<1>11. CASE StopJoin
  <2>1. /\ UNCHANGED <<stop, done, error, radio, status, handler, stop_requested, cancelled,
                       genuine>>
        /\ main = "join" /\ main' = "exited"
    BY <1>11 DEF StopJoin, MainGo, queueVars, radioVars, procVars, ghostVars
  <2> QED BY <2>1 DEF ExitInv, FlagOrder, Causes, Decision, Early, Late
<1> QED BY <1>1, <1>2, <1>3, <1>4, <1>5, <1>6, <1>7, <1>8, <1>9, <1>10, <1>11
        DEF MainThread

\* Every step keeps the invariant, the handler's too, which raises its flag first.
LEMMA NextExitInv == Flags /\ ExitInv /\ [Next]_vars => ExitInv'
<1> SUFFICES ASSUME Flags, ExitInv, [Next]_vars PROVE ExitInv'
  OBVIOUS
<1>1. CASE Radio
  BY <1>1, RadioExit
<1>2. CASE MainThread
  BY <1>2, MainExit
<1>3. CASE HandlerFlag
  <2>1. /\ UNCHANGED <<stop, done, error, radio, main, status, cancelled, genuine>>
        /\ stop_requested' = TRUE
    BY <1>3 DEF HandlerFlag, queueVars, radioVars, mainVars, ghostVars
  <2> QED BY <2>1 DEF ExitInv, FlagOrder, Causes, Decision
<1>4. CASE HandlerCancel
  <2>1. /\ UNCHANGED <<stop, done, error, radio, main, status, stop_requested, genuine>>
        /\ handler = "flagged" /\ handler' = "returned"
        /\ cancelled => cancelled'
    BY <1>4 DEF HandlerCancel, queueVars, radioVars, mainVars, ghostVars
  <2> QED BY <2>1 DEF ExitInv, FlagOrder, Causes, Decision
<1>5. CASE DeadlinePasses \/ Ended \/ UNCHANGED vars
  <2>1. UNCHANGED <<stop, done, error, radio, main, status, handler, stop_requested,
                    cancelled, genuine>>
    BY <1>5 DEF DeadlinePasses, Ended, vars, queueVars, radioVars, mainVars, procVars,
                ghostVars
  <2> QED BY <2>1 DEF ExitInv, FlagOrder, Causes, Decision
<1> QED BY <1>1, <1>2, <1>3, <1>4, <1>5 DEF Next

\* A stop request alone never makes the program fail, and a failure does unless a
\* stop was asked for.
THEOREM ExitIsTrue == Spec => []ExitStatusTrue
<1>1. QueueInv => Flags
  BY DEF QueueInv, TypeOK, Flags
<1>2. ExitInv => ExitStatusTrue
  BY DEF ExitInv, Decision, ExitStatusTrue, Late
<1> QED BY <1>1, <1>2, InitQueueInv, NextQueueInv, InitExitInv, NextExitInv, PTL DEF Spec

\* TypeOK: pluto_rx_queue_start, acquire, release and receive_loop keep the
\* positions inside the ring and every flag in its type.
THEOREM QueueTypes == Spec => []TypeOK
<1> QED BY QueueCorrect, PTL

\* The slot the radio fills is never the one under the decoder.
THEOREM NeverShared == Spec => []NoSharedSlot
BY QueueCorrect, PTL
-----------------------------------------------------------------------------
(* The counters *)

\* What is counted lags behind what is published by one block at most, and a
\* queue that is full and not yet known to be has filled since it was last counted.
Counted ==
  /\ backpressure > 0 => backpressure + NumBlocks - 2 <= published
  /\ published - released = NumBlocks - 1 /\ ~queue_full =>
       backpressure + NumBlocks - 1 <= published
  /\ Writing => ~queue_full
  /\ published <= received + 1
  /\ radio # "count" => published <= received
  /\ published - released <= high_water + 1
  /\ radio \notin {"count", "depth"} => published - released <= high_water

\* What the status line shows of it.
Shown ==
  /\ main \in {"stats", "stats2"} => report.queued <= high_water + 1
  /\ main = "stats2" => report.received >= released
  /\ main = "decode" => report.queued <= report.high + 1

CountInv == Counted /\ Shown

\* The numbers the counters are compared with.
LEMMA CountTypes ==
  ASSUME QueueInv
  PROVE  /\ NumBlocks \in Nat /\ NumBlocks >= 2
         /\ published \in Nat /\ released \in Nat /\ received \in Nat
         /\ high_water \in Nat /\ backpressure \in Nat /\ queue_full \in BOOLEAN
         /\ report \in [queued : Slots, received : Nat, high : Nat]
         /\ Depth(read_pos, write_pos) \in Slots
         /\ Depth(read_pos, write_pos) = published - released
         /\ Reading => released < published
         /\ Succ(write_pos) = read_pos <=> published - released = NumBlocks - 1
<1>1. /\ NumBlocks \in Nat /\ NumBlocks >= 2 /\ read_pos \in Slots /\ write_pos \in Slots
  BY QueueAssumption DEF QueueInv, TypeOK
<1>2. /\ published \in Nat /\ released \in Nat /\ received \in Nat
      /\ high_water \in Nat /\ backpressure \in Nat /\ queue_full \in BOOLEAN
      /\ report \in [queued : Slots, received : Nat, high : Nat]
  BY QueueAssumption DEF QueueInv, TypeOK
<1>3. /\ Depth(read_pos, write_pos) \in Slots
      /\ Depth(read_pos, write_pos) = IF write_pos >= read_pos THEN write_pos - read_pos
                                      ELSE write_pos + NumBlocks - read_pos
  BY <1>1, DepthValue
<1>4. Depth(read_pos, write_pos) = published - released
  BY DEF QueueInv, PositionsAgree
<1>5. Reading => published - released > 0
  <2>1. Reading => read_pos # write_pos
    BY DEF QueueInv, HoldsBlock
  <2> QED BY <1>1, <1>3, <1>4, <2>1 DEF Slots
<1>6. Succ(write_pos) = read_pos <=> published - released = NumBlocks - 1
  <2>1. Succ(write_pos) = IF write_pos + 1 = NumBlocks THEN 0 ELSE write_pos + 1
    BY <1>1, SuccStep
  <2>2. Succ(write_pos) = read_pos <=> Depth(read_pos, write_pos) = NumBlocks - 1
    BY <1>1, <1>3, <2>1 DEF Slots
  <2> QED BY <1>4, <2>2
<1> QED BY <1>1, <1>2, <1>3, <1>4, <1>5, <1>6

\* Nothing is counted at first.
LEMMA InitCountInv == Init => CountInv
BY QueueAssumption DEF Init, CountInv, Counted, Shown, Writing

\* The radio thread counts each block once, and each time the queue fills.
LEMMA RadioCount ==
  ASSUME QueueInv, QueueInv', CountInv, Radio
  PROVE  CountInv'
<1> USE CountTypes
<1>1. CASE CheckStop \/ ReadOk \/ ReadTimeout \/ ReadFail \/ ReadFailed \/ CaptureOk
           \/ CaptureFail \/ Finish
  <2>1. /\ UNCHANGED <<published, released, backpressure, queue_full, received, high_water,
                       main, report>>
        /\ radio \notin {"count", "depth"} /\ radio' \notin {"count", "depth"}
        /\ Writing' => Writing
    BY <1>1 DEF CheckStop, ReadOk, ReadTimeout, ReadFail, ReadFailed, CaptureOk,
                CaptureFail, Finish, RadioGo, queueVars, mainVars, ghostVars, Writing
  <2> QED BY <2>1 DEF CountInv, Counted, Shown
<1>2. CASE QueueFull
  <2>1. /\ UNCHANGED <<published, released, received, high_water, main, report>>
        /\ radio = "space" /\ radio' = "check" /\ ~Writing' /\ queue_full' = TRUE
        /\ backpressure' = IF queue_full THEN backpressure ELSE backpressure + 1
        /\ published - released = NumBlocks - 1
    BY <1>2 DEF QueueFull, RadioGo, mainVars, ghostVars, Writing
  <2>2. backpressure' > 0 => backpressure' + NumBlocks - 2 <= published
    BY <2>1 DEF CountInv, Counted
  <2> QED BY <2>1, <2>2 DEF CountInv, Counted, Shown
<1>3. CASE ReadStart
  <2>1. /\ UNCHANGED <<published, released, backpressure, received, high_water, main, report>>
        /\ radio = "space" /\ radio' = "read" /\ queue_full' = FALSE
        /\ published - released # NumBlocks - 1
    BY <1>3 DEF ReadStart, RadioGo, mainVars, ghostVars
  <2> QED BY <2>1 DEF CountInv, Counted, Shown
<1>4. CASE PublishBlock
  <2>1. /\ UNCHANGED <<released, backpressure, queue_full, received, high_water, main, report>>
        /\ radio = "publish" /\ radio' = "count" /\ ~Writing' /\ published' = published + 1
    BY <1>4 DEF PublishBlock, RadioGo, mainVars, Writing
  <2> QED BY <2>1 DEF CountInv, Counted, Shown
<1>5. CASE CountSamples
  <2>1. /\ UNCHANGED <<published, released, backpressure, queue_full, high_water, main, report>>
        /\ radio = "count" /\ radio' = "depth" /\ ~Writing' /\ received' = received + 1
    BY <1>5 DEF CountSamples, RadioGo, mainVars, ghostVars, Writing
  <2> QED BY <2>1 DEF CountInv, Counted, Shown
<1>6. CASE MarkHighWater
  <2>1. /\ UNCHANGED <<published, released, backpressure, queue_full, received, main, report>>
        /\ radio = "depth" /\ radio' = "check" /\ ~Writing'
        /\ high_water' = Larger(high_water, published - released)
    BY <1>6 DEF MarkHighWater, RadioGo, mainVars, ghostVars, Writing
  <2>2. high_water' >= high_water /\ high_water' >= published - released /\ high_water' \in Int
    BY <2>1 DEF Larger
  <2>3. Counted'
    BY <2>1, <2>2 DEF CountInv, Counted
  <2>4. report.queued \in Int
    BY DEF Slots
  <2>5. Shown'
    BY <2>1, <2>2, <2>4 DEF CountInv, Shown
  <2> QED BY <2>3, <2>5 DEF CountInv
<1> QED BY <1>1, <1>2, <1>3, <1>4, <1>5, <1>6 DEF Radio

\* The main thread shows what it reads of the counters one after the other.
LEMMA MainCount ==
  ASSUME QueueInv, QueueInv', FlagOrder, CountInv, MainThread
  PROVE  CountInv'
<1> USE CountTypes
<1> DEFINE Same == UNCHANGED <<published, released, backpressure, queue_full, received,
                               high_water>>
<1>1. CASE StartOk
  <2>1. Same /\ main' = "loop" /\ radio' = "check"
    BY <1>1 DEF StartOk, MainGo, queueVars, ghostVars
  <2>2. published - released <= high_water /\ published <= received
    BY <1>1 DEF StartOk, MainGo, FlagOrder, CountInv, Counted
  <2> QED BY <2>1, <2>2 DEF CountInv, Counted, Shown, Writing
<1>2. CASE StatsPositions
  <2>1. Same /\ UNCHANGED radio /\ main' = "stats"
        /\ report' = [report EXCEPT !.queued = published - released]
    BY <1>2 DEF StatsPositions, MainGo, queueVars, radioVars, ghostVars
  <2>2. report'.queued = published - released
    BY <2>1
  <2> QED BY <2>1, <2>2 DEF CountInv, Counted, Shown, Writing
<1>3. CASE StatsReceived
  <2>1. Same /\ UNCHANGED radio /\ main = "stats" /\ main' = "stats2"
        /\ report' = [report EXCEPT !.received = received]
    BY <1>3 DEF StatsReceived, MainGo, queueVars, radioVars, ghostVars
  <2>2. report'.queued = report.queued /\ report'.received = received
    BY <2>1
  <2>3. released < published /\ published <= received + 1
    BY <2>1 DEF Reading, CountInv, Counted
  <2>4. received >= released
    BY <2>3
  <2> QED BY <2>1, <2>2, <2>4 DEF CountInv, Counted, Shown, Writing
<1>4. CASE StatsHighWater
  <2>1. Same /\ UNCHANGED radio /\ main = "stats2" /\ main' = "decode"
        /\ report' = [report EXCEPT !.high = high_water]
    BY <1>4 DEF StatsHighWater, MainGo, queueVars, radioVars, ghostVars
  <2>2. report'.queued = report.queued /\ report'.high = high_water
    BY <2>1
  <2> QED BY <2>1, <2>2 DEF CountInv, Counted, Shown, Writing
<1>5. CASE Release
  <2>1. /\ UNCHANGED <<published, backpressure, queue_full, received, high_water, radio>>
        /\ main = "release" /\ main' = "loop" /\ released' = released + 1
    BY <1>5 DEF Release, MainGo, radioVars
  <2>2. published - released <= NumBlocks - 1
    BY DEF Slots
  <2> QED BY <2>1, <2>2 DEF CountInv, Counted, Shown, Writing
<1>6. CASE \/ StartFail \/ LoopTop \/ Acquire \/ AcquireEmpty \/ AcquireDone
           \/ AcquireResult \/ UseBlock \/ UseFail \/ FlushOk \/ FlushFail
           \/ StopQueue \/ StopCancel \/ StopJoin
  <2>1. Same /\ UNCHANGED <<radio, report>> /\ main' \notin {"stats", "stats2", "decode"}
    BY <1>6 DEF StartFail, LoopTop, Acquire, AcquireEmpty, AcquireDone, AcquireResult,
                UseBlock, UseFail, FlushOk, FlushFail, StopQueue, StopCancel, StopJoin,
                MainGo, queueVars, radioVars, ghostVars
  <2> QED BY <2>1 DEF CountInv, Counted, Shown, Writing
<1> QED BY <1>1, <1>2, <1>3, <1>4, <1>5, <1>6 DEF MainThread

\* Every step keeps the counters within a block of the queue.
LEMMA NextCountInv ==
  QueueInv /\ QueueInv' /\ ExitInv /\ CountInv /\ [Next]_vars => CountInv'
<1> SUFFICES ASSUME QueueInv, QueueInv', FlagOrder, CountInv, [Next]_vars PROVE CountInv'
  BY DEF ExitInv
<1>1. CASE Radio
  BY <1>1, RadioCount
<1>2. CASE MainThread
  BY <1>2, MainCount
<1>3. CASE HandlerFlag \/ HandlerCancel \/ DeadlinePasses \/ Ended \/ UNCHANGED vars
  <2>1. UNCHANGED <<published, released, backpressure, queue_full, received, high_water,
                    radio, main, report>>
    BY <1>3 DEF HandlerFlag, HandlerCancel, DeadlinePasses, Ended, vars, queueVars,
                radioVars, mainVars, ghostVars
  <2> QED BY <2>1 DEF CountInv, Counted, Shown, Writing
<1> QED BY <1>1, <1>2, <1>3 DEF Next

\* A full queue counts once each time it fills.
THEOREM EpisodesCounted == Spec => []BackpressureEpisodes
<1>1. CountInv => BackpressureEpisodes
  BY DEF CountInv, Counted, BackpressureEpisodes
<1>2. QueueInv => Flags
  BY DEF QueueInv, TypeOK, Flags
<1> QED BY <1>1, <1>2, InitQueueInv, NextQueueInv, InitExitInv, NextExitInv, InitCountInv,
           NextCountInv, PTL DEF Spec

\* What the status line shows is at most one block apart.
THEOREM ReportIsCoherent == Spec => []ReportCoherent
<1>1. CountInv => ReportCoherent
  BY DEF CountInv, Shown, ReportCoherent
<1>2. QueueInv => Flags
  BY DEF QueueInv, TypeOK, Flags
<1> QED BY <1>1, <1>2, InitQueueInv, NextQueueInv, InitExitInv, NextExitInv, InitCountInv,
           NextCountInv, PTL DEF Spec
=============================================================================
