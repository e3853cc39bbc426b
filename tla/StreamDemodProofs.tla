------------------------- MODULE StreamDemodProofs -------------------------
(***************************************************************************)
(* The streaming demodulator keeps its types, never calls a lock that the  *)
(* outcomes do not justify, and advances with every verdict: for every     *)
(* signal, every chunking and every choice of the lengths that             *)
(* DemodAssumption allows.  It returns every frame once and skips none     *)
(* while headers are in place: while what it looks for is less than a      *)
(* frame behind the front of its buffer.                                   *)
(***************************************************************************)
EXTENDS StreamDemod, Counting, TLAPS

USE DEF LOCK_THRESH, LOSS_THRESH, Lengths, Sent, None

\* A header found in the buffer is at an offset from its front.
LEMMA FoundOffset ==
  ASSUME NEW end, NEW i \in Found(end),
         predicted_wh_start \in Nat \cup {None}
  PROVE  i \in Sent /\ wh[i] - base \in Nat
<1>1. \A hi \in Int : \A j \in HeadersIn(0, hi) : j \in Sent /\ wh[j] - base \in Nat
  BY DEF HeadersIn
<1>2. CASE Predicted(end) # {}
  <2>1. i \in HeadersIn(0, predicted_wh_start + SearchRadius)
    BY <1>2 DEF Found, Predicted
  <2>2. predicted_wh_start + SearchRadius \in Int
    BY DemodAssumption
  <2>3. QED
    BY <1>1, <2>1, <2>2
<1>3. CASE Predicted(end) = {}
  <2>1. i \in HeadersIn(0, AcqWindow)
    BY <1>3 DEF Found
  <2>2. AcqWindow \in Int
    BY DemodAssumption
  <2>3. QED
    BY <1>1, <2>1, <2>2
<1>4. QED
  BY <1>2, <1>3

\* The length read from a header is one of the two frame lengths.
LEMMA HeaderLenType ==
  ASSUME NEW i \in Sent, TypeOK
  PROVE  HeaderLen(i) \in Lengths
<1>1. frames[i].len \in Lengths
  BY DEF TypeOK
<1>2. ShortLen \in Nat /\ LongLen \in Nat
  BY DemodAssumption
<1>3. QED
  BY <1>1, <1>2 DEF HeaderLen

\* What a removal takes out of the buffer: something, and not more than it has.
LEMMA RemoveBounds ==
  ASSUME NEW n \in Nat, NEW len \in Nat, TypeOK, Ready(n), Remove(n, len)
  PROVE  base' \in Nat /\ base < base' /\ base' <= fed + n
<1>1. /\ base \in Nat /\ fed \in Nat /\ AcqWindow \in Nat /\ WHLen \in Nat
      /\ ShortLen \in Nat /\ Pad \in Nat /\ PLLen \in Nat
  BY DemodAssumption DEF TypeOK
<1>2. AcqWindow - WHLen > 0 /\ ShortLen > 0
  BY <1>1, DemodAssumption
<1>3. fed + n - base >= ShortLen
  BY DEF Ready
<1>4. CASE len \in 1 .. fed + n - base
  <2>1. base' = base + len
    BY <1>4 DEF Remove
  <2>2. QED
    BY <1>1, <1>4, <2>1
<1>5. CASE len \notin 1 .. fed + n - base /\ AcqWindow - WHLen > fed + n - base
  <2>1. base' = base + (fed + n - base)
    BY <1>5 DEF Remove, Searched
  <2>2. QED
    BY <1>1, <1>2, <1>3, <2>1
<1>6. CASE len \notin 1 .. fed + n - base /\ ~(AcqWindow - WHLen > fed + n - base)
  <2>1. base' = base + (AcqWindow - WHLen)
    BY <1>6 DEF Remove, Searched
  <2>2. QED
    BY <1>1, <1>2, <1>6, <2>1
<1>7. QED
  BY <1>4, <1>5, <1>6

\* The part of TypeOK and LockInv that the lock state machine writes.
LockType ==
  /\ state \in {"SEARCH", "ACQUIRE", "TRACK"}
  /\ consecutive_successes \in 0 .. LOCK_THRESH
  /\ consecutive_failures \in 0 .. LOSS_THRESH
  /\ outcomes \in [1 .. 3 -> {"ok", "fail", "none"}]

\* What LockFollowsOutcomes asks of a step.
LockStep ==
  /\ Thrice("ok")' => state' = "TRACK"
  /\ Thrice("fail")' => state' # "TRACK"
  /\ state # "TRACK" /\ state' = "TRACK" => Thrice("ok")'
  /\ state = "TRACK" /\ state' # "TRACK" => Thrice("fail")'

\* LockInv with its quantifiers over 1 .. 3 written out.
LockFacts ==
  /\ consecutive_successes >= 1 <=> outcomes[1] = "ok"
  /\ consecutive_successes >= 2 <=> outcomes[1] = "ok" /\ outcomes[2] = "ok"
  /\ consecutive_successes >= 3 <=>
       outcomes[1] = "ok" /\ outcomes[2] = "ok" /\ outcomes[3] = "ok"
  /\ state # "TRACK" => consecutive_successes < 3
  /\ state = "TRACK" =>
       /\ consecutive_failures < 3
       /\ consecutive_failures >= 1 <=> outcomes[1] = "fail"
       /\ consecutive_failures >= 2 <=>
            outcomes[1] = "fail" /\ outcomes[2] = "fail"
       /\ consecutive_failures >= 3 <=>
            outcomes[1] = "fail" /\ outcomes[2] = "fail" /\ outcomes[3] = "fail"

\* It is the same.
LEMMA LockInvSpelled == LockInv <=> LockFacts
BY DEF LockInv, LockFacts

\* A step of the lock state machine, whatever the call it belongs to.
LEMMA LockMoves ==
  ASSUME LockType, LockInv,
         LockSuccess \/ LockFailure \/ UNCHANGED <<lock, outcomes>>
  PROVE  LockType' /\ LockInv' /\ LockStep
<1>1. LockFacts /\ LockType
  BY LockInvSpelled
<1>2. CASE LockSuccess
  <2>1. outcomes' = <<"ok", outcomes[1], outcomes[2]>>
    BY <1>2 DEF LockSuccess, Outcome
  <2>2. /\ consecutive_failures' = 0
        /\ consecutive_successes' = IF consecutive_successes < 3
                                    THEN consecutive_successes + 1
                                    ELSE consecutive_successes
        /\ state' = IF state = "TRACK" \/ consecutive_successes' >= 3
                    THEN "TRACK" ELSE "ACQUIRE"
    BY <1>2 DEF LockSuccess, Count
  <2>3. LockType' /\ LockFacts' /\ LockStep
    BY <1>1, <2>1, <2>2 DEF LockType, LockFacts, LockStep, Thrice
  <2>4. QED
    BY <2>3, LockInvSpelled, PTL
<1>3. CASE LockFailure
  <2>1. outcomes' = <<"fail", outcomes[1], outcomes[2]>>
    BY <1>3 DEF LockFailure, Outcome
  <2>2. CASE LosesLock
    <3>1. /\ consecutive_successes' = 0
          /\ consecutive_failures' = 0
          /\ state' = "SEARCH"
          /\ state = "TRACK" /\ consecutive_failures + 1 >= 3
      BY <1>3, <2>2 DEF LockFailure, LosesLock
    <3>2. LockType' /\ LockFacts' /\ LockStep
      BY <1>1, <2>1, <3>1 DEF LockType, LockFacts, LockStep, Thrice
    <3>3. QED
      BY <3>2, LockInvSpelled, PTL
  <2>3. CASE ~LosesLock
    <3>1. /\ consecutive_successes' = 0
          /\ consecutive_failures' = IF consecutive_failures < 3
                                     THEN consecutive_failures + 1
                                     ELSE consecutive_failures
          /\ state' = state
          /\ state # "TRACK" \/ ~(consecutive_failures + 1 >= 3)
      BY <1>3, <2>3 DEF LockFailure, LosesLock, Count
    <3>2. LockType' /\ LockFacts' /\ LockStep
      BY <1>1, <2>1, <3>1 DEF LockType, LockFacts, LockStep, Thrice
    <3>3. QED
      BY <3>2, LockInvSpelled, PTL
  <2>4. QED
    BY <2>2, <2>3
<1>4. CASE UNCHANGED <<lock, outcomes>>
  <2>1. LockType' /\ LockFacts' /\ LockStep
    BY <1>1, <1>4 DEF LockType, LockFacts, LockStep, Thrice, lock
  <2>2. QED
    BY <2>1, LockInvSpelled, PTL
<1>5. QED
  BY <1>2, <1>3, <1>4

\* The part of TypeOK that the calls write themselves.
DataType ==
  /\ frames \in [Sent -> [len : Lengths, quality : Qualities, drift : Drifts]]
  /\ base \in Nat /\ fed \in Nat /\ base <= fed
  /\ expected_frame_len \in {0} \union Lengths
  /\ predicted_wh_start \in Nat \union {None}
  /\ modcod \in {0} \union Lengths
  /\ cancel_requested \in BOOLEAN
  /\ result \in {"OK", "SHORT", "NOSYNC", "FEC", "CANCELLED"}

\* The two parts are all of TypeOK.
LEMMA TypeParts == TypeOK <=> DataType /\ LockType
BY DEF TypeOK, DataType, LockType

\* A step either keeps the buffer's front or returns a verdict and moves it.
Advance == \/ base' > base
           \/ base' = base /\ result' = "SHORT"
           \/ base' = base /\ UNCHANGED <<fed, result, lock>>

\* A call that removes a frame, or what a search has examined.
LEMMA VerdictStep ==
  ASSUME NEW n \in Nat, NEW len \in Nat,
         NEW expect \in {0} \union Lengths,
         NEW offset \in Nat \union {None},
         TypeOK, Attempt(n), Remove(n, len),
         ExpectAfterFailure(expect, offset) \/ Expect(expect, offset),
         modcod' \in {0} \union Lengths,
         cancel_requested' \in BOOLEAN,
         result' \in {"OK", "NOSYNC", "FEC", "CANCELLED"}
  PROVE  DataType' /\ Advance
<1>1. DataType
  BY TypeParts
<1>2. /\ fed' = fed + n
      /\ Ready(n)
      /\ frames' = frames
  BY DEF Attempt, Feed, signal
<1>3. base' \in Nat /\ base < base' /\ base' <= fed + n
  BY <1>2, RemoveBounds
<1>4. /\ expected_frame_len' \in {0} \union Lengths
      /\ predicted_wh_start' \in Nat \union {None}
  BY DEF ExpectAfterFailure, Expect
<1>5. fed' \in Nat
  BY <1>1, <1>2 DEF DataType
<1>6. base' <= fed' /\ base' > base
  BY <1>1, <1>2, <1>3 DEF DataType
<1>7. QED
  BY <1>1, <1>2, <1>3, <1>4, <1>5, <1>6 DEF DataType, Advance

\* What a call knows of the frame it found.
LEMMA DecodeFacts ==
  ASSUME NEW n \in Nat, NEW i \in Sent, TypeOK, Decode(n, i)
  PROVE  /\ HeaderLen(i) \in Lengths /\ HeaderLen(i) \in Nat
         /\ wh[i] - base \in Nat
         /\ modcod' \in Lengths
         /\ Attempt(n)
<1>1. i \in Found(fed + n) /\ Attempt(n) /\ modcod' = HeaderLen(i)
  BY DEF Decode, Identify
<1>2. predicted_wh_start \in Nat \cup {None}
  BY DEF TypeOK
<1>3. wh[i] - base \in Nat
  BY <1>1, <1>2, FoundOffset
<1>4. HeaderLen(i) \in Lengths
  BY HeaderLenType
<1>5. ShortLen \in Nat /\ LongLen \in Nat
  BY DemodAssumption
<1>6. QED
  BY <1>1, <1>3, <1>4, <1>5

\* A call that keeps the buffer's front and returns SHORT.
LEMMA ShortStep ==
  ASSUME NEW n \in Nat, TypeOK,
         fed' = fed + n, base' = base, frames' = frames,
         expected_frame_len' \in {0} \union Lengths,
         predicted_wh_start' \in Nat \union {None},
         modcod' \in {0} \union Lengths,
         cancel_requested' = cancel_requested,
         result' = "SHORT"
  PROVE  DataType' /\ Advance
<1>1. DataType
  BY TypeParts
<1>2. fed' \in Nat /\ base <= fed'
  BY <1>1 DEF DataType
<1>3. QED
  BY <1>1, <1>2 DEF DataType, Advance

Moves == LockSuccess \/ LockFailure \/ UNCHANGED <<lock, outcomes>>

\* Every call keeps the types and moves the buffer's front if it returns a verdict.
LEMMA CallStep ==
  ASSUME TypeOK, NEW n \in Nat, Call(n)
  PROVE  DataType' /\ Advance /\ Moves
<1>1. DataType
  BY TypeParts
<1>2. CASE CallShort(n)
  <2>1. DataType' /\ Advance
    BY <1>1, <1>2, ShortStep DEF CallShort, Feed, signal, DataType
  <2>2. Moves
    BY <1>2 DEF CallShort, Moves, history
  <2>3. QED
    BY <2>1, <2>2
<1>3. CASE CallCancelled(n)
  <2>1. DataType' /\ Advance
    BY <1>1, <1>3, VerdictStep DEF CallCancelled, DataType
  <2>2. QED
    BY <1>3, <2>1 DEF CallCancelled, Moves
<1>4. CASE CallNoSync(n)
  <2>1. DataType' /\ Advance
    BY <1>1, <1>4, VerdictStep DEF CallNoSync, DataType
  <2>2. QED
    BY <1>4, <2>1 DEF CallNoSync, Moves
<1>5. CASE CallIncomplete(n)
  <2>1. PICK i \in Found(fed + n) : Identify(i) /\ Expect(HeaderLen(i), wh[i] - base)
    BY <1>5 DEF CallIncomplete
  <2>2. i \in Sent /\ wh[i] - base \in Nat
    BY <1>1, <2>1, FoundOffset DEF DataType
  <2>3. HeaderLen(i) \in Lengths
    BY <2>2, HeaderLenType
  <2>4. /\ expected_frame_len' \in {0} \union Lengths
        /\ predicted_wh_start' \in Nat \union {None}
        /\ modcod' \in {0} \union Lengths
    BY <2>1, <2>2, <2>3 DEF Expect, Identify
  <2>5. DataType' /\ Advance
    BY <1>1, <1>5, <2>4, ShortStep DEF CallIncomplete, Attempt, Feed, signal
  <2>6. Moves
    BY <1>5 DEF CallIncomplete, Moves, history
  <2>7. QED
    BY <2>5, <2>6
<1>6. CASE CallOk(n)
  <2>1. PICK i \in Sent : /\ Decode(n, i) /\ result' = "OK" /\ LockSuccess
                         /\ Expect(HeaderLen(i), wh[i] - base)
                         /\ Remove(n, HeaderLen(i))
                         /\ cancel_requested' = cancel_requested
    BY <1>6 DEF CallOk
  <2>2. DataType' /\ Advance
    BY <1>1, <2>1, DecodeFacts, VerdictStep DEF DataType
  <2>3. QED
    BY <2>1, <2>2 DEF Moves
<1>7. CASE CallFail(n)
  <2>1. PICK i \in Sent : /\ Decode(n, i) /\ result' = "FEC" /\ LockFailure
                         /\ ExpectAfterFailure(HeaderLen(i), wh[i] - base)
                         /\ Remove(n, HeaderLen(i))
                         /\ cancel_requested' = cancel_requested
    BY <1>7 DEF CallFail
  <2>2. DataType' /\ Advance
    BY <1>1, <2>1, DecodeFacts, VerdictStep DEF DataType
  <2>3. QED
    BY <2>1, <2>2 DEF Moves
<1>8. QED
  BY <1>2, <1>3, <1>4, <1>5, <1>6, <1>7 DEF Call

\* The steps of an application that cancels or offers too small a buffer.
LEMMA DisturbedStep ==
  ASSUME TypeOK, NEW n \in Nat,
         CallNoRoom(n) \/ CallInterrupted(n) \/ RequestCancel
  PROVE  DataType' /\ Advance /\ Moves
<1>1. DataType
  BY TypeParts
<1>2. CASE CallNoRoom(n)
  <2>1. PICK i \in Sent : /\ Decode(n, i) /\ result' = "SHORT"
                         /\ Expect(HeaderLen(i), wh[i] - base)
                         /\ UNCHANGED <<base, lock, cancel_requested, outcomes>>
    BY <1>2 DEF CallNoRoom
  <2>2. /\ expected_frame_len' \in {0} \union Lengths
        /\ predicted_wh_start' \in Nat \union {None}
        /\ modcod' \in {0} \union Lengths
        /\ Attempt(n)
    BY <2>1, DecodeFacts DEF Expect
  <2>3. DataType' /\ Advance
    BY <1>1, <2>1, <2>2, ShortStep DEF Attempt, Feed, signal
  <2>4. QED
    BY <2>1, <2>3 DEF Moves
<1>3. CASE CallInterrupted(n)
  <2>1. PICK i \in Sent : /\ Decode(n, i) /\ result' = "CANCELLED" /\ LockFailure
                         /\ ExpectAfterFailure(HeaderLen(i), wh[i] - base)
                         /\ Remove(n, HeaderLen(i))
                         /\ cancel_requested' = TRUE
    BY <1>3 DEF CallInterrupted
  <2>2. DataType' /\ Advance
    BY <1>1, <2>1, DecodeFacts, VerdictStep DEF DataType
  <2>3. QED
    BY <2>1, <2>2 DEF Moves
<1>4. CASE RequestCancel
  <2>1. DataType' /\ Advance
    BY <1>1, <1>4 DEF RequestCancel, DataType, signal, Advance
  <2>2. QED
    BY <1>4, <2>1 DEF RequestCancel, Moves, history
<1>5. QED
  BY <1>2, <1>3, <1>4

DemodInv == TypeOK /\ LockInv

\* The demodulator begins in its invariant,
LEMMA InitDemodInv == Init => DemodInv
<1> SUFFICES ASSUME Init PROVE DemodInv
  OBVIOUS
<1>1. DataType
  <2>1. /\ frames \in [Sent -> [len : Lengths, quality : Qualities,
                                drift : Drifts]]
        /\ base = 0 /\ fed = 0 /\ expected_frame_len = 0
        /\ predicted_wh_start = None /\ modcod = 0
        /\ cancel_requested = FALSE /\ result = "OK"
    BY DEF Init
  <2>2. cancel_requested \in BOOLEAN
    BY <2>1, Zenon
  <2>3. base \in Nat /\ fed \in Nat /\ base <= fed
    BY <2>1
  <2>4. /\ predicted_wh_start \in Nat \union {None}
        /\ expected_frame_len \in {0} \union Lengths
        /\ modcod \in {0} \union Lengths
    BY <2>1, Zenon DEF None
  <2>5. result \in {"OK", "SHORT", "NOSYNC", "FEC", "CANCELLED"}
    BY <2>1, Zenon
  <2>6. QED
    BY <2>1, <2>2, <2>3, <2>4, <2>5, Zenon DEF DataType
<1>2. LockType /\ LockFacts
  BY DEF Init, LockType, LockFacts
<1>3. QED
  BY <1>1, <1>2, TypeParts, LockInvSpelled DEF DemodInv

\* and every step keeps it.
LEMMA NextDemodInv ==
  DemodInv /\ [Next]_vars => DemodInv' /\ LockStep /\ Advance
<1> SUFFICES ASSUME DemodInv, [Next]_vars
             PROVE  DemodInv' /\ LockStep /\ Advance
  OBVIOUS
<1>1. TypeOK /\ LockInv
  BY DEF DemodInv
<1>2. DataType /\ LockType
  BY <1>1, TypeParts
<1>3. \A n \in Chunks \union {0} : n \in Nat
  BY DemodAssumption
<1>4. DataType' /\ Advance /\ Moves
  <2>1. CASE \E n \in Chunks \union {0} : Call(n)
    BY <1>1, <1>3, <2>1, CallStep
  <2>2. CASE \E n \in Chunks \union {0} : CallNoRoom(n) \/ CallInterrupted(n)
    BY <1>1, <1>3, <2>2, DisturbedStep
  <2>3. CASE RequestCancel
    <3>1. 0 \in Nat
      OBVIOUS
    <3>2. QED
      BY <1>1, <2>3, <3>1, DisturbedStep
  <2>4. CASE UNCHANGED vars
    BY <1>2, <2>4 DEF vars, DataType, signal, lock, history, Advance, Moves
  <2>5. QED
    BY <2>1, <2>2, <2>3, <2>4 DEF Next
<1>5. LockType' /\ LockInv' /\ LockStep
  BY <1>1, <1>2, <1>4, LockMoves DEF Moves
<1>6. TypeOK'
  BY <1>4, <1>5, TypeParts, PTL
<1>7. QED
  BY <1>4, <1>5, <1>6 DEF DemodInv

\* The demodulator keeps its types and the invariant of its lock counters.
THEOREM DemodInvariant == Spec => [](TypeOK /\ LockInv)
<1>1. Init => DemodInv
  BY InitDemodInv
<1>2. DemodInv /\ [Next]_vars => DemodInv'
  BY NextDemodInv
<1>3. DemodInv => TypeOK /\ LockInv
  BY DEF DemodInv
<1>4. QED
  BY <1>1, <1>2, <1>3, PTL DEF Spec

\* dvbs2x_demod_lock_update is the machine the README draws, on every signal:
\* three successes in a row and nothing less lock it, three failures in a row
\* and nothing less unlock it.
THEOREM LockIsEarned == Spec => LockFollowsOutcomes
<1>1. Init => DemodInv
  BY InitDemodInv
<1>2. DemodInv /\ [Next]_vars => DemodInv' /\ LockStep
  BY NextDemodInv
<1>3. LockStep =>
        [/\ Thrice("ok")' => state' = "TRACK"
         /\ Thrice("fail")' => state' # "TRACK"
         /\ state # "TRACK" /\ state' = "TRACK" => Thrice("ok")'
         /\ state = "TRACK" /\ state' # "TRACK" => Thrice("fail")']_vars
  BY DEF LockStep
<1>4. QED
  BY <1>1, <1>2, <1>3, PTL DEF Spec, LockFollowsOutcomes

\* Every verdict of demodulate_stream_ex takes samples out of the buffer, so an
\* application that drains until DVBS2X_ERR_SHORT does not spin.
THEOREM VerdictsAdvance == Spec => EveryVerdictAdvances
<1>1. Init => DemodInv
  BY InitDemodInv
<1>2. DemodInv /\ [Next]_vars => DemodInv' /\ Advance
  BY NextDemodInv
<1>3. DemodInv /\ Advance =>
        [result' # "SHORT" /\ (fed' # fed \/ result' # result \/ lock' # lock)
           => base' > base]_vars
  BY DEF Advance
<1>4. QED
  BY <1>1, <1>2, <1>3, PTL DEF Spec, EveryVerdictAdvances

-----------------------------------------------------------------------------
(* Where the frames lie *)

\* The first header is in the signal, and a frame ends where the next begins.
Chained ==
  /\ wh \in [Sent -> Int]
  /\ 1 \in Sent => wh[1] >= 0
  /\ \A i \in Sent : i + 1 \in Sent =>
       wh[i + 1] = wh[i] + frames[i].len + frames[i].drift

\* Frames do not overlap.
Spaced == \A i, j \in Sent : i < j => wh[i] + frames[i].len <= wh[j]

\* Frames arrive no shorter than nominal.
Unhurried == \A d \in Drifts : d >= 0

\* The first m places of a signal that begins with this gap.
Places(gap, m) ==
  {f \in [1 .. m -> Int] :
     \A k \in 1 .. m :
       f[k] = IF k = 1 THEN gap + PLLen
              ELSE f[k - 1] + frames[k - 1].len + frames[k - 1].drift}

\* The lengths of a frame are numbers.
LEMMA FrameType ==
  ASSUME TypeOK, NEW i \in Sent
  PROVE  /\ frames[i].len \in Nat /\ frames[i].len \in Lengths /\ frames[i].drift \in Int
         /\ ShortLen <= frames[i].len /\ frames[i].drift \in Drifts
         /\ frames[i].quality \in Qualities
<1>1. frames[i] \in [len : Lengths, quality : Qualities, drift : Drifts]
  BY DEF TypeOK
<1>2. ShortLen \in Nat /\ LongLen \in Nat /\ ShortLen < LongLen /\ Drifts \subseteq Int
  BY DemodAssumption
<1>3. /\ frames[i].len \in Lengths /\ frames[i].drift \in Drifts
      /\ frames[i].quality \in Qualities
  BY <1>1, Zenon
<1>4. frames[i].len \in Nat /\ ShortLen <= frames[i].len
  BY <1>2, <1>3
<1>5. frames[i].drift \in Int
  BY <1>2, <1>3, Zenon
<1> QED BY <1>3, <1>4, <1>5

\* Such places exist.
LEMMA PlacesExist ==
  ASSUME TypeOK, NEW gap \in Nat
  PROVE  \A m \in Nat : m <= NumFrames => Places(gap, m) # {}
<1> DEFINE S == {m \in Nat : m <= NumFrames => Places(gap, m) # {}}
<1>0. NumFrames \in Nat /\ PLLen \in Nat
  BY DemodAssumption
<1>1. 0 \in S
  <2> DEFINE f == [k \in 1 .. 0 |-> 0]
  <2>1. f \in Places(gap, 0)
    BY DEF Places
  <2> QED BY <2>1
<1>2. ASSUME NEW m \in Nat, m \in S PROVE m + 1 \in S
  <2> SUFFICES ASSUME m + 1 <= NumFrames PROVE Places(gap, m + 1) # {}
    BY <1>2
  <2>1. PICK f : f \in Places(gap, m)
    BY <1>0, <1>2
  <2>2. /\ f \in [1 .. m -> Int]
        /\ \A k \in 1 .. m :
             f[k] = IF k = 1 THEN gap + PLLen
                    ELSE f[k - 1] + frames[k - 1].len + frames[k - 1].drift
    BY <2>1 DEF Places
  <2> DEFINE last == IF m + 1 = 1 THEN gap + PLLen
                     ELSE f[m] + frames[m].len + frames[m].drift
             g == [k \in 1 .. m + 1 |-> IF k = m + 1 THEN last ELSE f[k]]
  <2>3. last \in Int
    <3>1. CASE m = 0
      BY <1>0, <3>1
    <3>2. CASE m # 0
      <4>1. m \in 1 .. m /\ m \in Sent
        BY <1>0, <3>2
      <4>2. f[m] \in Int /\ frames[m].len \in Nat /\ frames[m].drift \in Int
        BY <2>2, <4>1, FrameType
      <4> QED BY <3>2, <4>2
    <3> QED BY <3>1, <3>2
  <2>4. g \in [1 .. m + 1 -> Int]
    BY <2>2, <2>3
  <2>5. ASSUME NEW k \in 1 .. m + 1
        PROVE  g[k] = IF k = 1 THEN gap + PLLen
                      ELSE g[k - 1] + frames[k - 1].len + frames[k - 1].drift
    <3>1. CASE k = m + 1
      <4>1. k - 1 = m /\ (k # 1 => m \in 1 .. m + 1 /\ m # m + 1)
        BY <3>1
      <4>2. g[k] = last /\ (k # 1 => g[m] = f[m])
        BY <3>1, <4>1
      <4> QED BY <3>1, <4>1, <4>2
    <3>2. CASE k # m + 1
      <4>1. k \in 1 .. m
        BY <3>2
      <4>2. k # 1 => k - 1 \in 1 .. m /\ k - 1 # m + 1 /\ k - 1 \in 1 .. m + 1
        BY <4>1
      <4>3. g[k] = f[k] /\ (k # 1 => g[k - 1] = f[k - 1])
        BY <3>2, <4>2
      <4> QED BY <2>2, <4>1, <4>3
    <3> QED BY <3>1, <3>2
  <2> HIDE DEF g
  <2>6. g \in Places(gap, m + 1)
    BY <2>4, <2>5 DEF Places
  <2> QED BY <2>6
<1> HIDE DEF S
<1>3. \A m \in Nat : m \in S
  BY <1>1, <1>2, SetInduction
<1> QED BY <1>3 DEF S

\* In the beginning: the places that Init computes are chained.
LEMMA InitChained == Init => Chained
<1> SUFFICES ASSUME Init PROVE Chained
  OBVIOUS
<1> DEFINE IsAt(gap, f) ==
             f = [k \in Sent |-> IF k = 1 THEN gap + PLLen
                                 ELSE f[k - 1] + frames[k - 1].len + frames[k - 1].drift]
           at(gap) == CHOOSE f : IsAt(gap, f)
<1>0. TypeOK
  BY InitDemodInv DEF DemodInv
<1>1. PICK gap \in Gaps : wh = [i \in Sent |-> at(gap)[i]]
  BY DEF Init
<1>2. gap \in Nat /\ NumFrames \in Nat
  BY DemodAssumption
<1>3. PICK f : f \in Places(gap, NumFrames)
  BY <1>0, <1>2, PlacesExist
<1>4. /\ f \in [Sent -> Int]
      /\ \A k \in Sent : f[k] = IF k = 1 THEN gap + PLLen
                                ELSE f[k - 1] + frames[k - 1].len + frames[k - 1].drift
  BY <1>3 DEF Places
<1>5. IsAt(gap, f)
  BY <1>4, Zenon
<1>6. IsAt(gap, at(gap))
  <2> HIDE DEF IsAt
  <2> QED BY <1>5, Zenon
<1> DEFINE h == at(gap)
<1> HIDE DEF at
<1>7. /\ h = [k \in Sent |-> h[k]]
      /\ \A k \in Sent : h[k] = IF k = 1 THEN gap + PLLen
                                ELSE h[k - 1] + frames[k - 1].len + frames[k - 1].drift
  BY <1>6, Zenon
<1> HIDE DEF h
<1>8. wh = h
  BY <1>1, <1>7 DEF h
<1> DEFINE S == {k \in Nat : k + 1 \in Sent => h[k + 1] \in Int}
<1>9. 0 \in S
  <2>1. 1 \in Sent => h[1] = gap + PLLen
    BY <1>7, Zenon
  <2>2. PLLen \in Nat /\ 0 + 1 = 1
    BY DemodAssumption
  <2> QED BY <1>2, <2>1, <2>2
<1>10. ASSUME NEW k \in Nat, k \in S PROVE k + 1 \in S
  <2> SUFFICES ASSUME (k + 1) + 1 \in Sent PROVE h[(k + 1) + 1] \in Int
    OBVIOUS
  <2>1. k + 1 \in Sent /\ (k + 1) + 1 # 1 /\ ((k + 1) + 1) - 1 = k + 1
    BY <1>2
  <2>2. h[k + 1] \in Int /\ frames[k + 1].len \in Nat /\ frames[k + 1].drift \in Int
    BY <1>0, <1>10, <2>1, FrameType
  <2>3. h[(k + 1) + 1] = h[k + 1] + frames[k + 1].len + frames[k + 1].drift
    BY <1>7, <2>1
  <2> QED BY <2>2, <2>3
<1> HIDE DEF S
<1>11. \A k \in Nat : k \in S
  BY <1>9, <1>10, SetInduction
<1>12. ASSUME NEW i \in Sent PROVE h[i] \in Int
  <2>1. i - 1 \in Nat /\ (i - 1) + 1 = i
    BY <1>2
  <2> QED BY <1>11, <2>1 DEF S
<1>13. ASSUME NEW i \in Sent, i + 1 \in Sent
       PROVE  h[i + 1] = h[i] + frames[i].len + frames[i].drift
  <2>1. i + 1 # 1 /\ (i + 1) - 1 = i
    BY <1>2
  <2> QED BY <1>7, <1>13, <2>1
<1>14. h \in [Sent -> Int]
  BY <1>7, <1>12
<1>15. 1 \in Sent => h[1] >= 0
  <2>1. 1 \in Sent => h[1] = gap + PLLen
    BY <1>7, Zenon
  <2>2. PLLen \in Nat
    BY DemodAssumption
  <2> QED BY <1>2, <2>1, <2>2
<1> QED BY <1>8, <1>13, <1>14, <1>15 DEF Chained

\* Frames that do not arrive short do not overlap.
LEMMA ChainedSpaced ==
  ASSUME TypeOK, Chained, Unhurried
  PROVE  Spaced
<1> SUFFICES ASSUME NEW i \in Sent
             PROVE  \A j \in Sent : i < j => wh[i] + frames[i].len <= wh[j]
  BY DEF Spaced
<1>0. NumFrames \in Nat /\ i \in Nat
  BY DemodAssumption
<1>a. wh \in [Sent -> Int] /\ \A k \in Sent : wh[k] \in Int
  BY DEF Chained
<1> DEFINE S == {d \in Nat : i + d + 1 \in Sent => wh[i] + frames[i].len <= wh[i + d + 1]}
<1>1. ASSUME NEW k \in Sent, k + 1 \in Sent
      PROVE  wh[k] + frames[k].len <= wh[k + 1] /\ frames[k].len \in Nat
  <2>1. frames[k].drift >= 0 /\ frames[k].drift \in Int /\ frames[k].len \in Nat
    BY FrameType DEF Unhurried
  <2>2. wh[k + 1] = wh[k] + frames[k].len + frames[k].drift
    BY <1>1 DEF Chained
  <2> QED BY <1>a, <2>1, <2>2
<1>2. 0 \in S
  <2>1. i + 0 + 1 = i + 1
    BY <1>0
  <2> QED BY <1>1, <2>1
<1>3. ASSUME NEW d \in Nat, d \in S PROVE d + 1 \in S
  <2> SUFFICES ASSUME i + (d + 1) + 1 \in Sent
               PROVE  wh[i] + frames[i].len <= wh[i + (d + 1) + 1]
    OBVIOUS
  <2>1. i + d + 1 \in Sent /\ i + (d + 1) + 1 = (i + d + 1) + 1
    BY <1>0
  <2>2. wh[i] + frames[i].len <= wh[i + d + 1]
    BY <1>3, <2>1
  <2>3. /\ wh[i + d + 1] + frames[i + d + 1].len <= wh[i + (d + 1) + 1]
        /\ frames[i + d + 1].len \in Nat
    BY <1>1, <2>1
  <2>4. frames[i].len \in Nat
    BY FrameType
  <2>5. wh[i] \in Int /\ wh[i + d + 1] \in Int /\ wh[i + (d + 1) + 1] \in Int
    BY <1>a, <2>1
  <2> QED BY <2>2, <2>3, <2>4, <2>5
<1> HIDE DEF S
<1>4. \A d \in Nat : d \in S
  BY <1>2, <1>3, SetInduction
<1>5. ASSUME NEW j \in Sent, i < j PROVE wh[i] + frames[i].len <= wh[j]
  <2>1. j - i - 1 \in Nat /\ i + (j - i - 1) + 1 = j
    BY <1>0, <1>5
  <2> QED BY <1>4, <2>1 DEF S
<1> QED BY <1>5

-----------------------------------------------------------------------------
(* What a call does to the buffer and to what it notes down *)

\* The lengths are numbers, and a search is shorter than a frame.
LEMMA Numbers ==
  /\ AcqWindow \in Nat /\ WHLen \in Nat /\ SearchRadius \in Nat /\ PLLen \in Nat
  /\ ShortLen \in Nat /\ LongLen \in Nat /\ Pad \in Nat /\ NumFrames \in Nat
  /\ AcqWindow + WHLen <= ShortLen /\ ShortLen < LongLen
  /\ Searched \in Nat /\ Searched = AcqWindow - WHLen /\ Pad + PLLen < Searched
BY DemodAssumption DEF Searched

\* A call that does not look for a header.
Quiet ==
  /\ UNCHANGED <<frames, wh, base, predicted_wh_start, delivered, afc, cut, refused>>
  /\ cancel_requested => cancel_requested'

\* A cancelled receiver drops what it would have searched.
Dropped ==
  /\ cancel_requested /\ cancel_requested'
  /\ UNCHANGED <<frames, wh, delivered, afc, cut, refused>>
  /\ predicted_wh_start' \in {predicted_wh_start, None}
  /\ base' = base + Searched

\* A search without result.
Passed ==
  /\ UNCHANGED <<frames, wh, delivered, afc, cut, refused, cancel_requested>>
  /\ predicted_wh_start' \in {predicted_wh_start, None}
  /\ base' = base + Searched

\* A header whose frame is not complete.
Noted(i) ==
  /\ UNCHANGED <<frames, wh, base, delivered, afc, cut, refused, cancel_requested>>
  /\ predicted_wh_start' = wh[i] - base

\* A frame that does not fit the caller's buffer.
Refused(i) ==
  /\ UNCHANGED <<frames, wh, base, delivered, cancel_requested>>
  /\ predicted_wh_start' = wh[i] - base
  /\ refused' = refused \union {i}
  /\ afc' \in {afc, [afc EXCEPT ![i] = Count(@, 2)]}
  /\ cut \subseteq cut'

\* A frame that is decoded and removed, returned or not.
Taken(i) ==
  /\ UNCHANGED <<frames, wh, refused>>
  /\ predicted_wh_start' \in {wh[i] - base, None}
  /\ afc' \in {afc, [afc EXCEPT ![i] = Count(@, 2)]}
  /\ cut \subseteq cut' /\ cancel_requested' \in BOOLEAN
  /\ \/ base' = base + HeaderLen(i)
     \/ base' = base + Searched /\ wh[i] - base < Pad + PLLen
  /\ \/ delivered' = Append(delivered, i)
     \/ /\ delivered' = delivered
        /\ frames[i].quality # "good" \/ i \in cut' \/ cancel_requested'

\* A call that looks for a header among the samples before position end.
Looks(end) == \/ Found(end) = {} /\ Passed
              \/ \E i \in Found(end) : Noted(i) \/ Refused(i) \/ Taken(i)

Effect == \/ Quiet
          \/ Dropped
          \/ ~cancel_requested /\ \E end \in Nat : Looks(end)

\* How much a removal takes.
LEMMA RemoveAmount ==
  ASSUME NEW n \in Nat, NEW len \in Nat, TypeOK, Ready(n), Remove(n, len)
  PROVE  \/ base' = base + len /\ len # 0
         \/ base' = base + Searched /\ (len = 0 \/ len > fed + n - base)
<1>1. base \in Nat /\ fed \in Nat
  BY DEF TypeOK
<1>2. fed + n - base >= ShortLen
  BY DEF Ready
<1>3. CASE len \in 1 .. fed + n - base
  <2>1. base' = base + len
    BY <1>3 DEF Remove
  <2> QED BY <1>3, <2>1
<1>4. CASE len \notin 1 .. fed + n - base
  <2>1. ~(Searched > fed + n - base)
    BY <1>1, <1>2, Numbers
  <2>2. base' = base + Searched
    BY <1>4, <2>1 DEF Remove
  <2> QED BY <1>1, <1>4, <2>2
<1> QED BY <1>3, <1>4

\* What the removal of a decoded frame takes.
LEMMA FrameRemoved ==
  ASSUME NEW n \in Nat, NEW i \in Sent, TypeOK, Chained, Decode(n, i), Remove(n, HeaderLen(i))
  PROVE  \/ base' = base + HeaderLen(i)
         \/ base' = base + Searched /\ wh[i] - base < Pad + PLLen
<1>1. HeaderLen(i) \in Lengths /\ HeaderLen(i) \in Nat /\ Attempt(n) /\ Complete(i, n)
  BY DecodeFacts DEF Decode
<1>2. HeaderLen(i) >= ShortLen /\ base \in Nat /\ fed \in Nat /\ wh[i] \in Int
  BY <1>1, Numbers DEF TypeOK, Chained
<1>3. wh[i] - PLLen + HeaderLen(i) <= fed + n + Pad
  BY <1>1 DEF Complete, End
<1>4. Ready(n)
  BY <1>1 DEF Attempt
<1>5. CASE HeaderLen(i) = 0
  BY <1>2, <1>5, Numbers
<1>6. CASE HeaderLen(i) > fed + n - base
  <2>1. wh[i] - base < Pad + PLLen
    BY <1>1, <1>2, <1>3, <1>6, Numbers
  <2> QED BY <1>1, <1>4, <2>1, RemoveAmount
<1> QED BY <1>1, <1>4, <1>5, <1>6, RemoveAmount

\* Every way a call returns is one of these.
LEMMA CallEffect ==
  ASSUME TypeOK, Chained, NEW n \in Nat, Call(n)
  PROVE  Effect
<1>0. fed + n \in Nat
  BY DEF TypeOK
<1>1. CASE CallShort(n)
  BY <1>1, Zenon DEF CallShort, signal, history, Effect, Quiet
<1>2. CASE CallCancelled(n)
  <2>1. predicted_wh_start' \in {predicted_wh_start, None}
    BY <1>2 DEF CallCancelled, ExpectAfterFailure, Expect
  <2>2. base' = base + Searched
    <3>1. Ready(n) /\ Remove(n, 0) /\ 0 \in Nat
      BY <1>2 DEF CallCancelled, Attempt
    <3> QED BY <3>1, RemoveAmount
  <2>3. /\ cancel_requested /\ cancel_requested'
        /\ UNCHANGED <<frames, wh, delivered, afc, cut, refused>>
    BY <1>2 DEF CallCancelled, Attempt, signal
  <2> QED BY <2>1, <2>2, <2>3, Zenon DEF Effect, Dropped
<1>3. CASE CallNoSync(n)
  <2>1. predicted_wh_start' \in {predicted_wh_start, None}
    BY <1>3 DEF CallNoSync, ExpectAfterFailure, Expect
  <2>2. base' = base + Searched
    <3>1. Ready(n) /\ Remove(n, 0) /\ 0 \in Nat
      BY <1>3 DEF CallNoSync, Attempt
    <3> QED BY <3>1, RemoveAmount
  <2>3. /\ ~cancel_requested /\ Found(fed + n) = {}
        /\ UNCHANGED <<frames, wh, delivered, afc, cut, refused, cancel_requested>>
    BY <1>3 DEF CallNoSync, Attempt, signal
  <2>4. Looks(fed + n)
    BY <2>1, <2>2, <2>3, Zenon DEF Passed, Looks
  <2> QED BY <1>0, <2>3, <2>4, Zenon DEF Effect
<1>4. CASE CallIncomplete(n)
  <2>1. PICK i \in Found(fed + n) : predicted_wh_start' = wh[i] - base
    BY <1>4, Zenon DEF CallIncomplete, Expect
  <2>2. /\ ~cancel_requested
        /\ UNCHANGED <<frames, wh, base, delivered, afc, cut, refused, cancel_requested>>
    BY <1>4, Zenon DEF CallIncomplete, Attempt, signal, history
  <2>3. Looks(fed + n)
    BY <2>1, <2>2, Zenon DEF Noted, Looks
  <2> QED BY <1>0, <2>2, <2>3, Zenon DEF Effect
<1>5. CASE CallOk(n)
  <2>1. PICK i \in Sent : /\ Decode(n, i) /\ delivered' = Append(delivered, i)
                         /\ Expect(HeaderLen(i), wh[i] - base)
                         /\ Remove(n, HeaderLen(i))
                         /\ UNCHANGED <<cancel_requested, refused>>
    BY <1>5, Zenon DEF CallOk
  <2>2. /\ i \in Found(fed + n) /\ ~cancel_requested /\ UNCHANGED <<frames, wh>>
        /\ afc' \in {afc, [afc EXCEPT ![i] = Count(@, 2)]} /\ cut \subseteq cut'
    BY <2>1 DEF Decode, Attempt, signal, UpdateAfc
  <2>3. predicted_wh_start' \in {wh[i] - base, None}
    BY <2>1, Zenon DEF Expect
  <2>4. cancel_requested' \in BOOLEAN
    BY <2>1, Zenon DEF TypeOK
  <2>5. Taken(i)
    BY <2>1, <2>2, <2>3, <2>4, FrameRemoved, Zenon DEF Taken
  <2>6. Looks(fed + n)
    BY <2>2, <2>5, Zenon DEF Looks
  <2> QED BY <1>0, <2>2, <2>6, Zenon DEF Effect
<1>6. CASE CallFail(n)
  <2>1. PICK i \in Sent : /\ Decode(n, i) /\ (frames[i].quality # "good" \/ i \in cut')
                         /\ ExpectAfterFailure(HeaderLen(i), wh[i] - base)
                         /\ Remove(n, HeaderLen(i))
                         /\ UNCHANGED <<cancel_requested, delivered, refused>>
    BY <1>6, Zenon DEF CallFail
  <2>2. /\ i \in Found(fed + n) /\ ~cancel_requested /\ UNCHANGED <<frames, wh>>
        /\ afc' \in {afc, [afc EXCEPT ![i] = Count(@, 2)]} /\ cut \subseteq cut'
    BY <2>1 DEF Decode, Attempt, signal, UpdateAfc
  <2>3. predicted_wh_start' \in {wh[i] - base, None}
    BY <2>1 DEF ExpectAfterFailure, Expect
  <2>4. cancel_requested' \in BOOLEAN
    BY <2>1, Zenon DEF TypeOK
  <2>5. Taken(i)
    BY <2>1, <2>2, <2>3, <2>4, FrameRemoved, Zenon DEF Taken
  <2>6. Looks(fed + n)
    BY <2>2, <2>5, Zenon DEF Looks
  <2> QED BY <1>0, <2>2, <2>6, Zenon DEF Effect
<1> QED BY <1>1, <1>2, <1>3, <1>4, <1>5, <1>6 DEF Call

\* So are those of an application that cancels or offers too small a buffer.
LEMMA DisturbedEffect ==
  ASSUME TypeOK, Chained, NEW n \in Nat,
         CallNoRoom(n) \/ CallInterrupted(n) \/ RequestCancel
  PROVE  Effect
<1>0. fed + n \in Nat
  BY DEF TypeOK
<1>1. CASE CallNoRoom(n)
  <2>1. PICK i \in Sent : /\ Decode(n, i) /\ refused' = refused \union {i}
                         /\ Expect(HeaderLen(i), wh[i] - base)
                         /\ UNCHANGED <<base, cancel_requested, delivered>>
    BY <1>1, Zenon DEF CallNoRoom
  <2>2. /\ i \in Found(fed + n) /\ ~cancel_requested /\ UNCHANGED <<frames, wh>>
        /\ afc' \in {afc, [afc EXCEPT ![i] = Count(@, 2)]} /\ cut \subseteq cut'
    BY <2>1 DEF Decode, Attempt, signal, UpdateAfc
  <2>3. predicted_wh_start' = wh[i] - base
    BY <2>1, Zenon DEF Expect
  <2>4. Refused(i)
    BY <2>1, <2>2, <2>3, Zenon DEF Refused
  <2>5. Looks(fed + n)
    BY <2>2, <2>4, Zenon DEF Looks
  <2> QED BY <1>0, <2>2, <2>5, Zenon DEF Effect
<1>2. CASE CallInterrupted(n)
  <2>1. PICK i \in Sent : /\ Decode(n, i) /\ cancel_requested' = TRUE
                         /\ ExpectAfterFailure(HeaderLen(i), wh[i] - base)
                         /\ Remove(n, HeaderLen(i))
                         /\ UNCHANGED <<delivered, refused>>
    BY <1>2, Zenon DEF CallInterrupted
  <2>2. /\ i \in Found(fed + n) /\ ~cancel_requested /\ UNCHANGED <<frames, wh>>
        /\ afc' \in {afc, [afc EXCEPT ![i] = Count(@, 2)]} /\ cut \subseteq cut'
    BY <2>1 DEF Decode, Attempt, signal, UpdateAfc
  <2>3. predicted_wh_start' \in {wh[i] - base, None}
    BY <2>1 DEF ExpectAfterFailure, Expect
  <2>4. Taken(i)
    BY <2>1, <2>2, <2>3, FrameRemoved, Zenon DEF Taken
  <2>5. Looks(fed + n)
    BY <2>2, <2>4, Zenon DEF Looks
  <2> QED BY <1>0, <2>2, <2>5, Zenon DEF Effect
<1>3. CASE RequestCancel
  BY <1>3, Zenon DEF RequestCancel, signal, history, Effect, Quiet
<1> QED BY <1>1, <1>2, <1>3

\* Every step does one of these to the buffer.
LEMMA Effects ==
  ASSUME TypeOK, Chained, [Next]_vars
  PROVE  Effect
<1>1. \A n \in Chunks \union {0} : n \in Nat
  BY DemodAssumption
<1>2. CASE \E n \in Chunks \union {0} : Call(n)
  BY <1>1, <1>2, CallEffect
<1>3. CASE \E n \in Chunks \union {0} : CallNoRoom(n) \/ CallInterrupted(n)
  BY <1>1, <1>3, DisturbedEffect
<1>4. CASE RequestCancel
  <2>1. 0 \in Nat
    OBVIOUS
  <2> QED BY <1>4, <2>1, DisturbedEffect
<1>5. CASE UNCHANGED vars
  BY <1>5, Zenon DEF vars, signal, history, Effect, Quiet
<1> QED BY <1>2, <1>3, <1>4, <1>5 DEF Next

-----------------------------------------------------------------------------
(* Where a header is found *)

\* How far the place where headers are expected can have moved back when frame i
\* is found: a search radius with each frame before.
Creep(i) == SearchRadius * (i - 1)

\* A transmission too short for the creep to add up to a frame.
Brief == Unhurried /\ AcqWindow + Creep(NumFrames) < ShortLen

\* A transmission of any length: frames of their nominal length, every header of
\* which is found, with the code's order of its lengths (256, 896, 4096, 16686).
Steady == /\ Drifts \subseteq {0} /\ Qualities \subseteq {"good", "bad"}
          /\ AcqWindow + SearchRadius < ShortLen /\ SearchRadius <= WHLen

InPlace == Brief \/ Steady

\* The prediction comes from a frame that is not behind it, and has crept no
\* further than that frame's number allows.
CreepInv ==
  predicted_wh_start # None =>
    \E i \in Sent : /\ wh[i] - base <= predicted_wh_start
                    /\ predicted_wh_start <= AcqWindow + Creep(i)

InWindow(i) == 0 <= wh[i] - base /\ wh[i] - base <= AcqWindow

\* The prediction is in the acquisition window, and the search around it finds
\* no header beyond it: it does not reach beyond, or there is a header before.
SteadyInv ==
  predicted_wh_start # None =>
    /\ predicted_wh_start <= AcqWindow
    /\ \/ cancel_requested
       \/ predicted_wh_start + SearchRadius <= AcqWindow
       \/ \A i \in Sent : wh[i] < base
       \/ \E i \in Sent : InWindow(i)

PlaceInv == Chained /\ (Brief => CreepInv) /\ (Steady => SteadyInv)

\* With each frame the creep grows by a search radius.
LEMMA Creeps ==
  \A i \in Sent : /\ Creep(i) \in Nat /\ Creep(i) <= Creep(NumFrames)
                  /\ Creep(NumFrames) \in Nat
                  /\ \A j \in Sent : i < j => Creep(i) + SearchRadius <= Creep(j)
<1> DEFINE r == SearchRadius
<1>1. r \in Nat /\ NumFrames \in Nat
  BY Numbers
<1> HIDE DEF r
<1>2. \A x \in Nat : r * x \in Nat
  BY <1>1, SMT
<1>3. \A x, y \in Nat : x < y => r * x + r <= r * y
  <2> SUFFICES ASSUME NEW x \in Nat, NEW y \in Nat, x < y PROVE r * x + r <= r * y
    OBVIOUS
  <2>1. y - x - 1 \in Nat
    OBVIOUS
  <2>2. r * (y - x - 1) \in Nat /\ r * x \in Nat /\ r * y \in Nat
    BY <1>2, <2>1
  <2>3. r * y = r * x + r + r * (y - x - 1)
    BY <1>1, SMT
  <2> QED BY <1>1, <2>2, <2>3
<1>4. \A i \in Sent : i - 1 \in Nat /\ Creep(i) = r * (i - 1) /\ NumFrames \in Sent
  BY <1>1 DEF Creep, r
<1>5. ASSUME NEW i \in Sent
      PROVE  /\ Creep(i) \in Nat /\ Creep(i) <= Creep(NumFrames)
             /\ Creep(NumFrames) \in Nat
             /\ \A j \in Sent : i < j => Creep(i) + SearchRadius <= Creep(j)
  <2>1. Creep(i) \in Nat /\ Creep(NumFrames) \in Nat
    BY <1>2, <1>4
  <2>2. \A j \in Sent : i < j => Creep(i) + SearchRadius <= Creep(j)
    <3> TAKE j \in Sent
    <3> HAVE i < j
    <3>1. i - 1 < j - 1
      BY <1>1
    <3> QED BY <1>3, <1>4, <3>1 DEF r
  <2>3. Creep(i) <= Creep(NumFrames)
    <3>1. CASE i = NumFrames
      BY <2>1, <3>1
    <3>2. CASE i < NumFrames
      BY <1>1, <1>4, <2>1, <2>2, <3>2 DEF r
    <3> QED BY <1>1, <3>1, <3>2
  <2> QED BY <2>1, <2>2, <2>3
<1> QED BY <1>5

\* A header is found in the window or around the prediction.
LEMMA FoundWhere ==
  ASSUME TypeOK, NEW end, NEW i \in Found(end)
  PROVE  /\ i \in Sent /\ wh[i] - base \in Nat
         /\ \/ wh[i] - base <= AcqWindow
            \/ /\ predicted_wh_start # None
               /\ wh[i] - base <= predicted_wh_start + SearchRadius
<1>1. predicted_wh_start \in Nat \cup {None}
  BY DEF TypeOK
<1>2. i \in Sent /\ wh[i] - base \in Nat
  BY <1>1, FoundOffset
<1>3. CASE Predicted(end) # {}
  <2>1. /\ predicted_wh_start # None
        /\ i \in HeadersIn(0, predicted_wh_start + SearchRadius)
    BY <1>3 DEF Found, Predicted
  <2>2. wh[i] - base <= predicted_wh_start + SearchRadius
    BY <1>1, <1>2, <2>1, Numbers DEF HeadersIn
  <2> QED BY <1>2, <2>1, <2>2
<1>4. CASE Predicted(end) = {}
  <2>1. i \in HeadersIn(0, AcqWindow)
    BY <1>4 DEF Found
  <2>2. wh[i] - base <= AcqWindow
    BY <1>2, <2>1, Numbers DEF HeadersIn
  <2> QED BY <1>2, <2>2
<1> QED BY <1>3, <1>4

\* A search without result: there is no header in the window.
LEMMA NothingFound ==
  ASSUME TypeOK, Chained, NEW end, Found(end) = {}, NEW i \in Sent, frames[i].quality # "lost"
  PROVE  ~InWindow(i)
<1>1. HeadersIn(0, AcqWindow) = {}
  BY DEF Found
<1>2. ~(wh[i] - base \in 0 .. AcqWindow)
  BY <1>1 DEF HeadersIn
<1>3. wh[i] - base \in Int
  BY DEF Chained, TypeOK
<1> QED BY <1>2, <1>3, Numbers DEF InWindow

\* Frames are at least the shorter length apart.
LEMMA FramesApart ==
  ASSUME TypeOK, Chained, Unhurried, NEW i \in Sent, NEW j \in Sent, i < j
  PROVE  wh[i] \in Int /\ wh[j] \in Int /\ base \in Nat /\ wh[i] + ShortLen <= wh[j]
<1>1. wh[i] + frames[i].len <= wh[j]
  BY ChainedSpaced DEF Spaced
<1>2. wh[i] \in Int /\ wh[j] \in Int /\ base \in Nat
  BY DEF Chained, TypeOK
<1>3. frames[i].len \in Nat /\ ShortLen <= frames[i].len
  BY FrameType
<1> QED BY <1>1, <1>2, <1>3, Numbers

\* The frames of a steady transmission.
LEMMA SteadyFacts ==
  ASSUME TypeOK, Steady
  PROVE  /\ Unhurried /\ AcqWindow + SearchRadius < ShortLen /\ SearchRadius <= WHLen
         /\ \A i \in Sent : frames[i].drift = 0 /\ frames[i].quality \in {"good", "bad"}
<1>1. Unhurried
  BY DEF Steady, Unhurried
<1>2. \A i \in Sent : frames[i].drift = 0 /\ frames[i].quality \in {"good", "bad"}
  BY FrameType, Zenon DEF Steady
<1> QED BY <1>1, <1>2 DEF Steady

\* What is found in a brief transmission has crept no further than its number.
LEMMA FoundCreep ==
  ASSUME TypeOK, Chained, Brief, CreepInv, NEW end, NEW i \in Found(end)
  PROVE  wh[i] - base <= AcqWindow + Creep(i)
<1>1. /\ i \in Sent /\ wh[i] - base \in Nat
      /\ \/ wh[i] - base <= AcqWindow
         \/ /\ predicted_wh_start # None
            /\ wh[i] - base <= predicted_wh_start + SearchRadius
  BY FoundWhere
<1>2. wh[i] \in Int /\ base \in Nat /\ Creep(i) \in Nat
  BY <1>1, Creeps DEF Chained, TypeOK
<1>3. CASE wh[i] - base <= AcqWindow
  BY <1>1, <1>2, <1>3, Numbers
<1>4. CASE predicted_wh_start # None /\ wh[i] - base <= predicted_wh_start + SearchRadius
  <2>1. PICK k \in Sent : /\ wh[k] - base <= predicted_wh_start
                          /\ predicted_wh_start <= AcqWindow + Creep(k)
    BY <1>4 DEF CreepInv
  <2>2. /\ predicted_wh_start \in Nat /\ Unhurried /\ AcqWindow + Creep(NumFrames) < ShortLen
        /\ Creep(k) \in Nat /\ Creep(k) <= Creep(NumFrames) /\ Creep(NumFrames) \in Nat
    BY <1>4, Creeps DEF TypeOK, Brief
  <2>3. CASE k < i
    <3>1. Creep(k) + SearchRadius <= Creep(i)
      BY <1>1, <2>3, Creeps
    <3> QED BY <1>1, <1>2, <1>4, <2>1, <2>2, <3>1, Numbers
  <2>4. CASE k = i
    BY <1>1, <1>2, <2>1, <2>2, <2>4, Numbers
  <2>5. CASE i < k
    <3>1. wh[k] \in Int /\ wh[i] + ShortLen <= wh[k]
      BY <1>1, <2>2, <2>5, FramesApart
    <3>2. wh[i] - base < 0
      BY <1>2, <2>1, <2>2, <3>1, Numbers
    <3> QED BY <1>1, <3>2
  <2>6. k < i \/ k = i \/ i < k
    BY <1>1, Numbers
  <2> QED BY <2>3, <2>4, <2>5, <2>6
<1> QED BY <1>1, <1>3, <1>4

\* What is found in a steady transmission is in the window.
LEMMA FoundSteady ==
  ASSUME TypeOK, Chained, Steady, SteadyInv, ~cancel_requested, NEW end, NEW i \in Found(end)
  PROVE  InWindow(i)
<1>1. /\ i \in Sent /\ wh[i] - base \in Nat
      /\ \/ wh[i] - base <= AcqWindow
         \/ /\ predicted_wh_start # None
            /\ wh[i] - base <= predicted_wh_start + SearchRadius
  BY FoundWhere
<1>2. wh[i] \in Int /\ base \in Nat
  BY <1>1 DEF Chained, TypeOK
<1>3. Unhurried /\ AcqWindow + SearchRadius < ShortLen
  BY SteadyFacts
<1>4. CASE wh[i] - base <= AcqWindow
  BY <1>1, <1>4 DEF InWindow
<1>5. CASE predicted_wh_start # None /\ wh[i] - base <= predicted_wh_start + SearchRadius
  <2>1. predicted_wh_start \in Nat /\ predicted_wh_start <= AcqWindow
    BY <1>5 DEF TypeOK, SteadyInv
  <2>2. CASE predicted_wh_start + SearchRadius <= AcqWindow
    BY <1>1, <1>2, <1>5, <2>1, <2>2, Numbers DEF InWindow
  <2>3. CASE \A j \in Sent : wh[j] < base
    BY <1>1, <1>2, <2>3
  <2>4. CASE \E j \in Sent : InWindow(j)
    <3>1. PICK j \in Sent : 0 <= wh[j] - base /\ wh[j] - base <= AcqWindow
      BY <2>4 DEF InWindow
    <3>2. CASE j < i
      <4>1. wh[j] \in Int /\ wh[j] + ShortLen <= wh[i]
        BY <1>1, <1>3, <3>2, FramesApart
      <4> QED BY <1>2, <1>3, <1>5, <2>1, <3>1, <4>1, Numbers
    <3>3. CASE i < j
      <4>1. wh[j] \in Int /\ wh[i] + ShortLen <= wh[j]
        BY <1>1, <1>3, <3>3, FramesApart
      <4> QED BY <1>1, <1>2, <1>3, <3>1, <4>1, Numbers
    <3>4. CASE i = j
      BY <3>1, <3>4 DEF InWindow
    <3>5. j < i \/ i < j \/ i = j
      BY <1>1, Numbers
    <3> QED BY <3>2, <3>3, <3>4, <3>5
  <2> QED BY <1>5, <2>2, <2>3, <2>4, Zenon DEF SteadyInv
<1> QED BY <1>1, <1>4, <1>5

\* A header is found less than a frame behind the front of the buffer.
LEMMA FoundNear ==
  ASSUME TypeOK, PlaceInv, InPlace, ~cancel_requested, NEW end, NEW i \in Found(end)
  PROVE  i \in Sent /\ wh[i] - base \in Nat /\ wh[i] - base < ShortLen
<1>1. i \in Sent /\ wh[i] - base \in Nat
  BY FoundWhere
<1>2. CASE Brief
  <2>1. wh[i] - base <= AcqWindow + Creep(i)
    BY <1>2, FoundCreep DEF PlaceInv
  <2>2. Creep(i) \in Nat /\ Creep(i) <= Creep(NumFrames) /\ Creep(NumFrames) \in Nat
        /\ AcqWindow + Creep(NumFrames) < ShortLen
    BY <1>1, <1>2, Creeps DEF Brief
  <2> QED BY <1>1, <2>1, <2>2, Numbers
<1>3. CASE Steady
  <2>1. wh[i] - base <= AcqWindow
    BY <1>3, FoundSteady DEF PlaceInv, InWindow
  <2>2. AcqWindow + SearchRadius < ShortLen
    BY <1>3 DEF Steady
  <2> QED BY <1>1, <2>1, <2>2, Numbers
<1> QED BY <1>1, <1>2, <1>3 DEF InPlace

\* So the removal of a frame takes its header along.
LEMMA TakenLeaves ==
  ASSUME TypeOK, PlaceInv, InPlace, ~cancel_requested, NEW end, NEW i \in Found(end), Taken(i)
  PROVE  wh[i] < base'
<1>1. i \in Sent /\ wh[i] - base \in Nat /\ wh[i] - base < ShortLen
  BY FoundNear
<1>2. wh[i] \in Int /\ base \in Nat
  BY <1>1 DEF PlaceInv, Chained, TypeOK
<1>3. HeaderLen(i) \in Lengths
  BY <1>1, HeaderLenType
<1>4. CASE base' = base + HeaderLen(i)
  BY <1>1, <1>2, <1>3, <1>4, Numbers
<1>5. CASE base' = base + Searched /\ wh[i] - base < Pad + PLLen
  BY <1>1, <1>2, <1>5, Numbers
<1> QED BY <1>4, <1>5 DEF Taken

\* A step keeps the bound of the creep.
LEMMA CreepStep ==
  ASSUME TypeOK, Chained, Brief, CreepInv, Effect
  PROVE  CreepInv'
<1>0. base \in Nat /\ (\A i \in Sent : wh[i] \in Int) /\ predicted_wh_start \in Nat \union {None}
  BY DEF TypeOK, Chained
<1>1. ASSUME wh' = wh, base' \in Nat, base <= base', predicted_wh_start' \in {predicted_wh_start, None}
      PROVE  CreepInv'
  <2> SUFFICES ASSUME predicted_wh_start' # None
               PROVE  \E i \in Sent : /\ wh'[i] - base' <= predicted_wh_start'
                                      /\ predicted_wh_start' <= AcqWindow + Creep(i)
    BY DEF CreepInv, Creep
  <2>1. predicted_wh_start' = predicted_wh_start /\ predicted_wh_start \in Nat
    BY <1>0, <1>1
  <2>2. PICK i \in Sent : /\ wh[i] - base <= predicted_wh_start
                          /\ predicted_wh_start <= AcqWindow + Creep(i)
    BY <2>1 DEF CreepInv
  <2>3. wh[i] - base' <= predicted_wh_start
    BY <1>0, <1>1, <2>1, <2>2
  <2> QED BY <1>1, <2>1, <2>2, <2>3
<1>2. ASSUME NEW end, NEW i \in Found(end), wh' = wh, base' \in Nat, base <= base',
             predicted_wh_start' \in {wh[i] - base, None}
      PROVE  CreepInv'
  <2> SUFFICES ASSUME predicted_wh_start' # None
               PROVE  \E j \in Sent : /\ wh'[j] - base' <= predicted_wh_start'
                                      /\ predicted_wh_start' <= AcqWindow + Creep(j)
    BY DEF CreepInv, Creep
  <2>1. i \in Sent /\ wh[i] - base <= AcqWindow + Creep(i)
    BY FoundCreep, FoundWhere
  <2>2. wh'[i] - base' <= predicted_wh_start'
    BY <1>0, <1>2, <2>1
  <2> QED BY <1>2, <2>1, <2>2
<1>3. CASE Quiet
  BY <1>0, <1>1, <1>3 DEF Quiet
<1>4. base + Searched \in Nat /\ base <= base + Searched
  BY <1>0, Numbers
<1>5. CASE Dropped
  BY <1>1, <1>4, <1>5 DEF Dropped
<1>6. CASE \E end \in Nat : Looks(end)
  <2>1. PICK end \in Nat : Looks(end)
    BY <1>6
  <2>2. CASE Passed
    BY <1>1, <1>4, <2>2 DEF Passed
  <2>3. ASSUME NEW i \in Found(end), Noted(i) \/ Refused(i)
        PROVE  CreepInv'
    BY <1>0, <1>2, <2>3 DEF Noted, Refused
  <2>4. ASSUME NEW i \in Found(end), Taken(i)
        PROVE  CreepInv'
    <3>1. HeaderLen(i) \in Nat
      BY FoundWhere, HeaderLenType, Numbers
    <3>2. base' \in Nat /\ base <= base'
      BY <1>0, <1>4, <2>4, <3>1 DEF Taken
    <3> QED BY <1>2, <2>4, <3>2 DEF Taken
  <2> QED BY <2>1, <2>2, <2>3, <2>4 DEF Looks
<1> QED BY <1>3, <1>5, <1>6 DEF Effect

\* After a frame has been removed the next one is where it was.
LEMMA NextInWindow ==
  ASSUME TypeOK, Chained, Steady, NEW i \in Sent, InWindow(i), wh' = wh,
         base' = base + HeaderLen(i)
  PROVE  (\A j \in Sent : wh[j] < base') \/ (\E j \in Sent : InWindow(j)')
<1>1. /\ frames[i].drift = 0 /\ frames[i].len \in Nat /\ HeaderLen(i) = frames[i].len
      /\ frames[i].len >= ShortLen
      /\ Unhurried /\ AcqWindow + SearchRadius < ShortLen
  BY SteadyFacts, FrameType DEF HeaderLen
<1>2. base \in Nat /\ \A j \in Sent : wh[j] \in Int
  BY DEF TypeOK, Chained
<1>3. CASE i + 1 \in Sent
  <2>1. wh[i + 1] = wh[i] + frames[i].len
    BY <1>1, <1>2, <1>3 DEF Chained
  <2>2. wh'[i + 1] - base' = wh[i] - base
    BY <1>1, <1>2, <1>3, <2>1
  <2>3. InWindow(i + 1)'
    BY <2>2 DEF InWindow
  <2> QED BY <1>3, <2>3
<1>4. CASE i + 1 \notin Sent
  <2>1. ASSUME NEW j \in Sent PROVE wh[j] < base'
    <3>1. j < i \/ j = i
      BY <1>4, Numbers
    <3>2. wh[i] < base'
      BY <1>1, <1>2, Numbers DEF InWindow
    <3>3. CASE j < i
      <4>1. wh[j] + ShortLen <= wh[i]
        BY <1>1, <3>3, FramesApart
      <4> QED BY <1>1, <1>2, <3>2, <4>1, Numbers
    <3> QED BY <3>1, <3>2, <3>3
  <2> QED BY <2>1
<1> QED BY <1>3, <1>4

\* A step keeps the prediction of a steady transmission in the window.
LEMMA SteadyStep ==
  ASSUME TypeOK, Chained, Steady, SteadyInv, Effect
  PROVE  SteadyInv'
<1>0. /\ base \in Nat /\ (\A i \in Sent : wh[i] \in Int)
      /\ predicted_wh_start \in Nat \union {None}
      /\ base + Searched \in Nat /\ base <= base + Searched
  BY Numbers DEF TypeOK, Chained
<1>1. CASE Quiet
  <2>1. \A i \in Sent : InWindow(i)' <=> InWindow(i)
    BY <1>1 DEF Quiet, InWindow
  <2> QED BY <1>1, <2>1 DEF Quiet, SteadyInv
<1>2. CASE Dropped
  BY <1>2 DEF Dropped, SteadyInv
<1>3. ASSUME NEW end \in Nat, Found(end) = {}, Passed
      PROVE  SteadyInv'
  <2> SUFFICES ASSUME predicted_wh_start' # None PROVE SteadyInv'
    BY DEF SteadyInv
  <2>1. predicted_wh_start' = predicted_wh_start /\ predicted_wh_start # None
    BY <1>3 DEF Passed
  <2>2. ASSUME NEW i \in Sent PROVE ~InWindow(i)
    <3>1. frames[i].quality # "lost"
      BY SteadyFacts
    <3> QED BY <1>3, <3>1, NothingFound
  <2>3. \/ cancel_requested
        \/ predicted_wh_start + SearchRadius <= AcqWindow
        \/ \A i \in Sent : wh[i] < base
    BY <2>1, <2>2, Zenon DEF SteadyInv
  <2>4. (\A i \in Sent : wh[i] < base) => \A i \in Sent : wh'[i] < base'
    BY <1>0, <1>3 DEF Passed
  <2> QED BY <1>3, <2>1, <2>3, <2>4 DEF SteadyInv, Passed
<1>4. ASSUME NEW end \in Nat, NEW i \in Found(end), ~cancel_requested, Noted(i) \/ Refused(i)
      PROVE  SteadyInv'
  <2>1. i \in Sent /\ InWindow(i)
    BY <1>4, FoundSteady, FoundWhere
  <2>2. predicted_wh_start' = wh[i] - base /\ wh' = wh /\ base' = base
    BY <1>4 DEF Noted, Refused
  <2>3. InWindow(i)' /\ predicted_wh_start' <= AcqWindow
    BY <2>1, <2>2 DEF InWindow
  <2> QED BY <2>1, <2>3 DEF SteadyInv
<1>5. ASSUME NEW end \in Nat, NEW i \in Found(end), ~cancel_requested, Taken(i)
      PROVE  SteadyInv'
  <2> SUFFICES ASSUME predicted_wh_start' # None PROVE SteadyInv'
    BY DEF SteadyInv
  <2>1. i \in Sent /\ InWindow(i)
    BY <1>5, FoundSteady, FoundWhere
  <2>2. predicted_wh_start' = wh[i] - base /\ wh' = wh
    BY <1>5 DEF Taken
  <2>3. predicted_wh_start' <= AcqWindow
    BY <2>1, <2>2 DEF InWindow
  <2>4. CASE base' = base + HeaderLen(i)
    BY <2>1, <2>2, <2>3, <2>4, NextInWindow DEF SteadyInv
  <2>5. CASE base' = base + Searched /\ wh[i] - base < Pad + PLLen
    <3>1. SearchRadius <= WHLen
      BY SteadyFacts
    <3>2. predicted_wh_start' + SearchRadius <= AcqWindow
      BY <1>0, <2>1, <2>2, <2>5, <3>1, Numbers
    <3> QED BY <2>3, <3>2 DEF SteadyInv
  <2> QED BY <1>5, <2>4, <2>5 DEF Taken
<1>6. CASE ~cancel_requested /\ \E end \in Nat : Looks(end)
  BY <1>3, <1>4, <1>5, <1>6 DEF Looks
<1> QED BY <1>1, <1>2, <1>6 DEF Effect

\* The signal does not change.
LEMMA EffectChained == TypeOK /\ Chained /\ Effect => Chained' /\ UNCHANGED <<frames, wh>>
<1> SUFFICES ASSUME Effect PROVE UNCHANGED <<frames, wh>>
  BY Zenon DEF Chained
<1> QED BY Zenon DEF Effect, Quiet, Dropped, Looks, Passed, Noted, Refused, Taken

\* Nothing is predicted at first.
LEMMA PlaceInit == Init => PlaceInv
<1> SUFFICES ASSUME Init PROVE PlaceInv
  OBVIOUS
<1>1. predicted_wh_start = None
  BY DEF Init
<1> QED BY <1>1, InitChained DEF PlaceInv, CreepInv, SteadyInv

\* Every step keeps headers in their place.
LEMMA PlaceStep ==
  ASSUME TypeOK, PlaceInv, Effect
  PROVE  PlaceInv'
<1>1. Chained /\ Chained'
  BY EffectChained DEF PlaceInv
<1>2. Brief => CreepInv'
  BY <1>1, CreepStep DEF PlaceInv
<1>3. Steady => SteadyInv'
  BY <1>1, SteadyStep DEF PlaceInv
<1> QED BY <1>1, <1>2, <1>3 DEF PlaceInv, Brief, Unhurried, Creep, Steady

-----------------------------------------------------------------------------
(* Each frame once *)

\* What was returned or has entered the AFC has left the buffer.
HistoryInv ==
  /\ delivered \in Seq(Sent)
  /\ \A k \in 1 .. Len(delivered) : wh[delivered[k]] < base
  /\ ReturnedOnce
  /\ afc \in [Sent -> Nat]
  /\ \A i \in Sent \ refused : afc[i] <= 1 /\ (afc[i] # 0 => wh[i] < base)
  /\ NoGoodFrameSkipped

\* The elements of a sequence.
LEMMA Elements == ASSUME NEW S, NEW s \in Seq(S) PROVE \A k \in 1 .. Len(s) : s[k] \in S
OBVIOUS

\* At first nothing has been returned, and no header lies before the buffer.
LEMMA HistoryInit == Init /\ InPlace => HistoryInv
<1> SUFFICES ASSUME Init, InPlace PROVE HistoryInv
  OBVIOUS
<1>1. delivered = <<>> /\ afc = [i \in Sent |-> 0] /\ base = 0
  BY DEF Init
<1>2. ASSUME NEW i \in Sent PROVE ~(wh[i] < 0)
  <2>1. TypeOK /\ Chained
    BY InitDemodInv, InitChained DEF DemodInv
  <2>2. Unhurried
    BY <2>1, SteadyFacts DEF InPlace, Brief
  <2>3. 1 \in Sent /\ (i = 1 \/ 1 < i)
    BY Numbers
  <2>4. CASE 1 < i
    <3>1. wh[1] + ShortLen <= wh[i] /\ wh[1] \in Int /\ wh[i] \in Int
      BY <2>1, <2>2, <2>3, <2>4, FramesApart
    <3> QED BY <2>1, <2>3, <3>1, Numbers DEF Chained
  <2>5. wh[i] \in Int
    BY <2>1 DEF Chained
  <2> QED BY <2>1, <2>3, <2>4, <2>5 DEF Chained
<1>3. delivered \in Seq(Sent) /\ Len(delivered) = 0
  BY <1>1
<1>4. ReturnedOnce
  BY <1>3 DEF ReturnedOnce
<1>5. NoGoodFrameSkipped
  BY <1>1, <1>2 DEF NoGoodFrameSkipped
<1>6. afc \in [Sent -> Nat] /\ \A i \in Sent : afc[i] = 0
  BY <1>1
<1> QED BY <1>3, <1>4, <1>5, <1>6 DEF HistoryInv

\* A call that returns no frame and feeds no AFC.
LEMMA HistorySame ==
  ASSUME TypeOK, Chained, HistoryInv, UNCHANGED <<frames, wh, delivered, afc, cut, refused>>,
         base' \in Int, base <= base',
         ~cancel_requested' => ~cancel_requested,
         ~cancel_requested' /\ NoneWrong =>
           \A j \in Sent : frames[j].quality = "good" /\ base <= wh[j] => ~(wh[j] < base')
  PROVE  HistoryInv'
<1>0. base \in Nat /\ \A j \in Sent : wh[j] \in Int
  BY DEF TypeOK, Chained
<1>1. \A j \in Sent : wh[j] < base => wh'[j] < base'
  BY <1>0
<1>2. \A k \in 1 .. Len(delivered) : delivered[k] \in Sent
  <2>1. delivered \in Seq(Sent)
    BY DEF HistoryInv
  <2> QED BY <2>1, Elements, Zenon
<1>3. NoGoodFrameSkipped'
  <2> SUFFICES ASSUME ~cancel_requested', NoneWrong', NEW j \in Sent,
                      frames'[j].quality = "good", wh'[j] < base'
               PROVE  j \in cut' \/ \E k \in 1 .. Len(delivered') : delivered'[k] = j
    BY DEF NoGoodFrameSkipped
  <2>1. ~cancel_requested /\ NoneWrong /\ frames[j].quality = "good"
    BY DEF NoneWrong
  <2>2. wh[j] < base
    BY <1>0, <2>1
  <2> QED BY <2>1, <2>2 DEF HistoryInv, NoGoodFrameSkipped
<1>4. ReturnedOnce'
  BY DEF HistoryInv, ReturnedOnce
<1> QED BY <1>1, <1>2, <1>3, <1>4 DEF HistoryInv

\* The AFC takes in the header of frame i, which leaves the buffer or is refused.
LEMMA AfcOnce ==
  ASSUME TypeOK, Chained, HistoryInv, NEW i \in Sent, wh[i] - base \in Nat, wh' = wh,
         afc' \in {afc, [afc EXCEPT ![i] = Count(@, 2)]},
         base' \in Int, base <= base', refused \subseteq refused',
         wh[i] < base' \/ i \in refused'
  PROVE  /\ afc' \in [Sent -> Nat]
         /\ \A j \in Sent \ refused' : afc'[j] <= 1 /\ (afc'[j] # 0 => wh'[j] < base')
<1>0. base \in Nat /\ afc \in [Sent -> Nat] /\ \A j \in Sent : wh[j] \in Int
  BY DEF TypeOK, Chained, HistoryInv
<1>1. \A c \in Nat : Count(c, 2) \in Nat /\ (c = 0 => Count(c, 2) = 1)
  BY DEF Count
<1>2. afc' \in [Sent -> Nat]
  BY <1>0, <1>1
<1>3. ASSUME NEW j \in Sent \ refused'
      PROVE  afc'[j] <= 1 /\ (afc'[j] # 0 => wh'[j] < base')
  <2>1. afc[j] <= 1 /\ (afc[j] # 0 => wh[j] < base) /\ afc[j] \in Nat
    BY <1>0 DEF HistoryInv
  <2>2. CASE afc'[j] = afc[j]
    BY <1>0, <2>1, <2>2
  <2>3. CASE afc'[j] # afc[j]
    <3>1. j = i /\ afc'[j] = Count(afc[i], 2)
      BY <1>0, <2>3
    <3>2. afc[i] = 0
      BY <1>0, <2>1, <3>1
    <3>3. afc'[j] = 1
      BY <1>1, <3>1, <3>2
    <3> QED BY <3>1, <3>3
  <2> QED BY <2>2, <2>3
<1> QED BY <1>2, <1>3

\* A frame that is refused stays, and may enter the AFC again.
LEMMA RefusedHistory ==
  ASSUME TypeOK, Chained, HistoryInv, NEW i \in Sent, wh[i] - base \in Nat, Refused(i)
  PROVE  HistoryInv'
<1>1. base \in Nat /\ i \in refused' /\ refused \subseteq refused' /\ wh' = wh /\ base' = base
  BY DEF TypeOK, Refused
<1>2. /\ afc' \in [Sent -> Nat]
      /\ \A j \in Sent \ refused' : afc'[j] <= 1 /\ (afc'[j] # 0 => wh'[j] < base')
  BY <1>1, AfcOnce DEF Refused
<1>3. delivered' = delivered /\ cut \subseteq cut' /\ frames' = frames
      /\ cancel_requested' = cancel_requested
  BY DEF Refused
<1>4. ReturnedOnce' /\ NoGoodFrameSkipped'
  BY <1>1, <1>3 DEF HistoryInv, ReturnedOnce, NoGoodFrameSkipped, NoneWrong
<1> QED BY <1>1, <1>2, <1>3, <1>4 DEF HistoryInv

\* A frame is removed: no good frame lies between the front and its header, and the
\* next one begins where it ends.
LEMMA NoneBetween ==
  ASSUME TypeOK, Chained, Unhurried, NEW i \in Sent, wh[i] - base \in Nat,
         wh[i] - base < ShortLen, NoneWrong, Taken(i),
         NEW j \in Sent, base <= wh[j], wh[j] < base'
  PROVE  j = i
<1>1. HeaderLen(i) = frames[i].len /\ frames[i].len \in Nat /\ ShortLen <= frames[i].len
  BY FrameType DEF HeaderLen, NoneWrong
<1>2. base \in Nat /\ wh[i] \in Int /\ wh[j] \in Int
  BY DEF TypeOK, Chained
<1>3. base' \in Int /\ base' <= base + frames[i].len
  BY <1>1, <1>2, Numbers DEF Taken
<1>4. CASE i < j
  <2>1. wh[i] + frames[i].len <= wh[j]
    BY <1>4, ChainedSpaced DEF Spaced
  <2> QED BY <1>1, <1>2, <1>3, <2>1
<1>5. CASE j < i
  <2>1. wh[j] + ShortLen <= wh[i]
    BY <1>5, FramesApart
  <2> QED BY <1>2, <2>1, Numbers
<1>6. i < j \/ j < i \/ j = i
  BY Numbers
<1> QED BY <1>4, <1>5, <1>6

\* A frame is removed, and returned if it is good and whole.
LEMMA TakenHistory ==
  ASSUME TypeOK, Chained, Unhurried, HistoryInv, ~cancel_requested, NEW i \in Sent,
         wh[i] - base \in Nat, wh[i] - base < ShortLen, Taken(i), wh[i] < base'
  PROVE  HistoryInv'
<1>0. base \in Nat /\ (\A j \in Sent : wh[j] \in Int) /\ delivered \in Seq(Sent)
  BY DEF TypeOK, Chained, HistoryInv
<1>1. HeaderLen(i) \in Lengths
  BY HeaderLenType
<1>2. base' \in Int /\ base <= base' /\ wh' = wh /\ frames' = frames /\ refused' = refused
      /\ cut \subseteq cut'
  <2>1. HeaderLen(i) \in Nat
    BY <1>1, Numbers
  <2>2. base' = base + HeaderLen(i) \/ base' = base + Searched
    BY DEF Taken
  <2>3. base' \in Int /\ base <= base'
    BY <1>0, <2>1, <2>2, Numbers
  <2> QED BY <2>3, Zenon DEF Taken
<1>3. /\ afc' \in [Sent -> Nat]
      /\ \A j \in Sent \ refused' : afc'[j] <= 1 /\ (afc'[j] # 0 => wh'[j] < base')
  BY <1>2, AfcOnce DEF Taken
<1>4. \A k \in 1 .. Len(delivered) : delivered[k] \in Sent /\ wh[delivered[k]] < base
  <2>1. \A k \in 1 .. Len(delivered) : wh[delivered[k]] < base
    BY DEF HistoryInv
  <2>2. \A k \in 1 .. Len(delivered) : delivered[k] \in Sent
    BY <1>0, Elements, Zenon
  <2> QED BY <2>1, <2>2
<1>5. \A k \in 1 .. Len(delivered) : delivered[k] < i /\ delivered[k] \in Sent
  <2> TAKE k \in 1 .. Len(delivered)
  <2>1. delivered[k] \in Sent /\ wh[delivered[k]] < wh[i]
    BY <1>0, <1>4
  <2>2. CASE i < delivered[k]
    <3>1. wh[i] + ShortLen <= wh[delivered[k]]
      BY <2>1, <2>2, FramesApart
    <3>2. wh[i] \in Int /\ wh[delivered[k]] \in Int /\ ShortLen \in Nat
      BY <1>0, <2>1, Numbers
    <3> QED BY <2>1, <3>1, <3>2
  <2>3. delivered[k] # i
    BY <1>0, <2>1
  <2> QED BY <2>1, <2>2, <2>3, Numbers
<1>6. delivered' = delivered \/ delivered' = Append(delivered, i)
  BY DEF Taken
<1>7. CASE delivered' = delivered
  <2>1. delivered' \in Seq(Sent) /\ ReturnedOnce'
    BY <1>0, <1>7 DEF HistoryInv, ReturnedOnce
  <2>2. \A k \in 1 .. Len(delivered') : wh'[delivered'[k]] < base'
    BY <1>0, <1>2, <1>4, <1>7
  <2>3. NoGoodFrameSkipped'
    <3> SUFFICES ASSUME ~cancel_requested', NoneWrong', NEW j \in Sent,
                        frames'[j].quality = "good", wh'[j] < base'
                 PROVE  j \in cut' \/ \E k \in 1 .. Len(delivered') : delivered'[k] = j
      BY DEF NoGoodFrameSkipped
    <3>1. NoneWrong /\ frames[j].quality = "good" /\ wh[j] < base'
      BY <1>2 DEF NoneWrong
    <3>2. CASE wh[j] < base
      BY <1>2, <1>7, <3>1, <3>2 DEF HistoryInv, NoGoodFrameSkipped
    <3>3. CASE ~(wh[j] < base)
      <4>1. j = i
        BY <1>0, <3>1, <3>3, NoneBetween
      <4>2. delivered' # Append(delivered, i)
        BY <1>0, <1>7
      <4> QED BY <3>1, <4>1, <4>2 DEF Taken
    <3> QED BY <3>2, <3>3
  <2> QED BY <1>3, <2>1, <2>2, <2>3 DEF HistoryInv
<1>8. CASE delivered' = Append(delivered, i)
  <2>0. Len(delivered) \in Nat
    BY <1>0
  <2>1. /\ delivered' \in Seq(Sent) /\ Len(delivered') = Len(delivered) + 1
        /\ \A k \in 1 .. Len(delivered) : delivered'[k] = delivered[k]
        /\ delivered'[Len(delivered) + 1] = i
    BY <1>0, <1>8
  <2>2. \A k \in 1 .. Len(delivered') : wh'[delivered'[k]] < base'
    <3> TAKE k \in 1 .. Len(delivered')
    <3>1. CASE k = Len(delivered) + 1
      BY <1>2, <2>1, <3>1
    <3>2. CASE k \in 1 .. Len(delivered)
      <4>1. wh[delivered[k]] < base /\ wh[delivered[k]] \in Int
        BY <1>0, <1>4, <3>2
      <4> QED BY <1>0, <1>2, <2>1, <3>2, <4>1
    <3> QED BY <2>0, <2>1, <3>1, <3>2
  <2>3. ReturnedOnce'
    <3> SUFFICES ASSUME NEW j \in 1 .. Len(delivered'), NEW k \in 1 .. Len(delivered'), j < k
                 PROVE  delivered'[j] < delivered'[k]
      BY DEF ReturnedOnce
    <3>1. j \in 1 .. Len(delivered)
      BY <2>0, <2>1
    <3>2. CASE k = Len(delivered) + 1
      BY <1>5, <2>1, <3>1, <3>2
    <3>3. CASE k \in 1 .. Len(delivered)
      BY <2>1, <3>1, <3>3 DEF HistoryInv, ReturnedOnce
    <3> QED BY <2>0, <2>1, <3>2, <3>3
  <2>4. NoGoodFrameSkipped'
    <3> SUFFICES ASSUME ~cancel_requested', NoneWrong', NEW j \in Sent,
                        frames'[j].quality = "good", wh'[j] < base'
                 PROVE  j \in cut' \/ \E k \in 1 .. Len(delivered') : delivered'[k] = j
      BY DEF NoGoodFrameSkipped
    <3>1. NoneWrong /\ frames[j].quality = "good" /\ wh[j] < base'
      BY <1>2 DEF NoneWrong
    <3>2. CASE wh[j] < base
      <4>1. j \in cut \/ \E k \in 1 .. Len(delivered) : delivered[k] = j
        BY <3>1, <3>2 DEF HistoryInv, NoGoodFrameSkipped
      <4>2. \A k \in 1 .. Len(delivered) : k \in 1 .. Len(delivered')
        BY <2>0, <2>1
      <4> QED BY <1>2, <2>1, <4>1, <4>2
    <3>3. CASE ~(wh[j] < base)
      <4>1. j = i
        BY <1>0, <3>1, <3>3, NoneBetween
      <4>2. Len(delivered) + 1 \in 1 .. Len(delivered')
        BY <2>0, <2>1
      <4> QED BY <2>1, <4>1, <4>2
    <3> QED BY <3>2, <3>3
  <2> QED BY <1>3, <2>1, <2>2, <2>3, <2>4 DEF HistoryInv
<1> QED BY <1>6, <1>7, <1>8

\* Every step keeps what was returned in order and behind.
LEMMA HistoryStep ==
  ASSUME TypeOK, PlaceInv, InPlace, HistoryInv, Effect
  PROVE  HistoryInv'
<1>0. Chained /\ Unhurried /\ base \in Nat /\ \A j \in Sent : wh[j] \in Int
  BY SteadyFacts DEF PlaceInv, Chained, TypeOK, InPlace, Brief
<1>1. base + Searched \in Nat /\ base <= base + Searched /\ base <= base
  BY <1>0, Numbers
<1>2. CASE Quiet
  <2>1. \A j \in Sent : base <= wh[j] => ~(wh[j] < base)
    BY <1>0
  <2> QED BY <1>0, <1>1, <1>2, <2>1, HistorySame DEF Quiet
<1>3. CASE Dropped
  BY <1>0, <1>1, <1>3, HistorySame DEF Dropped
<1>4. ASSUME NEW end \in Nat, Found(end) = {}, Passed PROVE HistoryInv'
  <2>1. ASSUME NEW j \in Sent, frames[j].quality = "good", base <= wh[j], wh[j] < base + Searched
        PROVE  FALSE
    <3>1. ~InWindow(j)
      BY <1>0, <1>4, <2>1, NothingFound
    <3>2. InWindow(j)
      BY <1>0, <2>1, Numbers DEF InWindow
    <3> QED BY <3>1, <3>2
  <2> QED BY <1>0, <1>1, <1>4, <2>1, HistorySame DEF Passed
<1>5. ASSUME NEW end \in Nat, NEW i \in Found(end), ~cancel_requested,
             Noted(i) \/ Refused(i) \/ Taken(i)
      PROVE  HistoryInv'
  <2>1. i \in Sent /\ wh[i] - base \in Nat /\ wh[i] - base < ShortLen
    BY <1>5, FoundNear
  <2>2. CASE Noted(i)
    <3>1. \A j \in Sent : base <= wh[j] => ~(wh[j] < base)
      BY <1>0
    <3> QED BY <1>0, <1>1, <2>2, <3>1, HistorySame DEF Noted
  <2>3. CASE Refused(i)
    BY <1>0, <2>1, <2>3, RefusedHistory
  <2>4. CASE Taken(i)
    <3>1. wh[i] < base'
      BY <1>5, <2>4, TakenLeaves
    <3> QED BY <1>0, <1>5, <2>1, <2>4, <3>1, TakenHistory
  <2> QED BY <1>5, <2>2, <2>3, <2>4
<1>6. CASE ~cancel_requested /\ \E end \in Nat : Looks(end)
  BY <1>4, <1>5, <1>6 DEF Looks
<1> QED BY <1>2, <1>3, <1>6 DEF Effect

\* A frame that is returned has its header removed.
LEMMA ReturnLeaves ==
  ASSUME TypeOK, PlaceInv, InPlace, HistoryInv, Effect,
         NEW i \in Sent, delivered' = Append(delivered, i)
  PROVE  wh[i] < base'
<1>1. delivered \in Seq(Sent)
  BY DEF HistoryInv
<1>2. delivered' # delivered
  BY <1>1
<1>3. PICK end \in Nat, k \in Sent : ~cancel_requested /\ k \in Found(end) /\ Taken(k)
  BY <1>2, FoundWhere DEF Effect, Quiet, Dropped, Looks, Passed, Noted, Refused
<1>4. delivered' = Append(delivered, k)
  BY <1>2, <1>3 DEF Taken
<1>5. k = i
  <2>1. delivered'[Len(delivered) + 1] = k
    BY <1>1, <1>4
  <2>2. delivered'[Len(delivered) + 1] = i
    BY <1>1
  <2> QED BY <2>1, <2>2
<1> QED BY <1>3, <1>5, TakenLeaves

\* All of it, the inductive invariant of the four theorems below.
ReturnInv == TypeOK /\ LockInv /\ PlaceInv /\ HistoryInv

\* It holds at first.
LEMMA ReturnInit == Init /\ InPlace => ReturnInv
BY InitDemodInv, PlaceInit, HistoryInit DEF ReturnInv, DemodInv

\* Every step keeps it.
LEMMA ReturnStep == InPlace /\ ReturnInv /\ [Next]_vars => ReturnInv' /\ Effect
<1> SUFFICES ASSUME InPlace, ReturnInv, [Next]_vars PROVE ReturnInv' /\ Effect
  OBVIOUS
<1>1. TypeOK /\ LockInv /\ PlaceInv /\ HistoryInv /\ Chained
  BY DEF ReturnInv, PlaceInv
<1>2. TypeOK' /\ LockInv'
  BY <1>1, NextDemodInv DEF DemodInv
<1>3. Effect
  BY <1>1, Effects
<1>4. PlaceInv' /\ HistoryInv'
  BY <1>1, <1>3, PlaceStep, HistoryStep
<1> QED BY <1>2, <1>3, <1>4 DEF ReturnInv

\* ReturnedOnce: demodulate_stream_ex returns no frame twice and none out of order,
\* while the place where it expects headers has not crept back by a frame.
THEOREM FramesReturnedOnce == ASSUME InPlace PROVE Spec => []ReturnedOnce
<1>1. ReturnInv => ReturnedOnce
  BY DEF ReturnInv, HistoryInv
<1> QED BY <1>1, ReturnInit, ReturnStep, PTL DEF Spec

\* NoGoodFrameSkipped: no removal of dvbs2x_demodulate_stream_ex, after a frame or
\* after a failed search, takes a good frame that was not returned.
THEOREM NoneSkipped == ASSUME InPlace PROVE Spec => []NoGoodFrameSkipped
<1>1. ReturnInv => NoGoodFrameSkipped
  BY DEF ReturnInv, HistoryInv
<1> QED BY <1>1, ReturnInit, ReturnStep, PTL DEF Spec

\* AfcOncePerFrame: a header enters the AFC once, however often the rest of its
\* frame is awaited.
THEOREM AfcFedOnce == ASSUME InPlace PROVE Spec => []AfcOncePerFrame
<1>1. ReturnInv => AfcOncePerFrame
  BY DEF ReturnInv, HistoryInv, AfcOncePerFrame
<1> QED BY <1>1, ReturnInit, ReturnStep, PTL DEF Spec

\* FrameLeavesBuffer, which fails without the hypothesis: the removal takes the
\* header of the frame returned out of the buffer.
THEOREM ReturnedFramesLeave == ASSUME InPlace PROVE Spec => FrameLeavesBuffer
<1>1. InPlace /\ ReturnInv /\ Effect =>
        [\A i \in Sent : delivered' = Append(delivered, i) => wh[i] < base']_vars
  BY ReturnLeaves DEF ReturnInv
<1> QED BY <1>1, ReturnInit, ReturnStep, PTL DEF Spec, FrameLeavesBuffer
=============================================================================
