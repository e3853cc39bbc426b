---------------------------- MODULE StreamDemod ----------------------------
(***************************************************************************)
(* The streaming demodulator of src/demodulator_top.c: demodulate_stream_ex*)
(* with the receiver core it calls and the lock state machine it keeps.    *)
(* The received signal is a line of positions; a frame is a Walsh-Hadamard *)
(* header at one of them and a length.  The samples between are abstracted *)
(* away, and what the signal processing makes of a frame is its quality:   *)
(*   good   its header is found and its payload decodes                    *)
(*   bad    its header is found, FEC or CRC fails                          *)
(*   lost   its header correlates below the confidence threshold           *)
(*   wrong  its header is taken for one of the other length; FEC fails     *)
(* One position stands for many symbols: the constants keep the order of   *)
(* the code's lengths, not their ratio, and sps is 1.                      *)
(***************************************************************************)
EXTENDS Integers, Sequences, FiniteSets

CONSTANTS
  AcqWindow,     \* ACQ_WINDOW: last header offset the full search looks at
  WHLen,         \* DVBS2X_VLSNR_WH_LEN
  SearchRadius,  \* TRACK_SEARCH_RADIUS
  PLLen,         \* header's offset in its frame (DVBS2X_PLHEADER_LEN + 2)
  ShortLen,      \* DVBS2X_VLSNR_FRAME_SHORT
  LongLen,       \* DVBS2X_VLSNR_FRAME_LONG
  Pad,           \* what the zero tail adds past the buffered samples
  NumFrames,     \* bound of the model: frames transmitted
  Qualities,     \* qualities a transmitted frame may have
  Gaps,          \* noise before the first frame
  Drifts,        \* excess of a frame's received length over its nominal one
  Trail,         \* noise after the last frame
  Chunks,        \* numbers of samples the application passes in one call
  Disturbed      \* whether the application may cancel or offer small buffers

Lengths == {ShortLen, LongLen}

ASSUME DemodAssumption ==
  /\ {AcqWindow, WHLen, SearchRadius, PLLen, ShortLen, LongLen, Pad,
      NumFrames, Trail} \subseteq Nat
  /\ Gaps \subseteq Nat /\ Chunks \subseteq Nat \ {0} /\ Drifts \subseteq Int
  /\ Qualities \subseteq {"good", "bad", "lost", "wrong"}
  /\ Disturbed \in BOOLEAN
  /\ AcqWindow + WHLen <= ShortLen /\ ShortLen < LongLen
  /\ AcqWindow - WHLen > Pad + PLLen

LOCK_THRESH == 3
LOSS_THRESH == 3

Sent == 1 .. NumFrames
None == -1

VARIABLES
  \* the transmission: each frame's length and quality, its header's position
  frames, wh,
  \* stream_buf holds the positions base .. fed - 1
  base, fed,
  \* struct dvbs2x_demodulator
  state, consecutive_successes, consecutive_failures, expected_frame_len,
  predicted_wh_start,       \* None while have_wh_prediction is 0
  modcod,                   \* length of the frames of demod->modcod
  cancel_requested,
  \* the last call: what it returned
  result,
  \* history, read by no guard: frames returned, in order; the outcomes of
  \* the last three calls that counted; how often a frame's header entered
  \* the AFC; frames decoded without their last samples; frames that did not
  \* fit the caller's buffer
  delivered, outcomes, afc, cut, refused

signal  == <<frames, wh>>
lock    == <<state, consecutive_successes, consecutive_failures>>
history == <<delivered, outcomes, afc, cut, refused>>
vars == <<signal, base, fed, lock, expected_frame_len, predicted_wh_start,
          modcod, cancel_requested, result, history>>

Init ==
  /\ frames \in [Sent -> [len : Lengths, quality : Qualities, drift : Drifts]]
  /\ \E gap \in Gaps :
       wh = [i \in Sent |->
               LET at[k \in Sent] ==
                     IF k = 1 THEN gap + PLLen
                     ELSE at[k - 1] + frames[k - 1].len + frames[k - 1].drift
               IN at[i]]
  /\ base = 0 /\ fed = 0
  /\ state = "SEARCH"
  /\ consecutive_successes = 0 /\ consecutive_failures = 0
  /\ expected_frame_len = 0 /\ predicted_wh_start = None /\ modcod = 0
  /\ cancel_requested = FALSE
  /\ result = "OK"
  /\ delivered = <<>> /\ outcomes = <<"none", "none", "none">>
  /\ afc = [i \in Sent |-> 0] /\ cut = {} /\ refused = {}

\* Where the transmission ends.
SignalEnd == wh[NumFrames] - PLLen + frames[NumFrames].len + Trail
-----------------------------------------------------------------------------
(* Looking for a header                                                    *)

\* The frame length the receiver reads from frame i's header.
HeaderLen(i) ==
  IF frames[i].quality = "wrong" THEN ShortLen + LongLen - frames[i].len
                                 ELSE frames[i].len

HeadersIn(lo, hi) == {i \in Sent : /\ frames[i].quality # "lost"
                                   /\ wh[i] - base \in lo .. hi}

\* Headers of the current MODCOD near the predicted offset, which may lie
\* beyond the acquisition window; the buffer ends at position end.
Predicted(end) ==
  IF state = "SEARCH" \/ predicted_wh_start = None THEN {}
  ELSE {i \in HeadersIn(0, predicted_wh_start + SearchRadius) :
          /\ wh[i] - base >= predicted_wh_start - SearchRadius
          /\ wh[i] + WHLen <= end
          /\ HeaderLen(i) = modcod}

\* Faulty variant of Found: a failed prediction is not searched again.
FoundPredicted(end) ==
  IF state # "SEARCH" /\ predicted_wh_start # None THEN Predicted(end)
                                                   ELSE HeadersIn(0, AcqWindow)

\* The frame the synchroniser settles on, if any.
Found(end) == IF Predicted(end) # {} THEN Predicted(end)
                                     ELSE HeadersIn(0, AcqWindow)

\* Position one past frame i, as its header tells it.
End(i) == wh[i] - PLLen + HeaderLen(i)
-----------------------------------------------------------------------------
(* Parts of a call                                                         *)

\* in_len new samples join the buffer.
Feed(n) == /\ fed + n <= SignalEnd
           /\ fed' = fed + n

\* The buffer is worth a decode attempt.
Ready(n) == /\ fed + n - base >= ShortLen
            /\ fed + n - base >= expected_frame_len

Outcome(what) == outcomes' = <<what, outcomes[1], outcomes[2]>>

\* Thresholds are all the counters are compared with, so they stop there.
Count(c, limit) == IF c < limit THEN c + 1 ELSE c

\* Faulty variant of LockSuccess: old failures still count.
LockSuccessKeeps ==
  /\ consecutive_successes' = Count(consecutive_successes, LOCK_THRESH)
  /\ state' = CASE state = "TRACK" -> "TRACK"
                [] consecutive_successes' >= LOCK_THRESH -> "TRACK"
                [] OTHER -> "ACQUIRE"
  /\ UNCHANGED consecutive_failures
  /\ Outcome("ok")

\* dvbs2x_demod_lock_update(demod, 1)
LockSuccess ==
  /\ consecutive_successes' = Count(consecutive_successes, LOCK_THRESH)
  /\ consecutive_failures' = 0
  /\ state' = CASE state = "TRACK" -> "TRACK"
                [] consecutive_successes' >= LOCK_THRESH -> "TRACK"
                [] OTHER -> "ACQUIRE"
  /\ Outcome("ok")

LosesLock == state = "TRACK" /\ consecutive_failures + 1 >= LOSS_THRESH

\* dvbs2x_demod_lock_update(demod, 0)
LockFailure ==
  /\ consecutive_successes' = 0
  /\ consecutive_failures' =
       IF LosesLock THEN 0 ELSE Count(consecutive_failures, LOSS_THRESH)
  /\ state' = IF LosesLock THEN "SEARCH" ELSE state
  /\ Outcome("fail")

\* What the call leaves of the expected length and of the prediction, given
\* what the decode made of them.
Expect(len, offset) ==
  /\ expected_frame_len' = len
  /\ predicted_wh_start' = offset

ExpectAfterFailure(len, offset) ==
  IF LosesLock THEN Expect(0, None) ELSE Expect(len, offset)

\* Faulty variant of Searched: the overlap is not kept.
SearchedPast == AcqWindow + WHLen

\* A failed search may drop this much: a header may begin in the rest.
Searched == AcqWindow - WHLen

\* Faulty variant of Remove: a frame longer than the buffer is dropped whole.
RemoveWhole(n, len) == base' = base + (IF len = 0 THEN Searched ELSE len)

\* Faulty variant of Remove: only the front of the frame is dropped.
RemoveFront(n, len) ==
  base' = base + (IF len > fed + n - base THEN 1 ELSE len)

\* len samples leave the buffer (0: no frame was identified).
Remove(n, len) ==
  LET held == fed + n - base
  IN base' = base + (IF len \notin 1 .. held
                     THEN IF Searched > held THEN held ELSE Searched
                     ELSE len)

\* Frame i is identified: what the decode and its caller note down of it.
Identify(i) == modcod' = HeaderLen(i)

\* The AFC takes in the header of a frame, in streaming mode only.
UpdateAfc(i) == afc' = IF state = "SEARCH" THEN afc
                       ELSE [afc EXCEPT ![i] = Count(@, 2)]

\* Its data field ends within the buffer and the zero tail behind it.
Complete(i, n) == End(i) <= fed + n + Pad

\* A call that gets as far as the receiver core.
Attempt(n) == /\ Feed(n)
              /\ Ready(n)
              /\ UNCHANGED signal

\* A call whose decode has a whole frame to work on: frame i.
Decode(n, i) == /\ Attempt(n)
                /\ ~cancel_requested
                /\ i \in Found(fed + n)
                /\ Complete(i, n)
                /\ Identify(i)
                /\ UpdateAfc(i)
                /\ cut' = IF End(i) > fed + n THEN cut \union {i} ELSE cut
-----------------------------------------------------------------------------
(* The ways demodulate_stream_ex returns                                   *)

\* Too little is buffered; nothing but the buffer changes.
CallShort(n) ==
  /\ Feed(n)
  /\ ~Ready(n)
  /\ result' = "SHORT"
  /\ UNCHANGED <<signal, base, lock, expected_frame_len, predicted_wh_start,
                 modcod, cancel_requested, history>>

\* A cancelled receiver fails at once, and still advances.
CallCancelled(n) ==
  /\ Attempt(n)
  /\ cancel_requested
  /\ result' = "CANCELLED"
  /\ LockFailure
  /\ ExpectAfterFailure(expected_frame_len, predicted_wh_start)
  /\ Remove(n, 0)
  /\ UNCHANGED <<modcod, cancel_requested, delivered, afc, cut, refused>>

\* Faulty variant of CallNoSync: the examined samples stay.
CallNoSyncStays(n) ==
  /\ Attempt(n)
  /\ ~cancel_requested
  /\ Found(fed + n) = {}
  /\ result' = "NOSYNC"
  /\ LockFailure
  /\ ExpectAfterFailure(expected_frame_len, predicted_wh_start)
  /\ UNCHANGED <<base, modcod, cancel_requested, delivered, afc, cut, refused>>

CallNoSync(n) ==
  /\ Attempt(n)
  /\ ~cancel_requested
  /\ Found(fed + n) = {}
  /\ result' = "NOSYNC"
  /\ LockFailure
  /\ ExpectAfterFailure(expected_frame_len, predicted_wh_start)
  /\ Remove(n, 0)
  /\ UNCHANGED <<modcod, cancel_requested, delivered, afc, cut, refused>>

\* Faulty variant of CallIncomplete: the AFC is fed before the length test.
CallIncompleteAfc(n) ==
  /\ Attempt(n)
  /\ ~cancel_requested
  /\ \E i \in Found(fed + n) :
       /\ ~Complete(i, n)
       /\ Identify(i)
       /\ UpdateAfc(i)
       /\ Expect(HeaderLen(i), wh[i] - base)
  /\ result' = "SHORT"
  /\ UNCHANGED <<base, lock, cancel_requested, delivered, outcomes, cut, refused>>

\* The header is there, the end of the frame is not.
CallIncomplete(n) ==
  /\ Attempt(n)
  /\ ~cancel_requested
  /\ \E i \in Found(fed + n) :
       /\ ~Complete(i, n)
       /\ Identify(i)
       /\ Expect(HeaderLen(i), wh[i] - base)
  /\ result' = "SHORT"
  /\ UNCHANGED <<base, lock, cancel_requested, history>>

\* A frame is returned.
CallOk(n) ==
  \E i \in Sent :
    /\ Decode(n, i)
    /\ frames[i].quality = "good"
    /\ result' = "OK"
    /\ delivered' = Append(delivered, i)
    /\ LockSuccess
    /\ Expect(HeaderLen(i), wh[i] - base)
    /\ Remove(n, HeaderLen(i))
    /\ UNCHANGED <<cancel_requested, refused>>

\* A frame decodes and the caller's buffer cannot take it: it is kept.
CallNoRoom(n) ==
  \E i \in Sent :
    /\ Decode(n, i)
    /\ frames[i].quality = "good"
    /\ result' = "SHORT"
    /\ refused' = refused \union {i}
    /\ Expect(HeaderLen(i), wh[i] - base)
    /\ UNCHANGED <<base, lock, cancel_requested, delivered, outcomes>>

\* FEC or CRC fails, as it may for a good frame short of its last samples.
CallFail(n) ==
  \E i \in Sent :
    /\ Decode(n, i)
    /\ frames[i].quality # "good" \/ i \in cut'
    /\ result' = "FEC"
    /\ LockFailure
    /\ ExpectAfterFailure(HeaderLen(i), wh[i] - base)
    /\ Remove(n, HeaderLen(i))
    /\ UNCHANGED <<cancel_requested, delivered, refused>>

\* request_cancel arrives while the LDPC decoder iterates.
CallInterrupted(n) ==
  \E i \in Sent :
    /\ Decode(n, i)
    /\ cancel_requested' = TRUE
    /\ result' = "CANCELLED"
    /\ LockFailure
    /\ ExpectAfterFailure(HeaderLen(i), wh[i] - base)
    /\ Remove(n, HeaderLen(i))
    /\ UNCHANGED <<delivered, refused>>

\* dvbs2x_demodulator_request_cancel between two calls
RequestCancel ==
  /\ ~cancel_requested
  /\ cancel_requested' = TRUE
  /\ UNCHANGED <<signal, base, fed, lock, expected_frame_len,
                 predicted_wh_start, modcod, result, history>>

\* A call with n new samples and room for any frame.
Call(n) == \/ CallShort(n) \/ CallCancelled(n) \/ CallNoSync(n)
           \/ CallIncomplete(n) \/ CallOk(n) \/ CallFail(n)

Next == \/ \E n \in Chunks \union {0} : Call(n)
        \/ /\ Disturbed
           /\ \/ \E n \in Chunks \union {0} : CallNoRoom(n) \/ CallInterrupted(n)
              \/ RequestCancel

Spec == Init /\ [][Next]_vars

\* The application feeds what it receives and drains the buffer.
FairSpec == /\ Spec
            /\ WF_vars(\E n \in Chunks : Call(n))
            /\ WF_vars(Call(0))
-----------------------------------------------------------------------------
(* Properties                                                              *)

\* struct dvbs2x_demodulator and the buffer's bounds have their types.
TypeOK ==
  /\ frames \in [Sent -> [len : Lengths, quality : Qualities, drift : Drifts]]
  /\ base \in Nat /\ fed \in Nat /\ base <= fed
  /\ state \in {"SEARCH", "ACQUIRE", "TRACK"}
  /\ consecutive_successes \in 0 .. LOCK_THRESH
  /\ consecutive_failures \in 0 .. LOSS_THRESH
  /\ expected_frame_len \in {0} \union Lengths
  /\ predicted_wh_start \in Nat \union {None}
  /\ modcod \in {0} \union Lengths
  /\ cancel_requested \in BOOLEAN
  /\ result \in {"OK", "SHORT", "NOSYNC", "FEC", "CANCELLED"}
  /\ outcomes \in [1 .. 3 -> {"ok", "fail", "none"}]

\* No frame is returned twice and none out of order: a frame that was decoded
\* is out of the buffer, although its length may be unknown to the removal
\* or exceed what is buffered (frame_samples > stream_len).
ReturnedOnce ==
  \A j, k \in 1 .. Len(delivered) : j < k => delivered[j] < delivered[k]

Thrice(what) == \A k \in 1 .. 3 : outcomes[k] = what

\* Why the next property holds (it is its inductive invariant): the counters
\* count the outcomes, the failures from the moment of the lock on.
LockInv ==
  LET latest(k, what) == \A j \in 1 .. k : outcomes[j] = what
  IN /\ \A k \in 1 .. 3 : consecutive_successes >= k <=> latest(k, "ok")
     /\ state # "TRACK" => consecutive_successes < LOCK_THRESH
     /\ state = "TRACK" =>
          /\ consecutive_failures < LOSS_THRESH
          /\ \A k \in 1 .. 3 : consecutive_failures >= k <=> latest(k, "fail")

\* The lock states the README draws: three successes in a row, and nothing
\* less, make TRACK; three failures in a row, and nothing less, undo it.  The
\* state is compared with the outcomes themselves, not with the counters.
LockFollowsOutcomes ==
  [][/\ Thrice("ok")' => state' = "TRACK"
     /\ Thrice("fail")' => state' # "TRACK"
     /\ state # "TRACK" /\ state' = "TRACK" => Thrice("ok")'
     /\ state = "TRACK" /\ state' # "TRACK" => Thrice("fail")']_vars

NoneWrong == \A i \in Sent : frames[i].quality # "wrong"

\* A good frame whose header left the buffer was returned, unless the receiver
\* was cancelled, lost its place to a misread header, or decoded the frame
\* before its last samples came: neither a failed search, nor a failed frame,
\* nor a lost lock takes part of a later frame with it.
NoGoodFrameSkipped ==
  ~cancel_requested /\ NoneWrong =>
    \A i \in Sent :
      frames[i].quality = "good" /\ wh[i] < base =>
        i \in cut \/ \E k \in 1 .. Len(delivered) : delivered[k] = i

\* A header enters the AFC once, however often its frame is retried while the
\* rest of it is awaited ("an incomplete-frame retry never advances filter or
\* timing state twice"); a caller without room for the frame repeats it.
AfcOncePerFrame == \A i \in Sent \ refused : afc[i] <= 1

\* A call that returns anything but SHORT shortens the buffer, so that the
\* drain loop of the application ends whatever the signal is.
EveryVerdictAdvances ==
  [][result' # "SHORT" /\ (fed' # fed \/ result' # result \/ lock' # lock)
     => base' > base]_vars

\* A good frame followed by as much signal as the longest frame is returned,
\* through failed frames, lost locks and changes of MODCOD before it.
GoodFramesArrive ==
  \A i \in Sent :
    frames[i].quality = "good" /\ NoneWrong /\ wh[i] + LongLen <= SignalEnd =>
      <>(\/ \E k \in 1 .. Len(delivered) : delivered[k] = i
         \/ i \in cut
         \/ cancel_requested)

\* "Remove exactly one decoded or identified frame": the header of a returned
\* frame is out of the buffer, wherever in it the header was found.
FrameLeavesBuffer ==
  [][\A i \in Sent : delivered' = Append(delivered, i) => wh[i] < base']_vars

\* include/dvbs2x_vlsnr.h:340: "DVBS2X_ERR_SHORT means that no complete frame
\* is buffered yet."
ShortMeansIncomplete ==
  result = "SHORT" /\ refused = {} =>
    ~\E i \in Sent : /\ frames[i].quality = "good"
                     /\ base <= wh[i] - PLLen
                     /\ End(i) <= fed
=============================================================================
