---------------------------- MODULE PlutoRxQueue ----------------------------
(***************************************************************************)
(* tools/pluto_rx_queue.c with the two threads that use it: the radio      *)
(* thread, which runs receive_loop, and the main thread of                 *)
(* openvlsnr-pluto-rx, which acquires a block, decodes it, releases it and *)
(* finally stops the queue, while SIGINT or SIGTERM may run stop_handler.  *)
(* Each access to a variable another thread writes is a step of its own.   *)
(*                                                                         *)
(* A block's samples are abstracted to the number of the read that filled  *)
(* it, Torn standing for a slot that is being filled or whose read failed. *)
(***************************************************************************)
EXTENDS Integers

CONSTANTS
  NumBlocks,   \* num_blocks of pluto_rx_queue_start: slots of the ring
  MaxBlocks    \* bound of the model: successful reads of the radio

ASSUME QueueAssumption == NumBlocks \in Nat /\ NumBlocks >= 2 /\ MaxBlocks \in Nat

Torn == 0
Slots == 0 .. NumBlocks - 1

\* Faulty variant of Succ: the position without its wrap.
SuccUnwrapped(pos) == pos + 1

Succ(pos) == (pos + 1) % NumBlocks

RadioPC == {"none", "check", "space", "read", "failed", "capture", "publish",
            "count", "depth", "finish", "exited"}
MainPC  == {"start", "loop", "poll", "end", "result", "use", "stats", "stats2",
            "decode", "release", "flush", "out", "cancel", "join", "exited"}

VARIABLES
  \* struct pluto_rx_queue
  blocks, read_pos, write_pos, stop, done, error, received, high_water,
  backpressure,
  \* the radio thread: its place in receive_loop and its local queue_full
  radio, queue_full,
  \* the main thread: its place, its exit status, its last status report
  main, status, report,
  \* the process: the signal handler, its flag, the stream it cancels, time
  handler, stop_requested, cancelled, expired,
  \* history, read by no guard but the bound: blocks published and released,
  \* and whether anything failed that no stop request caused
  published, released, genuine

queueVars  == <<blocks, read_pos, write_pos, stop, done, error, received,
                high_water, backpressure>>
radioVars  == <<radio, queue_full>>
mainVars   == <<main, status, report>>
procVars   == <<handler, stop_requested, cancelled, expired>>
ghostVars  == <<published, released, genuine>>
vars == <<queueVars, radioVars, mainVars, procVars, ghostVars>>

\* The blocks between the two positions, as depth and queued_blocks compute it.
Depth(from, to) == (to + NumBlocks - from) % NumBlocks

Larger(a, b) == IF a > b THEN a ELSE b

Init ==
  /\ blocks = [s \in Slots |-> Torn]
  /\ read_pos = 0 /\ write_pos = 0
  /\ stop = FALSE /\ done = FALSE /\ error = FALSE
  /\ received = 0 /\ high_water = 0 /\ backpressure = 0
  /\ radio = "none" /\ queue_full = FALSE
  /\ main = "start" /\ status = 1
  /\ report = [queued |-> 0, received |-> 0, high |-> 0]
  /\ handler = "idle" /\ stop_requested = FALSE
  /\ cancelled = FALSE /\ expired = FALSE
  /\ published = 0 /\ released = 0 /\ genuine = FALSE

RadioGo(from, to) == radio = from /\ radio' = to

-----------------------------------------------------------------------------
(* Faulty variants: each is what a slip in the code would make of the      *)
(* definition its comment names.  They are no part of Next; with one of    *)
(* them in its place TLC finds a property violated.                        *)

\* ReadStart without the test for a full queue.
ReadStartUntested ==
  /\ RadioGo("space", "read")
  /\ queue_full' = FALSE
  /\ blocks' = [blocks EXCEPT ![write_pos] = Torn]
  /\ UNCHANGED <<read_pos, write_pos, stop, done, error, received, high_water,
                 backpressure, mainVars, procVars, ghostVars>>

\* ReadTimeout that falls through to the capture: ret < 0 tested, not ret > 0.
ReadTimeoutPublished ==
  /\ RadioGo("read", "capture")
  /\ ~cancelled /\ published < MaxBlocks
  /\ UNCHANGED <<queueVars, queue_full, mainVars, procVars, ghostVars>>

\* QueueFull that forgets it already counted this episode.
QueueFullRecounts ==
  /\ RadioGo("space", "check")
  /\ Succ(write_pos) = read_pos
  /\ backpressure' = backpressure + 1 /\ backpressure < MaxBlocks
  /\ UNCHANGED <<queue_full, blocks, read_pos, write_pos, stop, done, error,
                 received, high_water, mainVars, procVars, ghostVars>>

\* PublishBlock that goes back to the loop without the accounting.
PublishBlockUncounted ==
  /\ RadioGo("publish", "check")
  /\ write_pos' = Succ(write_pos)
  /\ published' = published + 1
  /\ UNCHANGED <<blocks, read_pos, stop, done, error, received, high_water,
                 backpressure, queue_full, mainVars, procVars, released, genuine>>

\* AcquireDone that does not look for a block again.
AcquireDoneOnly ==
  /\ main = "end" /\ main' = IF done THEN "result" ELSE "end"
  /\ UNCHANGED <<queueVars, radioVars, status, report, procVars, ghostVars>>

\* AcquireDone that waits for an orderly end only.
AcquireDoneOrderly ==
  /\ main = "end" /\ main' = IF done /\ ~error THEN "result" ELSE "poll"
  /\ UNCHANGED <<queueVars, radioVars, status, report, procVars, ghostVars>>

\* Release that gives back everything published so far.
ReleaseAll ==
  /\ main = "release" /\ main' = "loop"
  /\ read_pos' = write_pos
  /\ released' = released + 1
  /\ UNCHANGED <<blocks, write_pos, stop, done, error, received, high_water,
                 backpressure, radioVars, status, report, procVars, published,
                 genuine>>

\* HandlerFlag that cancels the stream before it raises the flag.
HandlerCancelsFirst ==
  /\ handler = "idle" /\ main # "exited"
  /\ handler' = "flagged"
  /\ cancelled' = TRUE
  /\ UNCHANGED <<queueVars, radioVars, mainVars, stop_requested, expired, ghostVars>>

-----------------------------------------------------------------------------
(* The radio thread                                                        *)

\* while (!stop), then the deadline: either way out leads to done.
CheckStop ==
  /\ RadioGo("check", IF stop \/ expired THEN "finish" ELSE "space")
  /\ UNCHANGED <<queueVars, queue_full, mainVars, procVars, ghostVars>>

\* One slot stays empty: a successor equal to read_pos is a full queue, and
\* only the first poll that finds it so counts as backpressure.
QueueFull ==
  /\ RadioGo("space", "check")
  /\ Succ(write_pos) = read_pos
  /\ backpressure' = IF queue_full THEN backpressure ELSE backpressure + 1
  /\ queue_full' = TRUE
  /\ UNCHANGED <<blocks, read_pos, write_pos, stop, done, error, received,
                 high_water, mainVars, procVars, ghostVars>>

\* pluto_rx_read resets the length of the slot before it waits for the radio.
ReadStart ==
  /\ RadioGo("space", "read")
  /\ Succ(write_pos) # read_pos
  /\ queue_full' = FALSE
  /\ blocks' = [blocks EXCEPT ![write_pos] = Torn]
  /\ UNCHANGED <<read_pos, write_pos, stop, done, error, received, high_water,
                 backpressure, mainVars, procVars, ghostVars>>

ReadOk ==
  /\ RadioGo("read", "capture")
  /\ ~cancelled /\ published < MaxBlocks
  /\ blocks' = [blocks EXCEPT ![write_pos] = published + 1]
  /\ UNCHANGED <<read_pos, write_pos, stop, done, error, received, high_water,
                 backpressure, queue_full, mainVars, procVars, ghostVars>>

\* -EAGAIN or -ETIMEDOUT from the radio: pluto_rx_read returns 1.
ReadTimeout ==
  /\ RadioGo("read", "check")
  /\ ~cancelled
  /\ UNCHANGED <<queueVars, queue_full, mainVars, procVars, ghostVars>>

\* A cancelled stream fails every refill; a refill may also fail by itself.
ReadFail ==
  /\ RadioGo("read", "failed")
  /\ genuine' = (genuine \/ ~cancelled)
  /\ UNCHANGED <<queueVars, queue_full, mainVars, procVars, published,
                 released>>

\* A failure is an error unless the main thread is already stopping the queue.
ReadFailed ==
  /\ RadioGo("failed", "finish")
  /\ error' = (error \/ ~stop)
  /\ UNCHANGED <<blocks, read_pos, write_pos, stop, done, received, high_water,
                 backpressure, queue_full, mainVars, procVars, ghostVars>>

CaptureOk ==
  /\ RadioGo("capture", "publish")
  /\ UNCHANGED <<queueVars, queue_full, mainVars, procVars, ghostVars>>

CaptureFail ==
  /\ RadioGo("capture", "finish")
  /\ error' = TRUE
  /\ genuine' = TRUE
  /\ UNCHANGED <<blocks, read_pos, write_pos, stop, done, received, high_water,
                 backpressure, queue_full, mainVars, procVars, published,
                 released>>

PublishBlock ==
  /\ RadioGo("publish", "count")
  /\ write_pos' = Succ(write_pos)
  /\ published' = published + 1
  /\ UNCHANGED <<blocks, read_pos, stop, done, error, received, high_water,
                 backpressure, queue_full, mainVars, procVars, released, genuine>>

CountSamples ==
  /\ RadioGo("count", "depth")
  /\ received' = received + 1
  /\ UNCHANGED <<blocks, read_pos, write_pos, stop, done, error, high_water,
                 backpressure, queue_full, mainVars, procVars, ghostVars>>

\* The radio thread is the only writer of high_water, so its load and its
\* compare-and-exchange loop amount to one step.
MarkHighWater ==
  /\ RadioGo("depth", "check")
  /\ high_water' = Larger(high_water, Depth(read_pos, write_pos))
  /\ UNCHANGED <<blocks, read_pos, write_pos, stop, done, error, received,
                 backpressure, queue_full, mainVars, procVars, ghostVars>>

Finish ==
  /\ RadioGo("finish", "exited")
  /\ done' = TRUE
  /\ UNCHANGED <<blocks, read_pos, write_pos, stop, error, received, high_water,
                 backpressure, queue_full, mainVars, procVars, ghostVars>>

Radio == \/ CheckStop \/ QueueFull \/ ReadStart \/ ReadOk \/ ReadTimeout
         \/ ReadFail \/ ReadFailed \/ CaptureOk \/ CaptureFail
         \/ PublishBlock \/ CountSamples \/ MarkHighWater \/ Finish

-----------------------------------------------------------------------------
(* The main thread                                                         *)

MainGo(from, to) == main = from /\ main' = to

StartOk ==
  /\ MainGo("start", "loop")
  /\ radio' = "check"
  /\ UNCHANGED <<queueVars, queue_full, status, report, procVars, ghostVars>>

\* Allocation or pthread_create failed: main leaves with no queue to stop.
StartFail ==
  /\ MainGo("start", "exited")
  /\ genuine' = TRUE
  /\ UNCHANGED <<queueVars, radioVars, status, report, procVars, published,
                 released>>

\* while (!stop_requested)
LoopTop ==
  /\ MainGo("loop", IF stop_requested THEN "flush" ELSE "poll")
  /\ UNCHANGED <<queueVars, radioVars, status, report, procVars, ghostVars>>

\* pluto_rx_queue_acquire looks for a block first ...
Acquire ==
  /\ MainGo("poll", "use")
  /\ read_pos # write_pos
  /\ UNCHANGED <<queueVars, radioVars, status, report, procVars, ghostVars>>

AcquireEmpty ==
  /\ MainGo("poll", "end")
  /\ read_pos = write_pos
  /\ UNCHANGED <<queueVars, radioVars, status, report, procVars, ghostVars>>

\* ... and asks whether the radio is done only when it saw none.
AcquireDone ==
  /\ MainGo("end", IF done THEN "result" ELSE "poll")
  /\ UNCHANGED <<queueVars, radioVars, status, report, procVars, ghostVars>>

\* 1 ends the loop, and so does -1 once a stop was requested; -1 by itself is
\* a failure of the program.
AcquireResult ==
  /\ MainGo("result", IF error /\ ~stop_requested THEN "out" ELSE "flush")
  /\ UNCHANGED <<queueVars, radioVars, status, report, procVars, ghostVars>>

\* report_status calls pluto_rx_queue_get_stats while main holds the block.
StatsPositions ==
  /\ MainGo("use", "stats")
  /\ report' = [report EXCEPT !.queued = Depth(read_pos, write_pos)]
  /\ UNCHANGED <<queueVars, radioVars, status, procVars, ghostVars>>

StatsReceived ==
  /\ MainGo("stats", "stats2")
  /\ report' = [report EXCEPT !.received = received]
  /\ UNCHANGED <<queueVars, radioVars, status, procVars, ghostVars>>

StatsHighWater ==
  /\ MainGo("stats2", "decode")
  /\ report' = [report EXCEPT !.high = high_water]
  /\ UNCHANGED <<queueVars, radioVars, status, procVars, ghostVars>>

\* The block is decoded; decoding the last frame of -n stops the program too.
UseBlock ==
  /\ main \in {"use", "decode"} /\ main' = "release"
  /\ stop_requested' \in {stop_requested, TRUE}
  /\ UNCHANGED <<queueVars, radioVars, status, report, handler, cancelled,
                 expired, ghostVars>>

\* A failed symbol capture or TS reassembler: goto out with the block held.
UseFail ==
  /\ main \in {"use", "decode"} /\ main' = "out"
  /\ genuine' = TRUE
  /\ UNCHANGED <<queueVars, radioVars, status, report, procVars, published,
                 released>>

Release ==
  /\ MainGo("release", "loop")
  /\ read_pos' = Succ(read_pos)
  /\ released' = released + 1
  /\ UNCHANGED <<blocks, write_pos, stop, done, error, received, high_water,
                 backpressure, radioVars, status, report, procVars, published,
                 genuine>>

FlushOk ==
  /\ MainGo("flush", "out")
  /\ status' = 0
  /\ UNCHANGED <<queueVars, radioVars, report, procVars, ghostVars>>

\* The held packet could not be written: goto out before ret = 0.
FlushFail ==
  /\ MainGo("flush", "out")
  /\ genuine' = TRUE
  /\ UNCHANGED <<queueVars, radioVars, status, report, procVars, published,
                 released>>

\* pluto_rx_queue_stop: the flag, the cancel, the join.
StopQueue ==
  /\ MainGo("out", "cancel")
  /\ stop' = TRUE
  /\ UNCHANGED <<blocks, read_pos, write_pos, done, error, received, high_water,
                 backpressure, radioVars, status, report, procVars, ghostVars>>

StopCancel ==
  /\ MainGo("cancel", "join")
  /\ cancelled' = TRUE
  /\ UNCHANGED <<queueVars, radioVars, status, report, handler, stop_requested,
                 expired, ghostVars>>

StopJoin ==
  /\ MainGo("join", "exited")
  /\ radio = "exited"
  /\ UNCHANGED <<queueVars, radioVars, status, report, procVars, ghostVars>>

MainThread == \/ StartOk \/ StartFail \/ LoopTop \/ Acquire \/ AcquireEmpty
              \/ AcquireDone \/ AcquireResult \/ StatsPositions
              \/ StatsReceived \/ StatsHighWater \/ UseBlock \/ UseFail
              \/ Release \/ FlushOk \/ FlushFail \/ StopQueue \/ StopCancel
              \/ StopJoin

-----------------------------------------------------------------------------
(* The process around them                                                 *)

\* stop_handler: the flag first, then the cancels.
HandlerFlag ==
  /\ handler = "idle" /\ main # "exited"
  /\ handler' = "flagged"
  /\ stop_requested' = TRUE
  /\ UNCHANGED <<queueVars, radioVars, mainVars, cancelled, expired, ghostVars>>

\* active_stream is NULL from the label out on: the cancel then does nothing.
HandlerCancel ==
  /\ handler = "flagged"
  /\ handler' = "returned"
  /\ cancelled' = (cancelled \/ main \notin {"cancel", "join", "exited"})
  /\ UNCHANGED <<queueVars, radioVars, mainVars, stop_requested, expired,
                 ghostVars>>

\* time(NULL) reaches the deadline -t asked for.
DeadlinePasses ==
  /\ ~expired
  /\ expired' = TRUE
  /\ UNCHANGED <<queueVars, radioVars, mainVars, handler, stop_requested,
                 cancelled, ghostVars>>

\* The process has ended; nothing is left to do.
Ended ==
  /\ main = "exited"
  /\ UNCHANGED vars

Next == Radio \/ MainThread \/ HandlerFlag \/ HandlerCancel \/ DeadlinePasses
        \/ Ended

Spec == Init /\ [][Next]_vars

\* Both threads are scheduled, a refill returns (the IIO context has a one
\* second timeout), decoding ends, and a handler that runs returns.  Nothing
\* makes a signal or a deadline come.
Fairness == WF_vars(Radio) /\ WF_vars(MainThread) /\ WF_vars(HandlerCancel)

FairSpec == Spec /\ Fairness

-----------------------------------------------------------------------------
(* Properties                                                              *)

\* The variables of the two threads and of struct pluto_rx_queue have their types.
TypeOK ==
  /\ blocks \in [Slots -> 0 .. MaxBlocks]
  /\ read_pos \in Slots /\ write_pos \in Slots
  /\ stop \in BOOLEAN /\ done \in BOOLEAN /\ error \in BOOLEAN
  /\ received \in Nat /\ high_water \in Nat /\ backpressure \in Nat
  /\ radio \in RadioPC /\ queue_full \in BOOLEAN
  /\ main \in MainPC /\ status \in {0, 1}
  /\ report \in [queued : Slots, received : Nat, high : Nat]
  /\ handler \in {"idle", "flagged", "returned"}
  /\ stop_requested \in BOOLEAN /\ cancelled \in BOOLEAN /\ expired \in BOOLEAN
  /\ published \in 0 .. MaxBlocks /\ released \in Nat
  /\ genuine \in BOOLEAN

\* The main thread reads blocks[read_pos], and the radio thread may be writing
\* blocks[write_pos].
Reading == main \in {"use", "stats", "stats2", "decode", "release"}
Writing == radio \in {"read", "capture", "publish"}

\* receive_loop never fills the slot whose samples the decoder is reading.
NoSharedSlot == Reading /\ Writing => read_pos # write_pos

\* Every slot between read_pos and write_pos is whole and holds the block the
\* decoder is to see next in that place: nothing lost, repeated or torn.
InOrder ==
  \A k \in Slots :
     k < Depth(read_pos, write_pos) =>
       blocks[(read_pos + k) % NumBlocks] = released + k + 1

\* The positions agree with what was published and released, modulo the ring.
PositionsAgree == published - released = Depth(read_pos, write_pos)

\* report_status reads three counters while the radio runs: the samples it
\* shows as input are at most one block behind the block main holds, and the
\* mark it shows is at most one block behind the depth it shows beside it.
ReportCoherent ==
  /\ main = "stats2" => report.received >= released
  /\ main = "decode" /\ report.queued > 0 => report.queued <= report.high + 1

\* The strengthening that makes InOrder inductive: the block being captured or
\* published is whole and in place, its slot is not the one kept empty, and main
\* holds a block only while the queue is not empty.
SlotReady ==
  /\ Writing => Succ(write_pos) # read_pos
  /\ radio \in {"capture", "publish"} =>
       published < MaxBlocks /\ blocks[write_pos] = published + 1

HoldsBlock == Reading => read_pos # write_pos

QueueInv == TypeOK /\ PositionsAgree /\ InOrder /\ SlotReady /\ HoldsBlock

\* Backpressure counts the times the queue filled, not the polls that found it
\* full: a further one needs a further block.
BackpressureEpisodes ==
  backpressure > 0 => backpressure + NumBlocks - 2 <= published

\* The exit status tells a failure from a stop.  A stop request alone never makes the
\* program fail: the read error that the cancelled stream causes is told from a
\* real one by stop_requested, which stop_handler sets before it cancels.  And a
\* failed read or capture makes it fail unless a stop was asked for, although main
\* may find the queue empty before the failure and done after it: receive_loop
\* sets error before it sets done.
ExitStatusTrue ==
  main = "exited" =>
    /\ status = 1 => genuine
    /\ genuine /\ status = 0 => stop_requested

\* The samples that pass through the queue, as the abstract channel.
Held == IF Reading THEN blocks[read_pos] ELSE 0

Channel == INSTANCE BlockChannel WITH
             Capacity <- NumBlocks - 1, sent <- published,
             returned <- released, held <- Held

\* receive_loop, acquire and release together are that channel: blocks come out
\* in the order they were read, each once, and at most NumBlocks - 1 wait.
ImplementsChannel == Channel!Spec

\* SIGINT or SIGTERM ends the program, and so does the end of the radio thread by
\* a deadline or a failed read, whatever the queue holds: the join in
\* pluto_rx_queue_stop returns.
ProgramEnds == (stop_requested \/ done) ~> main = "exited"

\* Published blocks reach the decoder, all of them, unless the program is ending.
BlocksAreTaken ==
  published > released ~> \/ released = published \/ radio = "exited" \/ stop_requested
                          \/ main \in {"out", "cancel", "join", "exited"}
=============================================================================
