# OpenVLSNR in TLA+

OpenVLSNR is a DVB-S2X VL-SNR modem in C: a library (`src/`, `include/`), two
programs that drive an ADALM-Pluto radio with it (`tools/`), and a small
streaming library (`streaming/`). This directory holds TLA+ specifications of
the parts of it whose logic is discrete (threads, protocols, framing, coding, the
headers and the scrambler), the configurations TLC checks them with, and proofs for TLAPS. File names and line
numbers are those of the repository; `PROJECT.json` maps each definition to the
lines it models.

## 1. The system and its parts

The receiving program is a chain. A radio thread reads blocks of samples into
a ring of slots; the main thread takes one block at a time and feeds it to the
streaming demodulator, which returns BBFRAMEs; the mode adaptation cuts
transport stream packets out of them and the program writes those to a file.
The transmitting program is the same chain the other way round, in one thread.

| Part | State | Operations | What is hard | What makes it correct |
|---|---|---|---|---|
| Radio queue, `tools/pluto_rx_queue.c` | slots, `read_pos`, `write_pos`, `stop`, `done`, `error`, counters | `receive_loop` (a thread), `acquire`, `release`, `get_stats`, `stop` | two threads and a signal handler, no lock; the end of the program | no slot shared, blocks in order, failures reported, the join returns |
| Pluto stream, `tools/pluto.c` | cancel flag, overflow count | `read`, `cancel`, `close` | timed-out and failed reads | modelled as the ways a read of the queue's thread ends |
| Streaming demodulator, `src/demodulator_top.c` | sample buffer, lock state and its two counters, expected length, predicted header, MODCOD, AFC | `demodulate_stream_ex` and its ten or so ways to return, `request_cancel` | values noted by one call and used, stale, by the next; variable lengths; a signal that drifts | each frame once and in order, none skipped, the lock follows the outcomes, drain loops end |
| Frame synchronisation, `src/vlsnr_header_gen.c` | none | search windows, prediction, correlation, threshold | which header is found first; nine patterns told apart by magnitudes | modelled inside the demodulator; every pattern is recognised for what it is |
| Mode adaptation, `src/bb_frame.c` | pending bits, CRC and SYNCD on both sides, the packet in assembly, the packet that waits for its CRC | `ts_tx_push`, `ts_rx_push`, `reset`, `finalize_unchecked` | packets that straddle frames, CRCs that arrive one packet late, lost and damaged frames | only genuine packets, in order; a loss stays local; without loss everything arrives |
| Frame construction, `src/modulator_top.c`, `src/vlsnr_layout.c`, `src/modcod.c`, `src/pilot_insert.c`, `src/tables` | counters of one call | puncturing and its inverse, layout of pilots | arrays sized by one formula and filled by another, nine sets of parameters, eight address tables | they agree for all nine MODCODs |
| Symbols, `src/modulate.c`, `demodulate.c`, `scrambler.c`, `plheader_gen.c` | the scrambler's two registers | mapping, spreading, scrambling, headers, each with its inverse | a sequence restarted for each frame; two ends that share one mistake | what is received is what was sent, after lost frames too; the sequence is the standard's |
| FEC, `src/bch_*.c`, `src/ldpc_*.c` | check matrix, generator polynomial, the state of one decode | encode; layered decoding with a schedule of checks and a cancel; Berlekamp-Massey and Chien search | two implementations of one code; a decoder that gives up hands on to another; shortened codes | erasures are filled, few errors corrected, no word taken for another, no codeword overlooked |
| Ring buffer, `streaming/include/dvbs2x_ringbuf.h` | two wrapping indices, totals | `init`, `put(_batch)`, `get(_batch)`, `peek`, `reset`, `get_stats` | lock-free producer and consumer, wrap of the indices, copies in two parts | a bounded queue |
| TCP transport and frames, `streaming/src/tcp.c`, `protocol.c` | a socket with its timeouts at each end | `server_init`, `accept`, `connect`, `send`, `recv`, `close`; `frame_encode`, `frame_decode` | streams cut anywhere, timeouts in the middle of a frame, a close or a reset at any moment | whole frames in order, the end told from a failure, nobody waits for an end that is gone |
| UDP transport and sequence numbers, `streaming/src/udp.c`, `dvbs2x_protocol.h` | a socket, the last number | `init`, `set_peer`, `send`, `recv`, `close`; `seq_compare`, `seq_after` | loss, doubling, reordering, wrap; signals | frames only forward, new ones never refused, timed calls end |
| Filters and synchronisation loops | floating-point filters | | numeric | not modelled: their outcome is an input of the models |
| Platform layer, `streaming/src/dvbs2x_platform.c` | none | sockets, threads, clocks | | not modelled: one system call each |
| Initialisation, `src/dvbs2x_init.c` | static tables | `dvbs2x_init` | first use by two threads | not modelled: the README of the repository leaves it to the application |

The parts meet in few places: shared memory with acquire/release atomics
(radio queue, ring buffer), plain calls in one thread (everything else), a flag
a signal handler may set (`cancel_requested`, `stop`, the stream's cancel).

## 2. The modules

| Module | Models | Composes |
|---|---|---|
| `PlutoRxQueue` | radio thread, main thread, signal handler around the queue | implements `BlockChannel` |
| `BlockChannel` | what the queue promises: a bounded channel of numbered blocks | |
| `StreamDemod` | the streaming demodulator, fed by an application that drains it | |
| `TsAdaptation` | `ts_tx_push` and `ts_rx_push` as operators on states | |
| `TsLink` | the loops of both programs around them, and the link between | extends `TsAdaptation` |
| `FrameBuild` | the parameters of every MODCOD and the counters of one frame | |
| `Headers` | PL header and VL-SNR header, and how they are recognised | |
| `PlFrame` | the frames' symbols on the air and back | extends `FrameBuild` and `Headers` |
| `Bch` | field, generator polynomial, encoder and decoder of the BCH code, as functions | |
| `Ldpc` | encoder, check matrix and row update of the LDPC code, as functions | |
| `Fec` | one frame through both codes, the decoders step by step | extends `Bch` and `Ldpc` |
| `RingBuf` | the ring buffer and the two threads that use it | implements `Fifo` |
| `Fifo` | what a ring buffer promises: a bounded queue | |
| `TcpStream` | one TCP connection from listening to close, and the frames on it | |
| `UdpLink` | numbered frames in datagrams, the network, the receiver | |
| `Transport` | an application over one of the two | extends `TcpStream` and `UdpLink` |
| `PlutoRxQueueProofs`, `StreamDemodProofs`, `TsLinkProofs`, `FecProofs`, `RingBufProofs`, `PlFrameProofs`, `TransportProofs` | theorems | extend the above |
| `Counting` | lemmas on remainders, quotients and induction that they share | |

Modules named `MC...` only give constants a value for TLC. In the modules,
operators marked *faulty* are slips such code could contain (a dropped guard, a
missing reset, a swapped order); nothing uses them. Put in the place of the
definition that follows them, each makes a property fail, and `PROJECT.json`
lists which: that is how we know that the properties can fail.

### PlutoRxQueue

One action per access to a variable that another thread writes. The
`radio` and `main` variables are the places of the two threads in
`receive_loop` and in `main` of `openvlsnr-pluto-rx`. A block's samples are the
number of the read that filled the slot, `Torn` while it is being filled or
after a read that did not fill it. `ReadOk`, `ReadTimeout`, `ReadFail` are the
ways `pluto_rx_read` ends. `ReadTimeout` and `ReadFail` leave the slot torn, as
a partial read may. `HandlerFlag` and `HandlerCancel` are the two statements of
`stop_handler` and may come between any other two steps. `StatsPositions`,
`StatsReceived` and `StatsHighWater` are the three moments at which
`get_stats` looks. Failures to allocate are `StartFail`.

Memory order is sequentially consistent in the model. The code publishes with
release stores and reads with acquire loads. Every variable that
one thread writes and the other reads after a position was published lies
behind such a pair.

### StreamDemod

The signal is a line of positions with frames on it; a frame is the position of
its header, a length and a *quality*: whether the signal processing will find
its header and decode it. The buffer is the interval `base .. fed - 1`. A call
with `n` new samples is one action, a conjunction of what it does in order:
feed, look whether there is enough (`Ready`), find a header (`Found`), note what it
says (`Identify`, `UpdateAfc`), see whether the frame is complete (`Complete`),
decode, update the lock (`LockSuccess`, `LockFailure`), remove (`Remove`).
There is one action for each way the function returns: `CallShort`,
`CallCancelled`, `CallNoSync`, `CallIncomplete`, `CallOk`, `CallNoRoom`,
`CallFail`, `CallInterrupted`.

The calls are atomic but for the cancel: `RequestCancel` comes between calls, and
`CallInterrupted` is a call in which it came after the first test of the flag.

### TsAdaptation, TsLink

Bits are *units*; packet `k` consists of the units
`k * PacketLen .. (k + 1) * PacketLen - 1`, and its first unit stands for the
sync byte, which the code replaces with the CRC of packet `k - 1`. The CRC is
ideal: `Vouches` accepts packet `k` under the CRC carried by packet `k + 1` and
no other; with a real CRC-8 one forged packet in 256 passes. `TxPush` and `RxPush` are
the two functions; `TsLink` calls them from the loops of the two programs
over a link that delivers, loses or damages each frame. A damaged frame is one
whose header fails its CRC (`ReceiveBadHeader`), or whose data field came
through FEC wrong (`ReceiveGarbled`).

The branch for SYNCD beyond the data field, and the return of `SHORT` when the caller's
packet buffer is too small, are in `RxPush` and never taken: the sender makes
no such SYNCD, and the receiving program allocates room for all packets of a
frame, as the configuration does.

### FrameBuild

The modulator fills `tx_bits`, which is allocated for `fec_len - xs - xp` bits,
with a loop that leaves out parity bits at multiples of `p_period`; the
demodulator repeats the loop to put neutral values back. The model walks the
codeword with both. Then `build_set` lays out the slots: one step is one pass
of its outer loop, with the pilots of a group falling in mid-slot (`Fired`), which
takes the next slot too, and the pilots at every sixteenth slot (`Boundary`).
The nine rows are those of `src/modcod.c`; the constants of the layout are the code's.

The rows also carry the parameters of both codes, and the address tables the shape
they have (how many groups of how many addresses): `CodesFit` holds them against
each other.

### Headers, PlFrame

A symbol is its quadrant: every constellation of the library has its points there,
rotation by a quarter adds one, and the product of a symbol with the conjugate of
another is their difference. With that, the headers, their correlation in
segments, the mappers, the scrambler and the phase tracking are exact. `Headers`
has the real header patterns of all nine MODCODs, `PlFrame` the real scrambler:
two registers, each the set of its bits that are one.

`PlFrame` begins where `FrameBuild` has built a frame, and sends frames of that
MODCOD: `SendHeaders`, `SendField`; the receiver's `Synchronise`, `Descramble`,
`Track`, `Demap` undo them. The air turns a frame by some quarters; `Miss`
is a frame whose header is not found. `Track` fits a line through the phases
of header and pilots; without noise the line is level or the phases
disagree, which is the state `astray`. The data field is seven symbols long.

### Bch, Ldpc, Fec

A word is the set of its bits that are one, an element of the field a number whose
bits are the coefficients. `Bch` and `Ldpc` are functions; `Fec` takes a frame
through them: the encoders and the puncturing in `Init`; then one step for each
iteration of the LDPC decoder (`LdpcBegin`, `LdpcRow`, `LdpcDecided`), its
syndrome check or the lack of one (`LdpcCheck`), its cancel (`LdpcCancelled`), the syndromes
(`BchSyndromes`), each step of Berlekamp-Massey (`BchIteration`), and the search for
roots (`BchCorrect`).

A log-likelihood ratio is its sign or 0 for *unknown*. Erasures are decoded
exactly that way, since messages that are known are never wrong. With inverted
bits the magnitudes would decide, so there a message that is in doubt
may come out either way.

### RingBuf

`PutBegin`, `PutCopy`, `PutPublish`, `PutCount` are `put_batch` between its
accesses to the shared indices; `GetBegin` to `GetCount` are `get_batch`;
`PeekBegin` and `PeekCopy` are `peek`. An element is the index at which it was written.
`put` and `get` are batches of one. Left out are the counters of failed
calls. `Reset` needs both threads idle, as its comment asks.

### TcpStream

Both ends run the same code on their sockets, `at[e]` is what end `e` is doing.
A send or a recv begins (`BeginSend`, `BeginRecv`), makes progress each time the
kernel takes or gives some units (`SendPart`, `RecvPart`), and returns complete,
by the kernel's timeout (`SendTimesOut`, `RecvTimesOut`), with the end of the
stream (`RecvClosed`) or with an error (`SendBroken`, `RecvBroken`). `timeo` holds the
two timeouts of each socket as the kernel does: set or not, until somebody sets
them again. That a timed receive clears the send timeout is in `BeginRecv`.
`Return` decodes what was received. The applications make
any legal order of calls; after a failed send they try the frame again or
go on. Left out are the byte counters, a second connection, and frames of
different sizes.

### UdpLink, Transport

Frame `k` is its place in the order of sending, `sequence(k)` the number on the
wire. `net` are the datagrams on their way: `Lose`, and `Arrive`, which may leave a
copy behind, in any order, except that no frame is overtaken by more than
`Overtaken` newer ones. The receiver is that of `streaming/README`: it waits
with or without a timeout, decodes, and takes what `seq_after` says is newer. A
signal may interrupt the `select` (`SelectInterrupted`); the code then
goes on to `recvfrom`. `Transport` is an application over TCP or UDP.

## 3. What is checked

Twelve runs; each line says what the run would catch.

| Run | Checks | Bounds |
|---|---|---|
| `queue` | the two threads and the handler in every interleaving: `NoSharedSlot`, `InOrder` (nothing lost, repeated, torn), `ReportCoherent` (status lines), `BackpressureEpisodes`, `ExitStatusTrue`, `ImplementsChannel`; `ProgramEnds`, `BlocksAreTaken` | 3 slots, 4 reads: the ring wraps, fills, empties |
| `demod_safety` | `ReturnedOnce`, `NoGoodFrameSkipped`, `AfcOncePerFrame`, `LockFollowsOutcomes`, `EveryVerdictAdvances` | 3 frames of two lengths, good, lost or misread, cancels, small buffers |
| `demod_live` | `GoodFramesArrive`, for frames that may arrive longer than nominal | 3 frames, good, bad or lost |
| `ts_link` | `WrittenGenuine`, `LossIsLocal`, `Lossless` | files of 5, 6 and 8 packets in frames of one and a quarter |
| `ring_buf` | `NoSlotShared`, `ImplementsFifo` | indices of 4 bits, sizes up to 8 |
| `frame_build` | `ArraysFit`, `Aligned`, `FrameLengths`; `GoldSequence`, `HeaderSaysModcod`, `FieldUndone` | none for the counts: all nine MODCODs with their real parameters and headers; then two frames of each, fields of 7 symbols with 4 data, two places of the pilots, quarter turns 1 and 2, three places searched |
| `fec` | `FewErrorsCorrected`, `BoundedDistance`, `ConvergedIsEncoded`, `MessagesTrue`, `ErasuresFilled`, `ConvergenceNoticed` | a (12, 4) BCH code that corrects two, an LDPC code of 21 bits, every choice of up to 2 erased or 3 inverted bits, limits of 3 and 4 iterations |
| `transport` | TCP: `StreamIntact`, `ZeroMeansClosed`, `CallsEnd`. UDP: `FramesForward`, `NewerTaken`, `TimedRecvEnds` | TCP: frames of 2 units, two one way or one each way, a window of 2. UDP: numbers modulo 6, 6 frames, three first numbers, overtaken by up to 3 |
| `demod_short`, `demod_creep`, `ts_tail`, `tcp_zero` | the four findings below: TLC finds the violation | |

**Why the bounds suffice.** The queue's behaviour depends on the distance of the two
positions and on the slot they meet in; with three slots and four reads the
queue is empty, half full and full at every position, and the positions wrap. Three slots are also
the least for which *full* and *empty again* can be told from
*one block*. The demodulator's lock counts to three, so three frames reach every state of
the lock together with the failed searches between them, and the ten positions
of noise after the last (`Trail`) are enough for three failures in a row and the
loss of a lock; what a call hands to the next is the
length, the MODCOD and the offset of one frame, so that two frames show every
stale value and the third what becomes of it. The lengths (5, 2, 1, 1, 8, 12)
keep the order and the inequalities of the code's (window, header, search radius,
offset, short and long frame); `DemodAssumption` states those that matter and
the proofs use nothing else. In `TsLink` frames of five units and packets of four
give every alignment of SYNCD that packets and frames can have,
the exact end of a frame included, and a data field that may complete only one
packet, as those of the two MODCODs with the shortest ones do (`src/modcod.c:126` and `:168`);
with frames of six units that case does not occur, and `LossIsLocal` would
hold with a reach of one frame. In `Fec` the small code has what the real ones have: a shortened BCH word whose roots may
lie outside it, minimal polynomials shared between roots and not, groups of parallel
addresses that wrap, shortening and puncturing; one, two and three wrong bits lie on both
sides of what it corrects. In `PlFrame` seven
symbols hold pilots before and behind data that stand at odd and at
even places; the second frame is received with and without the first. Quarter turns 1 and 2 are a
turn of the axes and a change of sign; 0 and 3 are as much alike. In
`UdpLink` six frames go once round the numbers and half a round is
three, the most by which the order can be told; first numbers 0, 1 and 5 lie at and on
both sides of the number the receiver begins with. In `RingBuf` the index wraps every sixteen elements,
which TLC reaches from every fill; sizes that are no power of two are offered
to `init` and refused. In
`TcpStream` two units make a frame that can be cut, a window of one frame can
be full and empty, and the second frame is what a part left over from the first
would spoil.

**Deadlock** is checked in the queue and the ring runs. In the others the
system stops: a signal ends, a file ends, a frame is built, a connection is
closed.

**Fairness.** `PlutoRxQueue`: weak fairness of the radio thread, of the main
thread and of a handler that has begun. The operating system schedules both threads, a
refill returns within the timeout of the IIO context (one second), decoding has bounded loops. Nothing is assumed
of signals and deadlines. `StreamDemod`: weak fairness of feeding while there
is signal, and of the drain call without new samples: that is the loop of
`openvlsnr-pluto-rx`, which feeds a block and then calls again until `SHORT`.
`TcpStream`: weak fairness of the kernel's side of a send or recv that is waiting, for
each end: a timeout that is set expires, units that are there are handed over,
a peer that has closed is noticed. `UdpLink`: the same for `select` and
`recvfrom` (`UdpWaiting`), not for signals. Nothing is assumed of the
applications or of the networks.

### Findings

1. `ts_tail` / `ReportedSent`. When the last packet of a file fills a frame
   and spills into the next, `openvlsnr-pluto-tx` skips the loop that pads the
   tail, because `frame_len` still holds the length of the frame it just sent
   (`tools/openvlsnr-pluto-tx.c:285`); it sends that frame again instead of the tail,
   then reports every packet as sent (line 298). `LossIsLocal` and `Lossless`
   are stated for transmissions in which this did not happen (`repeated`).
2. `demod_short` / `ShortMeansIncomplete`. `include/dvbs2x_vlsnr.h:340` says that
   `DVBS2X_ERR_SHORT` means no complete frame is buffered. The code waits for as
   many samples as the *last* frame had (`src/demodulator_top.c:1124`), so a
   complete short frame after a long one stays in the buffer.
3. `demod_creep` / `FrameLeavesBuffer`. The removal takes one frame length off the
   front of the buffer, wherever the header was found
   (`src/demodulator_top.c:1181`). If frames arrive longer than nominal, the
   header moves back with each; once it is a frame length behind, the frame just
   returned stays in the buffer. `ReturnedOnce` is checked with no drift; section 4 says
   how long a transmission must be for this to happen.

4. `tcp_zero` / `ZeroBlocksForever`. `streaming/include/dvbs2x_tcp.h:105` says
   that a receive timeout of 0 blocks for ever. `dvbs2x_tcp_recv` then leaves the
   socket as it is (`streaming/src/tcp.c:241`), and the timeout of an earlier receive
   or of the connect (line 161) still ends the call.

## 4. What is proved

TLAPS proves these for every value of the constants that the modules'
assumptions allow (`QueueAssumption`, `DemodAssumption`, `AdaptationAssumption`, `LinkAssumption`,
`BchAssumption`, `LdpcAssumption`, `FirstRowAssumption`, `FecAssumption`, `UdpAssumption`, `TcpAssumption`, `RingAssumption`), hence
for the code's own values, and for runs of any length. Three of them deserve a word. `PowersDivide`, in `RingBuf`, is a
fact rather than a restriction: that smaller powers of two divide `2^Width`; the provers know nothing of powers,
so it is stated and TLC evaluates it. `FirstRowAssumption` says that some address of the table gives the first
check node a second edge; every table of the standard has one, and a check node of degree one would
send no message (`src/ldpc_decode.c:398`). `AdaptationAssumption` asks for packets of more than two units, data fields longer
than a packet that are no multiple of it, and room for the packets of a frame: 188 bytes, fields of 304 bytes and more
and room for far more packets than a frame completes.

* `QueueCorrect` (`PlutoRxQueueProofs`):
  `Spec => [](TypeOK /\ NoSharedSlot /\ InOrder)`.
  `InOrder` is not inductive: that a block is appended in order depends on the
  slot the radio thread has filled but not yet published. `QueueInv` adds that
  the positions agree with the number of blocks published and released
  (`PositionsAgree`), that the slot being captured holds the next block and
  is not the one kept empty (`SlotReady`), and that the main thread holds a
  block only while the queue is not empty (`HoldsBlock`). The arithmetic is in
  lemmas about positions: `DepthValue`, `DepthGrows`, `DepthShrinks`,
  `SlotShift`. `FillFrame`, `PublishInv` and `ReleaseInv` are the three changes
  to the queue; `RadioInv` and `MainInv` go through the actions.
* `QueueImplementsChannel`: `Spec => ImplementsChannel`. Publishing maps to a
  send, acquiring to a receive, releasing to the return of the slot; every other step is a
  stutter (`ChannelStep`).
* `QueueTypes` and `NeverShared`, two parts of `QueueCorrect` by themselves: `Spec => []TypeOK` and `Spec => []NoSharedSlot`.
* `ExitIsTrue`: `Spec => []ExitStatusTrue`. `ExitInv` follows a failure from where it
  happens to the status: the order in which the flags are set (`FlagOrder`), what each flag
  and each place in the code says of the past (`Causes`), and what main has
  decided by them (`Decision`).
* `EpisodesCounted` and `ReportIsCoherent`: `Spec => []BackpressureEpisodes` and
  `Spec => []ReportCoherent`. `CountInv` says how far each counter is from the
  positions at each place of the radio thread (`Counted`) and of `get_stats` (`Shown`).
* `RingApart` (`RingBufProofs`): `Spec => []NoSlotShared`, and `RingIsFifo`: `Spec =>
  ImplementsFifo`, for every width of the indices and every batch. `RingInv` says
  where the elements are: those in the ring in their slots (`Stored`), the
  batch being written beyond them (`Copied`), the batch being read still in
  place until it is released (`Taken`), all within `size` places (`InUse`). `PosApart`
  and `FreeSlots` turn distances of wrapping indices into different slots; that
  is where the size must be a power of two, and `FreeSlots` would be false without.
* `DemodInvariant` (`StreamDemodProofs`): `Spec => [](TypeOK /\ LockInv)`.
  `LockInv` says what the two counters count. The action properties rest on it.
* `LockIsEarned`: `Spec => LockFollowsOutcomes`. TRACK is entered after exactly
  three successes in a row and left after exactly three failures.
* `VerdictsAdvance`: `Spec => EveryVerdictAdvances`. Every call that does not
  return `SHORT` removes samples; with a finite buffer the application's drain
  loop ends. It rests on `RemoveBounds`, which uses
  `AcqWindow - WHLen > Pad + PLLen`: the real values (4096, 896, a few
  dozen, 92) satisfy it by far.
* `FramesReturnedOnce`, `NoneSkipped`, `AfcFedOnce` and `ReturnedFramesLeave`: `ReturnedOnce`, `NoGoodFrameSkipped`, `AfcOncePerFrame`
  and `FrameLeavesBuffer`, all under `InPlace`. The hypothesis is needed: `demod_creep`
  shows a header wandering back in the buffer until the removal misses it. It does so even
  without drift, one search radius with each frame that is found again after others were lost. `InPlace` is
  one of two things. `Brief`: no frame arrives short and there are too few for the creep to add up to a frame
  (fifty, with 256, 4096 and 16686 symbols); any of them may be lost, misread or fail. `Steady`: frames
  have their nominal length and every header is found; then there may be any number of them.
  `CreepInv` bounds the prediction by the number of the frame it comes from, `SteadyInv` says why a
  search around the prediction finds nothing beyond the acquisition window, and `HistoryInv` that what
  was returned, or entered the AFC, lies before the buffer. `Effect` lists what a call can do to the buffer, so that the three
  are proved over six cases and not over ten actions. Where the frames are is computed by
  a recursive function; `InitChained` proves by induction what it yields.
* `OnlyGenuineWritten` (`TsLinkProofs`): `Spec => []WrittenGenuine`. The invariant is about the *stream* of a call: what the adapter
  holds followed by what it takes of the frame. Its units, damaged ones apart, come in order,
  and one in a place where a packet begins is one a packet begins with (`Sound`, `Honest`). So a CRC that
  agrees names the packet before it, and all of that packet is in place; what was written
  lies before what is held (`Ordered`).
* `OnlyDamageLoses` and `NothingLost`: `Spec => []LossIsLocal` and `Spec => []Lossless`. An adapter is in order (`Clean`) when all it holds is
  genuine, without a gap, and ends with the last frame. It then takes every undamaged frame, writes
  the packets completed there, and stays in order (`CleanTaken`). After a damaged frame it is in order one
  undamaged frame later (until then only what it began is, `Nearly`), or two if a data field is shorter than two packets less one unit. `LossInv` says that
  since then no packet was lost: each is written, or held (`Covered`).
* `CodewordsNoticed` (`FecProofs`): `Spec => []ConvergenceNoticed`. For every code,
  limit and schedule, a codeword is noticed in the iteration it is reached while
  that is below `EARLY_CHECK_ITERS`, within a period later, and before the decoder gives
  up. `ScheduleInv` bounds how long a codeword can have been there by the
  iteration's place in the period, which `NextModulo` counts.
* `SameAddress` (`FecProofs`): the bit an information bit toggles in the encoder, which wraps an
  address by one subtraction, is the row it is connected to in the decoder, which
  takes a remainder, for every table of addresses below the number of parity bits.
* `OneCode` (`FecProofs`): `Spec => []ConvergedIsEncoded`. A word on which all check nodes agree is
  the encoder's codeword of its information bits: `RowParity` counts a check node's edges, `Accumulate` follows the
  encoder's running sum by induction on the rows, `ConvergedEncoded` compares the two from the first parity bit on.
* `MessagesTellTruth` and `ErasuresAreFilled`: `Spec => []MessagesTrue` and `Spec => []ErasuresFilled`. With erasures only, every message and every belief is
  an erasure or the bit of the codeword (`MessageInv`; `RowTells` is about one check node). For the second, what
  the decoder misses after some number of iterations is among the erasures that as many rounds of peeling leave
  (`Within`, in `PeelInv`), whatever the order of the rows, and nothing known is ever forgotten (`NothingForgotten`).
* `StreamStaysIntact` and `ZeroOnlyAtTheEnd` (`TransportProofs`): `TransportSpec => []StreamIntact` and `TransportSpec => []ZeroMeansClosed`, for frames of any
  length, any traffic and window. `CallInv` has the types and what each place of a call means for the part
  that is sent or received; `Wire` is what is on its way to an end, its own part first. On it
  the frames are in order and separate (`Flow`), and until a call fails it is the rest of what the peer sent, without a gap
  (`Whole`). `BreakReachesBoth` is why one end cannot go on as if nothing had happened.
* `TransportTypes`: `TransportSpec => []TransportTypeOK`; `TransportParts`: the composition implies the specification
  of each transport, so that the theorems about either hold of it.
* `FramesInOrder` and `NewFramesTaken` (`TransportProofs`): `UdpSpec => FramesForward` and
  `UdpSpec => NewerTaken`, for every even number of sequence numbers (2^32 in the code), every
  first number and any number of frames. `OrderInv` ties the numbers the
  receiver keeps to places in the order of sending and says that
  nothing in the socket is further behind than `Overtaken`; `BehindIsNotAfter`
  and `AheadIsAfter` are the arithmetic of `seq_after` on both sides.

* `ArraysAlwaysFit`, `LoopsAligned` and `FramesHaveLength` (`PlFrameProofs`): `PlSpec => []ArraysFit`, `=> []Aligned`,
  `=> []FrameLengths`, for every MODCOD of the table. `BitInv` ties the three counters of the bits to each other, `LayoutInv`
  those of the layout to the slot they stand at: `Laid` gives symbols, data and
  groups in closed form from the number of slots, so that a step is compared with the next value. The rows of the table and the sums of
  the address tables are computed (`SumOfParts`).
* `ScramblerIsGold`: `PlSpec => []GoldSequence`, for every scrambling code and length of field. What `FarX` and `FarY` are, the polynomials
  `X^(2^17)` reduced by those of the registers, is computed by seventeen squarings with a table of the powers in between (`SquaresX`, `SquaresY`, `Squarings`): they are
  exactly the taps of the masks in `dvbs2x_scrambler_next_rn` (`FarTaps`). It holds from every state of the registers, so the state a field begins with does not enter.
* `HeadersAreRecognised`: `PlSpec => []HeaderSaysModcod`, for every MODCOD, every turn and every search within two places. `HeaderInv` is the whole
  invariant: a header is that of the MODCOD, turned, and what was found is where it is. The work is in `SearchFinds`. How often the symbols of a segment stand in each of the
  four phases decides its magnitude, and the square is largest exactly when all stand in one (`FourCounts`, `SegmentMagnitudes`). At the right
  place and MODCOD they do (`OwnAhead`); at another place (`NearDisagree`) or for another pattern (`OtherDisagrees`) two of a segment
  disagree, so every other candidate is below, and the one with all of the magnitude is chosen (`OnlyBest`). The PLS code is recovered because no
  two codes have the same word, and only the word that was sent agrees in all its places (`WordsApart`, `CodeRecovered`).
* `FieldsComeBack`: `PlSpec => []FieldUndone`, for every MODCOD, length of field, layout of pilots inside it, scrambling code, turn and any sequence of
  frames, received or lost. `FieldInv` says what a symbol is after each step, by its point (`Point`), its scrambling and the turn; each step of the receiver takes one of these
  off (`TurnedBack`). The pilots agree with the header because the turn is the same (`PhaseIsTurn`), and data
  symbol n is found again because counting the data before a place grows by one with each (`DataBeforeStep`, `DataHasPlace`).

The constants have the assumptions the code gives them. New for the frames: the MODCODs are rows of the table (`IndicesAssumption`), the
search looks at no more than two places on either side (`SearchAssumption`: with more it would read beyond the symbols of both headers, which the
model does not have), and pilots lie in the field they are a layout of (`FieldAssumption`).

Assumptions on the environment are those of the models: sequentially consistent
memory, atomic calls of the demodulator, the qualities as the only outcome of
the signal processing.

The inductive invariants behind `OnlyDamageLoses`, `FramesReturnedOnce`, `HeadersAreRecognised` and `FieldsComeBack` were model-checked before they were proved (the last two with the bounds of `frame_build`): the first for
packets and data fields of 4 and 5, 4 and 6, 4 and 7, 5 and 7, 3 and 4, 3 and 5, 3 and 7, 6 and 7 units, which
is how the reach of two frames was found; the second with the bounds of `demod_safety`.

**Induction.** The library's induction theorems take an operator, which the provers cannot instantiate. `SetInduction` in `Counting` takes
a set instead (with 0 in it, and with each number its successor) and is proved from the
well-foundedness of the natural numbers. The proofs about the functions of `Bch` and `Ldpc`, about peeling, and about the places
of frames use it. Functions defined by recursion in a LET are shown to be what they compute by giving that function and checking that it satisfies the equation.

**Only model-checked.** Liveness (`ProgramEnds`, `BlocksAreTaken`,
`GoodFramesArrive`, `CallsEnd`, `TimedRecvEnds`) is out of the prover's reach. `BoundedDistance` and `FewErrorsCorrected` say that Berlekamp-Massey and the
Chien search correct up to t errors: that is the algebra of a finite field, which the provers would have to be taught. `ReturnedOnce` and the two
beside it are not proved, and not true, of long transmissions with lost or late
frames.

## 5. What is not modelled

Floating-point signal processing: filters, timing and carrier loops, the
amplitudes of symbols, noise and frequency offset in `PlFrame`, the magnitudes of
log-likelihood ratios in `Fec` and the look-up table of its box-plus, the FFT by
which the correlation is computed. Their result enters as a quality, a turn or a choice. The values in the
LDPC address tables (a few thousand numbers of the standard; their shapes are
modelled). BBFRAME header fields and the CRC computations. The option
`-r` of the transmitter and progress output. Allocation failures and parameter
errors outside the queue. Weak memory. The burst-mode entry points of the
demodulator, which use the same core without the buffer. The first
initialisation of lazy tables by two threads at once, which the repository's
README leaves to the application.

Three things seen while modelling that no run is about:

* A receiver that begins with `last_seq = 0`, as in `streaming/README:161`, refuses a first
  frame numbered 0; `NewerTaken` says so in its exception (`Start`).
* A timed `dvbs2x_udp_recv` that a signal interrupts goes on without a timeout
  (`streaming/src/udp.c:144`); `streaming/README:362` promises the retry and says nothing of
  the time left. `TimedRecvEnds` excepts the case.
* `DVBS2X_ERR_FEC` (`include/dvbs2x_types.h:19`, "LDPC did not converge") is never the result
  of a decode that reaches the BCH decoder: an LDPC decoder that gave up hands
  on its best guess.

## 6. Plan

Done, in the order of importance to the program: the queue and its proofs, the
demodulator and its first proofs, the transport stream, the ring buffer, the frame
construction, the two transports, the codes, headers and symbols. Next:

1. **RxPipeline**: `BlockChannel` (the abstract queue) feeding the demodulator and the mode
   adaptation, with a stop request and a failed radio: what is
   written when the program ends.
2. **Proofs**: the algebra of the BCH code, if it can be taught to the provers in reasonable space; the search for a header more than two places
   away, which needs the symbols around it in the model.
3. **TcpStream**: several connections. **Transmitter**: `-r`, the cancel of a
   transmission and the close of the stream, if they can be told apart from `TsLink` by a
   property.
