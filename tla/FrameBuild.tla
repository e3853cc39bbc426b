----------------------------- MODULE FrameBuild -----------------------------
(***************************************************************************)
(* The counts of one PLFRAME, from the LDPC codeword to the symbols, for   *)
(* every VL-SNR MODCOD: the modulator leaves out the shortened and the     *)
(* punctured bits (src/modulator_top.c), the demodulator puts neutral      *)
(* values back in their place (src/demodulator_top.c), and the layout of   *)
(* the data field decides where the pilots go (src/vlsnr_layout.c).  Bits  *)
(* and symbols have no values here: the arrays they are written to are     *)
(* allocated from formulas, the loops that fill them run on counters of    *)
(* their own, and what could go wrong is that the two disagree.            *)
(*                                                                         *)
(* The loops of modulator and demodulator over the parity of the codeword  *)
(* are walked together, the bits between two punctured ones in one step;   *)
(* the loop of the layout takes one step for each pass of its outer loop.  *)
(***************************************************************************)
EXTENDS Integers, FiniteSetsExt

CONSTANT Indices        \* the MODCODs looked at, some of 1..9

ASSUME IndicesAssumption == Indices \subseteq 1 .. 9

VARIABLES
    mc,          \* the MODCOD of the frame
    stage,       \* "encode", "parity", "layout", then "built" or an error
    i,           \* parity bit of the codeword both loops have reached
    t_idx,       \* bits the modulator has put in tx_bits
    p_idx,       \* punctured positions it has passed
    d_idx,       \* values the demodulator has taken from deint
    q_idx,       \* punctured positions the demodulator has passed (p_idx there)
    lay          \* the counters of build_set

vars == <<mc, stage, i, t_idx, p_idx, d_idx, q_idx, lay>>

-----------------------------------------------------------------------------
Modcod(mod, fec_len, den, spread, set, k_bch, n_bch, k_ldpc, q, xs, xp, p_period) ==
    [mod |-> mod, fec_len |-> fec_len, code_rate_den |-> den, has_spread |-> spread, set |-> set,
     k_bch |-> k_bch, n_bch |-> n_bch, bch_t |-> 12, k_ldpc |-> k_ldpc, q_ldpc |-> q,
     xs |-> xs, xp |-> xp, p_period |-> p_period]

vlsnr_modcod_table ==
    <<Modcod("QPSK", 64800, 9, FALSE, 1, 14208, 14400, 14400, 140, 0, 3240, 15),
      Modcod("BPSK", 32400, 5, FALSE, 1, 5660, 5840, 6480, 72, 640, 980, 25),
      Modcod("BPSK", 32400, 45, FALSE, 1, 7740, 7920, 7920, 68, 0, 1620, 15),
      Modcod("BPSK", 32400, 3, FALSE, 1, 10620, 10800, 10800, 60, 0, 1620, 13),
      Modcod("BPSK", 16200, 5, TRUE, 1, 2512, 2680, 3240, 36, 560, 250, 30),
      Modcod("BPSK", 16200, 45, TRUE, 1, 3792, 3960, 3960, 34, 0, 810, 15),
      Modcod("BPSK", 16200, 5, FALSE, 2, 3072, 3240, 3240, 36, 0, 1224, 10),
      Modcod("BPSK", 16200, 15, FALSE, 2, 4152, 4320, 4320, 33, 0, 1224, 8),
      Modcod("BPSK", 16200, 3, FALSE, 2, 5232, 5400, 5400, 30, 0, 1224, 8)>>

\* Faulty: the puncturing of MODCOD 2 typed into MODCOD 3.
row_mistyped ==
    IF mc = 3 THEN [vlsnr_modcod_table[mc] EXCEPT !.xp = 980, !.p_period = 25]
              ELSE vlsnr_modcod_table[mc]

\* dvbs2x_vlsnr_get_modcod.
row == vlsnr_modcod_table[mc]

\* The degree of the field the BCH code is made over: chosen by frame_type, which in
\* the table is another name of fec_len.
gf_m(r) == CASE r.fec_len = 64800 -> 16 [] r.fec_len = 32400 -> 15 [] r.fec_len = 16200 -> 14

\* The address tables: how many groups of 360 bits have how many addresses each.
table_n64800_r2_9 == <<[deg |-> 11, groups |-> 20], [deg |-> 3, groups |-> 20]>>
table_n32400_r1_5 == <<[deg |-> 13, groups |-> 9], [deg |-> 3, groups |-> 9]>>
table_n32400_r11_45 == <<[deg |-> 10, groups |-> 10], [deg |-> 3, groups |-> 12]>>
table_n32400_r1_3 == <<[deg |-> 12, groups |-> 10], [deg |-> 3, groups |-> 20]>>
table_n16200_r1_5 == <<[deg |-> 12, groups |-> 4], [deg |-> 3, groups |-> 5]>>
table_n16200_r11_45 == <<[deg |-> 10, groups |-> 5], [deg |-> 3, groups |-> 6]>>
table_n16200_r4_15 ==
    <<[deg |-> 21, groups |-> 3], [deg |-> 4, groups |-> 6], [deg |-> 3, groups |-> 3]>>
table_n16200_r1_3 == <<[deg |-> 12, groups |-> 5], [deg |-> 3, groups |-> 10]>>

\* The length of the frame and the denominator of the rate choose one.
get_table(r) ==
    CASE r.fec_len = 64800 -> table_n64800_r2_9
      [] r.fec_len = 32400 /\ r.code_rate_den = 5 -> table_n32400_r1_5
      [] r.fec_len = 32400 /\ r.code_rate_den = 45 -> table_n32400_r11_45
      [] r.fec_len = 32400 /\ r.code_rate_den = 3 -> table_n32400_r1_3
      [] r.fec_len = 16200 /\ r.code_rate_den = 5 -> table_n16200_r1_5
      [] r.fec_len = 16200 /\ r.code_rate_den = 45 -> table_n16200_r11_45
      [] r.fec_len = 16200 /\ r.code_rate_den = 15 -> table_n16200_r4_15
      [] r.fec_len = 16200 /\ r.code_rate_den = 3 -> table_n16200_r1_3
      [] OTHER -> <<>>
Groups(table) == MapThenSumSet(LAMBDA n : table[n].groups, DOMAIN table)

Parity(r) == r.fec_len - r.k_ldpc
TxCoded(r) == r.fec_len - r.xs - r.xp

\* Symbols the constellation mapper makes, and the payload build_layout counts on.
NumTxSym(r) ==
    IF r.mod = "QPSK" THEN TxCoded(r) \div 2 ELSE IF r.has_spread THEN TxCoded(r) * 2 ELSE TxCoded(r)
NumData(r) ==
    (IF r.mod = "QPSK" THEN TxCoded(r) \div 2 ELSE TxCoded(r)) * (IF r.has_spread THEN 2 ELSE 1)

\* Bytes of the map, and symbols of the buffer dvbs2x_modulate_ex passes down.
MapBytes(r) == NumData(r) + (NumData(r) \div 90 + 4) * 36 + 64
HeaderLen == 90 + 900
FrameCap(r) == HeaderLen + TxCoded(r) * 2 + TxCoded(r) \div 2 + 128

Slots(r) == (NumData(r) + (IF r.set = 1 THEN 18 * 34 + 3 * 36 ELSE 9 * 32 + 36)) \div 90

NewLayout == [j |-> 0, slot_count |-> 10, group |-> 0, symbols |-> 0, out |-> 0, dcount |-> 0]

-----------------------------------------------------------------------------
Init ==
    /\ mc \in Indices
    /\ stage = "encode"
    /\ i = 0 /\ t_idx = 0 /\ p_idx = 0 /\ d_idx = 0 /\ q_idx = 0
    /\ lay = NewLayout

\* The information word of the LDPC code is filled with the shortening zeros and
\* the BCH codeword, and its unshortened part is what tx_bits starts with.
Encode ==
    /\ stage = "encode"
    /\ stage' = "parity"
    /\ t_idx' = row.k_ldpc - row.xs
    /\ d_idx' = row.k_ldpc - row.xs
    /\ UNCHANGED <<mc, i, p_idx, q_idx, lay>>

\* Faulty: the number of punctured bits is not limited.
PunctureOn(k, p, r) == k = p * r.p_period

\* Whether the modulator drops parity bit k after p dropped ones, and whether
\* the demodulator puts a neutral value there.
Punctures(k, p, r) == r.xp > 0 /\ p < r.xp /\ k = p * r.p_period

Depunctures(k, p, r) == r.xp > 0 /\ p < r.xp /\ k = p * r.p_period

\* One parity bit at which at least one of the two loops skips.
Punctured ==
    /\ stage = "parity" /\ i < Parity(row)
    /\ Punctures(i, p_idx, row) \/ Depunctures(i, q_idx, row)
    /\ i' = i + 1
    /\ IF Punctures(i, p_idx, row) THEN p_idx' = p_idx + 1 /\ UNCHANGED t_idx
                                   ELSE t_idx' = t_idx + 1 /\ UNCHANGED p_idx
    /\ IF Depunctures(i, q_idx, row) THEN q_idx' = q_idx + 1 /\ UNCHANGED d_idx
                                     ELSE d_idx' = d_idx + 1 /\ UNCHANGED q_idx
    /\ UNCHANGED <<mc, stage, lay>>

\* The parity bits up to the next one that may be punctured are all sent.
Copied ==
    /\ stage = "parity" /\ i < Parity(row)
    /\ ~Punctures(i, p_idx, row) /\ ~Depunctures(i, q_idx, row)
    /\ i' = Min({k \in {p * row.p_period : p \in {p_idx, q_idx}} : i < k} \cup {Parity(row)})
    /\ t_idx' = t_idx + (i' - i)
    /\ d_idx' = d_idx + (i' - i)
    /\ UNCHANGED <<mc, stage, p_idx, q_idx, lay>>

BeginLayout ==
    /\ stage = "parity" /\ i = Parity(row)
    /\ stage' = "layout"
    /\ UNCHANGED <<mc, i, t_idx, p_idx, d_idx, q_idx, lay>>

-----------------------------------------------------------------------------
\* The running count at which the pilots of a group are inserted, and how many.
Pilots(r, g) ==
    CASE r.set = 1 /\ g <= 18      -> [at |-> 703, plen |-> 34]
      [] r.set = 1 /\ g \in 19..21 -> [at |-> 702, plen |-> 36]
      [] r.set = 2 /\ g <= 9       -> [at |-> 704, plen |-> 32]
      [] r.set = 2 /\ g = 10       -> [at |-> 702, plen |-> 36]
      [] OTHER                     -> [at |-> 0, plen |-> 0]

\* Faulty: the second slot is not counted.
FiredOnce(l, r) ==
    LET plen == Pilots(r, l.group).plen IN
    [l EXCEPT !.out = @ + 180, !.dcount = @ + 180 - plen, !.symbols = @ + 180 - plen]

\* The slot in which the count is reached: the pilots are put behind it, and the
\* rest of this slot and of the next, which j++ takes too, is data.
Fired(l, r) ==
    LET plen == Pilots(r, l.group).plen IN
    [l EXCEPT !.j = @ + 1, !.slot_count = (@ + 1) % 16, !.out = @ + 180,
              !.dcount = @ + 180 - plen, !.symbols = @ + 180 - plen]

Filled(l, r) ==
    IF Pilots(r, l.group).at - l.symbols \in 1..90
    THEN Fired(l, r)
    ELSE [l EXCEPT !.out = @ + 90, !.dcount = @ + 90, !.symbols = @ + 90]

\* Every sixteenth slot ends in a block of 36 pilots and begins a new group.
Boundary(l, r) ==
    LET n == [l EXCEPT !.slot_count = (@ + 1) % 16] IN
    IF n.slot_count = 0 /\ n.j < Slots(r) - 1
    THEN [n EXCEPT !.group = @ + 1, !.symbols = 0, !.out = @ + 36]
    ELSE n

Slot ==
    /\ stage = "layout" /\ lay.j < Slots(row)
    /\ lay' = LET l == Boundary(Filled(lay, row), row) IN [l EXCEPT !.j = @ + 1]
    /\ UNCHANGED <<mc, stage, i, t_idx, p_idx, d_idx, q_idx>>

\* The frame is put together, if the mapper and the layout agree on the payload
\* and the buffer takes it.
Assemble ==
    /\ stage = "layout" /\ lay.j >= Slots(row)
    /\ stage' = IF NumTxSym(row) # NumData(row) THEN "ERR_PARAM"
                ELSE IF FrameCap(row) < HeaderLen + lay.out THEN "ERR_SHORT" ELSE "built"
    /\ UNCHANGED <<mc, i, t_idx, p_idx, d_idx, q_idx, lay>>

Next == Encode \/ Punctured \/ Copied \/ BeginLayout \/ Slot \/ Assemble

Spec == Init /\ [][Next]_vars

-----------------------------------------------------------------------------
(***************************************************************************)
(* Properties.                                                             *)
(***************************************************************************)

\* The parts of a row agree: the BCH code has a parity of bch_t times the degree of
\* its field, with the shortening zeros its word fills the LDPC information word,
\* that is cut into the groups of the table, and q takes the addresses round the
\* whole parity.  The demodulator keeps the decoder of the MODCOD before if
\* fec_len and k_ldpc are the same (demodulator_top.c:774): then the code must be.
CodesFit(r) ==
    /\ r.n_bch - r.k_bch = gf_m(r) * r.bch_t
    /\ r.xs + r.n_bch = r.k_ldpc
    /\ 360 * Groups(get_table(r)) = r.k_ldpc
    /\ 360 * r.q_ldpc = Parity(r)
    /\ \A n \in 1..9 :
          LET s == vlsnr_modcod_table[n] IN
          s.fec_len = r.fec_len /\ s.k_ldpc = r.k_ldpc => s.q_ldpc = r.q_ldpc /\ get_table(s) = get_table(r)

\* The bits fit the array that was allocated for their number, and fill it:
\* otherwise modulator_top.c:165 writes past tx_bits, or the mapper reads bits
\* that were never written.
BitsFit ==
    /\ t_idx <= TxCoded(row)
    /\ stage \notin {"encode", "parity"} => t_idx = TxCoded(row) /\ p_idx = row.xp

\* The map never outgrows its allocation (vlsnr_layout.c:110), and it has a data
\* position for each payload symbol: dvbs2x_pilot_insert and
\* dvbs2x_pilot_extract walk the map and trust it for the length of the payload.
LayoutFits ==
    /\ lay.out <= MapBytes(row)
    /\ stage \notin {"encode", "parity"} /\ lay.j >= Slots(row) => lay.dcount = NumData(row)

\* Arrays are allocated from formulas over the row of the MODCOD and filled by loops
\* that count for themselves: codeword, sent bits and map of the layout come out
\* as long as they were made.
ArraysFit == CodesFit(row) /\ BitsFit /\ LayoutFits

\* The demodulator gives each value it received to the bit of the codeword the
\* modulator sent in its place: at every parity bit both have passed as many
\* sent bits (modulator_top.c:159 against demodulator_top.c:759).
Aligned == d_idx = t_idx /\ q_idx = p_idx

\* Every MODCOD gives a frame of the length its set has in the standard
\* (DVBS2X_VLSNR_FRAME_LONG and _SHORT) and no frame is refused: the program
\* openvlsnr-pluto-tx allocates its buffers by the first (line 231), the
\* demodulator waits for the second before it looks at the signal (line 1121).
FrameLengths ==
    stage \notin {"encode", "parity", "layout"} =>
        /\ stage = "built"
        /\ HeaderLen + lay.out = IF row.set = 1 THEN 33282 ELSE 16686
=============================================================================
