------------------------------ MODULE PlFrame ------------------------------
(***************************************************************************)
(* One PLFRAME after the other, from the coded bits to the symbols on the  *)
(* air and back: the constellations, the spreading, the pilots and the     *)
(* scrambler of src/modulate.c, src/pilot_insert.c and src/scrambler.c in  *)
(* the order of dvbs2x_modulate_bbframe_symbols_ex, and what undoes them   *)
(* in the order of dvbs2x_demodulate_bbframe_symbols_ex.                   *)
(*                                                                         *)
(* FrameBuild establishes the counts of a frame with its real length; from *)
(* there on this module follows frames of the same MODCOD with a short     *)
(* data field.  The air turns a frame by quarters, or loses it; noise and  *)
(* a carrier offset are left out.                                          *)
(***************************************************************************)
EXTENDS FrameBuild, Headers

CONSTANTS
    GoldCode,       \* index of the scrambling code, the same at both ends
    Maps,           \* data fields looked at: the places of the pilots
    FieldLen,       \* their length
    Turns,          \* quarters by which the air may turn a frame
    Reach,          \* symbols before and after its place the header is searched at
    MaxFrames       \* bound: frames sent

\* The places of the search are so near that the symbols of both headers are all it reads,
\* and the pilots lie in the field.
ASSUME SearchAssumption == Turns \subseteq 0 .. 3 /\ Reach \in 0 .. 2
ASSUME FieldAssumption == FieldLen \in Nat /\ \A map \in Maps : map \subseteq 0 .. FieldLen - 1

VARIABLES
    frame_no,       \* frames begun
    step,           \* what has been done of it
    is_pilot,       \* the layout of its data field
    bits,           \* its coded bits
    header,         \* symbols received, as the receiver works on them
    field,
    found,          \* result of the frame synchronisation
    llr,            \* signs of the log-likelihood ratios
    scrambler,      \* of struct dvbs2x_modulator
    descrambler     \* and of struct dvbs2x_demodulator

plVars == <<frame_no, step, is_pilot, bits, header, field, found, llr, scrambler, descrambler>>

-----------------------------------------------------------------------------
(* The scrambler: two registers, each the set of its bits that are one *)

Parity2(S) == Cardinality(S) % 2
Shifted(reg, feedback) == {b - 1 : b \in reg \ {0}} \cup (IF feedback = 1 THEN {17} ELSE {})

\* Faulty: one tap of the look-ahead of x is a place off, at both ends alike.
RnMistyped(scr) ==
    2 * ((Parity2(scr.x \cap {4, 6, 14}) + Parity2(scr.y \cap {5, 6, 8, 9, 10, 11, 12, 13, 14, 15})) % 2)
    + ((Parity2(scr.x \cap {0}) + Parity2(scr.y \cap {0})) % 2)

\* The value dvbs2x_scrambler_next_rn returns (masks 0x8050 and 0xFF60) ...
Rn(scr) ==
    2 * ((Parity2(scr.x \cap {4, 6, 15}) + Parity2(scr.y \cap {5, 6, 8, 9, 10, 11, 12, 13, 14, 15})) % 2)
    + ((Parity2(scr.x \cap {0}) + Parity2(scr.y \cap {0})) % 2)

\* ... and the registers it leaves (masks 0x0081 and 0x04A1).
Advanced(scr) ==
    [scr EXCEPT !.x = Shifted(@, Parity2(@ \cap {0, 7})),
                !.y = Shifted(@, Parity2(@ \cap {0, 5, 7, 10}))]

\* Repeated over n symbols, in rows of 30; the set makes TLC finish a row before
\* it begins the next.
Advances(scr, n) ==
    LET s[k \in 0 .. n] == IF k = 0 THEN scr ELSE Advanced(s[k - 1]) IN s[n]
Seek(scr, n) ==
    LET rows[k \in 0 .. n \div 30] == IF k = 0 THEN scr
                                       ELSE CHOOSE r \in {Advances(s, 30) : s \in {rows[k - 1]}} : TRUE
    IN Advances(rows[n \div 30], n % 30)

\* dvbs2x_scrambler_init: the x register is clocked GoldCode times.
RootX == LET x[g \in 0 .. GoldCode] ==
               IF g = 0 THEN {0} ELSE Shifted(x[g - 1], Parity2(x[g - 1] \cap {0, 7}))
         IN x[GoldCode]
ScramblerInit == [x |-> RootX, y |-> 0 .. 17]

\* What reset and seek make of the scrambler before each data field.
AtDataField == Seek(ScramblerInit, DVBS2X_VLSNR_HDR_LEN)

-----------------------------------------------------------------------------
(* The transmitter *)

\* Four phases for pilots and QPSK, a sign for the rest.
Quarters(rn, pilot) == IF pilot \/ row.mod = "QPSK" THEN rn ELSE 2 * (rn % 2)

\* How many data symbols stand before place n.
DataBefore(map, n) == Cardinality((0 .. n - 1) \ map)

\* Coded bits of a field, and the symbol each data place has.
NumBits(map) ==
    LET n == FieldLen - Cardinality(map)
    IN IF row.mod = "QPSK" THEN 2 * n ELSE IF row.has_spread THEN n \div 2 ELSE n
Mapped(b, n) ==
    IF row.mod = "QPSK"
    THEN CASE b[2 * n] = 0 /\ b[2 * n + 1] = 0 -> 0
           [] b[2 * n] = 1 /\ b[2 * n + 1] = 0 -> 1
           [] b[2 * n] = 1 /\ b[2 * n + 1] = 1 -> 2
           [] b[2 * n] = 0 /\ b[2 * n + 1] = 1 -> 3
    ELSE PiHalfBpsk(n, b[IF row.has_spread THEN n \div 2 ELSE n])

PilotPoint == 0
Inserted(b, map) ==
    [n \in 0 .. FieldLen - 1 |-> IF n \in map THEN PilotPoint ELSE Mapped(b, DataBefore(map, n))]

\* A field scrambled (or, with sign -1, descrambled) from a scrambler's state.
Rotated(symbols, map, scr, sign) ==
    [n \in 0 .. FieldLen - 1 |-> (symbols[n] + sign * Quarters(Rn(Seek(scr, n)), n \in map)) % 4]

pls_code == IF row.set = 1 THEN 129 ELSE 131
Headers0 == LET pl == plheader_generate(pls_code)
                vl == vlsnr_header_generate(mc)
            IN [n \in 0 .. DVBS2X_PLHEADER_LEN + DVBS2X_VLSNR_HDR_LEN - 1 |->
                  IF n < DVBS2X_PLHEADER_LEN THEN pl[n] ELSE vl[n - DVBS2X_PLHEADER_LEN]]
Turned(symbols, r) == [n \in DOMAIN symbols |-> (symbols[n] + r) % 4]

\* The first symbol of the SOF is sent in quadrant 0.
AirTurn == header[0]

None == [conf |-> 0, wh_start |-> 0, modcod_idx |-> 0]
Empty == [n \in {} |-> 0]

FieldInit ==
    /\ frame_no = 0 /\ step = "idle"
    /\ is_pilot = {} /\ bits = Empty /\ header = Empty /\ field = Empty
    /\ found = None /\ llr = Empty
    /\ scrambler = ScramblerInit /\ descrambler = ScramblerInit

\* The headers of the next frame; they are not scrambled.
SendHeaders ==
    /\ stage = "built" /\ step = "idle" /\ frame_no < MaxFrames
    /\ frame_no' = frame_no + 1 /\ step' = "headers"
    /\ \E r \in Turns : header' = Turned(Headers0, r)
    /\ UNCHANGED <<is_pilot, bits, field, found, llr, scrambler, descrambler>>

\* The data field: mapping, pilots, then reset, seek and scramble.
SendField(map) ==
    /\ step \in {"found", "missed"}
    /\ is_pilot' = map /\ bits' \in [0 .. NumBits(map) - 1 -> {0, 1}]
    /\ scrambler' = Seek(AtDataField, FieldLen)
    /\ field' = Turned(Rotated(Inserted(bits', map), map, AtDataField, 1), AirTurn)
    /\ step' = IF step = "found" THEN "received" ELSE "lost"
    /\ UNCHANGED <<frame_no, header, found, llr, descrambler>>

-----------------------------------------------------------------------------
(* The receiver *)

WhStart == DVBS2X_PLHEADER_LEN + 2

\* The search, here over the places around the header.
Synchronise ==
    /\ step = "headers"
    /\ found' = header_sync(header, WhStart - Reach .. WhStart + Reach)
    /\ step' = IF found'.conf < 45 THEN "missed" ELSE "found"
    /\ UNCHANGED <<frame_no, is_pilot, bits, header, field, llr, scrambler, descrambler>>

\* The receiver was not listening, or noise covers the header.
Miss ==
    /\ step = "headers"
    /\ step' = "missed"
    /\ UNCHANGED <<frame_no, is_pilot, bits, header, field, found, llr, scrambler, descrambler>>

\* Faulty: the scrambler goes on where the frame before left it.
DescrambleContinues ==
    /\ step = "received"
    /\ LET from == IF descrambler = ScramblerInit THEN AtDataField
                   ELSE Seek(descrambler, DVBS2X_VLSNR_HDR_LEN)
       IN /\ descrambler' = Seek(from, FieldLen)
          /\ field' = Rotated(field, is_pilot, from, -1)
    /\ step' = "descrambled"
    /\ UNCHANGED <<frame_no, is_pilot, bits, header, found, llr, scrambler>>

Descramble ==
    /\ step = "received"
    /\ descrambler' = Seek(AtDataField, FieldLen)
    /\ field' = Rotated(field, is_pilot, AtDataField, -1)
    /\ step' = "descrambled"
    /\ UNCHANGED <<frame_no, is_pilot, bits, header, found, llr, scrambler>>

\* The phase is measured on the header and on each block of pilots.  When they
\* agree the line through them is level and the field is turned back by it.
Track ==
    /\ step = "descrambled"
    /\ LET phase == CHOOSE r \in 0 .. 3 : \A n \in 0 .. DVBS2X_VLSNR_WH_LEN - 1 :
                        Ahead(header, found.wh_start, found.modcod_idx, n) = r
       IN IF \A n \in is_pilot : (field[n] - PilotPoint) % 4 = phase
          THEN step' = "tracked" /\ field' = Turned(field, -phase)
          ELSE step' = "astray" /\ UNCHANGED field
    /\ UNCHANGED <<frame_no, is_pilot, bits, header, found, llr, scrambler, descrambler>>

\* Data symbol n, taken out from between the pilots, on its diagonal.
Extracted(n) == field[CHOOSE k \in 0 .. FieldLen - 1 : k \notin is_pilot /\ DataBefore(is_pilot, k) = n]
DemapPi2bpsk(n) ==
    LET d == (Extracted(n) - (n % 2)) % 4 IN CASE d = 0 -> 1 [] d = 2 -> -1 [] OTHER -> 0

Demap ==
    /\ step = "tracked"
    /\ llr' = [k \in 0 .. NumBits(is_pilot) - 1 |->
                 IF row.mod = "QPSK"
                 THEN IF Extracted(k \div 2) \in (IF k % 2 = 0 THEN {0, 3} ELSE {0, 1}) THEN 1 ELSE -1
                 ELSE IF row.has_spread THEN DemapPi2bpsk(2 * k) + DemapPi2bpsk(2 * k + 1)
                 ELSE DemapPi2bpsk(k)]
    /\ step' = "done"
    /\ UNCHANGED <<frame_no, is_pilot, bits, header, field, found, scrambler, descrambler>>

NextFrame ==
    /\ step \in {"done", "lost"}
    /\ step' = "idle"
    /\ is_pilot' = {} /\ bits' = Empty /\ header' = Empty /\ field' = Empty
    /\ found' = None /\ llr' = Empty
    /\ UNCHANGED <<frame_no, scrambler, descrambler>>

FieldNext ==
    \/ SendHeaders \/ Synchronise \/ Miss \/ Descramble \/ Track \/ Demap \/ NextFrame
    \/ \E map \in Maps : SendField(map)

PlInit == Init /\ FieldInit
PlNext == \/ Next /\ UNCHANGED plVars
          \/ FieldNext /\ UNCHANGED vars
PlSpec == PlInit /\ [][PlNext]_<<vars, plVars>>

-----------------------------------------------------------------------------
(***************************************************************************)
(* Properties.                                                             *)
(***************************************************************************)

\* A polynomial over GF(2) is the set of its exponents.  One pass replaces X ^ 18 by the
\* taps; from an exponent of 34 three passes lead below 18.
Replaced(S, taps) ==
    {e \in 0 .. 34 : (Parity2({t \in taps : t <= e /\ e - t + 18 \in S})
                      + Parity2(S \cap {e} \cap 0 .. 17)) % 2 = 1}
Reduced(S, taps) == Replaced(Replaced(Replaced(S, taps), taps), taps)

\* X ^ (2 ^ 17): squaring doubles every exponent.
FarAhead(taps) ==
    LET square[k \in 0 .. 17] == IF k = 0 THEN {1} ELSE Reduced({2 * e : e \in square[k - 1]}, taps)
    IN square[17]
FarX == FarAhead({0, 7})
FarY == FarAhead({0, 5, 7, 10})

\* The sequence is the Gold code of ETSI EN 302 307-1 5.5.4, as scrambler.h says: the
\* upper bit of Rn is the lower one 2^17 symbols later.  Both ends run the same
\* code, so that a wrong tap would show only against other equipment.
GoldSequence ==
    LET IsGold(scr) ==
          LET far == (Parity2(scr.x \cap FarX) + Parity2(scr.y \cap FarY)) % 2
              near == (Parity2(scr.x \cap {0}) + Parity2(scr.y \cap {0})) % 2
          IN Rn(scr) = 2 * far + near
    IN step = "headers" => \A n \in 0 .. FieldLen : IsGold(Seek(scrambler, n))

\* A header is found where it is and taken for the MODCOD it stands for, whatever the
\* carrier's phase: in segments, with the magnitudes only, the patterns of the
\* MODCODs remain apart; and the code in front of it names the set.
HeaderSaysModcod ==
    /\ step = "headers" => plheader_recover(Turned(header, -AirTurn)) = pls_code % 128
    /\ found # None => found.wh_start = WhStart /\ found.modcod_idx = mc /\ found.conf >= 45

\* Every frame the receiver finds comes out as the bits that were sent, whether or
\* not the frames before it were received: the scrambler is reset for each and
\* sought behind the header, pilots come back to the point they are compared
\* with, and no symbol is taken for its neighbour.
FieldUndone ==
    /\ step # "astray"
    /\ step = "done" => \A k \in DOMAIN bits : IF bits[k] = 0 THEN llr[k] > 0 ELSE llr[k] < 0
=============================================================================
