------------------------------ MODULE Headers ------------------------------
(***************************************************************************)
(* The two headers of a PLFRAME and how they are recognised:               *)
(* src/plheader_gen.c and src/vlsnr_header_gen.c.                          *)
(*                                                                         *)
(* A symbol is its quadrant, 0 .. 3 counted from (+, +) to the left: in    *)
(* this library every constellation has its points there, a rotation by a  *)
(* quarter adds one, and the product of one symbol and the conjugate of    *)
(* another is the power of j that is their difference.  Arrays are         *)
(* functions on 0 .. length - 1, as in the code.                           *)
(***************************************************************************)
EXTENDS Integers, FiniteSets

DVBS2X_SOF_LEN == 26
DVBS2X_PLSC_LEN == 64
DVBS2X_PLHEADER_LEN == DVBS2X_SOF_LEN + DVBS2X_PLSC_LEN
DVBS2X_VLSNR_WH_LEN == 896
DVBS2X_VLSNR_HDR_LEN == 900
SYNC_SEG_LEN == 128
NumModcods == 9

\* The first x of S with the largest value f(x).
FirstBest(S, f(_)) ==
  LET scored == {<<f(x), x>> : x \in S}
      best == CHOOSE c \in scored : \A d \in scored : d[1] < c[1] \/ (d[1] = c[1] /\ c[2] <= d[2])
  IN best[2]

\* Bit k of a word, the most significant first.
HighBit(word, width, k) == (word \div 2 ^ (width - 1 - k)) % 2

----------------------------------------------------------------------------
(* Constellations *)

\* pi/2-BPSK: the symbols at odd places are those at even places, turned.
PiHalfBpsk(n, b) == ((n % 2) + 2 * b) % 4

\* The pair the PLS code of a VL-SNR frame uses.
ShiftedBpsk(n, b) == ((n % 2) + 1 + 2 * b) % 4

----------------------------------------------------------------------------
(* The PL header *)

sof_sequence ==
  <<0,1,1,0,0,0,1,1,0,1,0,0,1,0,1,1,1,0,1,0,0,0,0,0,1,0>>
pls_scram ==
  <<0,1,1,1,0,0,0,1,1,0,0,1,1,1,0,1,1,0,0,0,0,0,1,1,1,1,0,0,1,0,0,1,
    0,1,0,1,0,0,1,1,0,1,0,0,0,0,1,0,0,0,1,0,1,1,0,1,1,1,1,1,1,0,1,0>>

\* The first row of the generator is one word, those after it alternate.
pls_gen(r, m) == CASE r = 0 -> HighBit(IF m < 16 THEN \h90AC ELSE \h2DDD, 16, m % 16)
                   [] r = 6 -> 1
                   [] OTHER -> (m \div 2 ^ (r - 1)) % 2

\* Seven bits of the code choose rows, the last one turns every odd place over.
pls_encode(code) ==
  LET rows == {r \in 0 .. 6 : HighBit(code, 8, r) = 1}
      temp(m) == Cardinality({r \in rows : pls_gen(r, m) = 1})
  IN [n \in 0 .. DVBS2X_PLSC_LEN - 1 |->
        (temp(n \div 2) + (n % 2) * (code % 2) + pls_scram[n + 1]) % 2]

plheader_generate(pls_code) ==
  LET enc == pls_encode(pls_code)
  IN [n \in 0 .. DVBS2X_PLHEADER_LEN - 1 |->
        IF n < DVBS2X_SOF_LEN THEN PiHalfBpsk(n, sof_sequence[n + 1])
        ELSE IF pls_code >= 128 THEN ShiftedBpsk(n, enc[n - DVBS2X_SOF_LEN])
        ELSE PiHalfBpsk(n, enc[n - DVBS2X_SOF_LEN])]

Codewords == [code \in 0 .. 255 |-> pls_encode(code)]

\* The code whose word agrees with most symbols, less those it is opposite to.
plheader_recover(symbols) ==
  LET turned(code, n) ==
        (symbols[DVBS2X_SOF_LEN + n] - ShiftedBpsk(DVBS2X_SOF_LEN + n, Codewords[code][n])) % 4
      times(code, t) == Cardinality({n \in 0 .. DVBS2X_PLSC_LEN - 1 : turned(code, n) = t})
      corr(code) == times(code, 0) - times(code, 2)
  IN FirstBest(0 .. 255, corr) % 128

----------------------------------------------------------------------------
(* The VL-SNR header *)

vlsnr_base_matrix ==
  << <<\hFB, \hF2, \h3E, \h83, \h7F, \h9B, \hC4>>, <<\h98, \h70, \h8E, \h0B, \h39, \h34, \h5E>>,
     <<\hF6, \hA2, \hC9, \hFE, \h1B, \h17, \h37>>, <<\h84, \h18, \hD9, \h5A, \h6F, \h99, \h7A>>,
     <<\h7B, \h7D, \h7B, \h3E, \h9F, \hC9, \hEA>>, <<\h5E, \h78, \hBA, \h03, \hA6, \hD5, \h1A>>,
     <<\h27, \h9C, \hC2, \h65, \h43, \hEC, \hD0>>, <<\h34, \h2B, \h04, \h98, \hBF, \h3D, \h7D>>,
     <<\hAD, \hD0, \h36, \hE9, \hD5, \h31, \h2F>>, <<\h10, \h61, \hC6, \hDF, \h82, \h62, \h37>>,
     <<\h72, \hD3, \hE0, \h90, \h73, \h84, \hC7>>, <<\h3B, \hD5, \hAC, \hEE, \h25, \hE2, \hC9>>,
     <<\h59, \h08, \h7D, \h82, \h61, \h5A, \hDA>>, <<\hE9, \hAF, \h01, \h72, \hCF, \h9D, \hA7>>,
     <<\h3F, \h48, \h35, \hA4, \h06, \h3F, \h07>>, <<\h23, \hC9, \hAE, \hEC, \hF2, \hED, \h41>> >>

\* Faulty: the signs of MODCOD 9 are all inverted, not only the first half.
vlsnr_wh_signs_mistyped ==
  <<\h0000, \h5555, \h3333, \h6666, \h0F0F, \h6969, \h3C3C, \h5A5A, \hFFFF>>

\* The rows of the Walsh-Hadamard table that modcod_to_annex_i chooses, the rows to
\* invert as the ones of a word.
vlsnr_wh_signs ==
  <<\h0000, \h5555, \h3333, \h6666, \h0F0F, \h6969, \h3C3C, \h5A5A, \hFF00>>

Chip(mc, n) ==
  LET row == n \div 56
      col == n % 56
      bit == HighBit(vlsnr_base_matrix[row + 1][col \div 8 + 1], 8, col % 8)
  IN (bit + HighBit(vlsnr_wh_signs[mc], 16, row)) % 2

\* Two zeros before the pattern and two behind it.
vlsnr_header_generate(mc) ==
  [n \in 0 .. DVBS2X_VLSNR_HDR_LEN - 1 |->
     PiHalfBpsk(n, IF n - 2 \in 0 .. DVBS2X_VLSNR_WH_LEN - 1 THEN Chip(mc, n - 2) ELSE 0)]

vlsnr_ref ==
  [mc \in 1 .. NumModcods |->
     [n \in 0 .. DVBS2X_VLSNR_WH_LEN - 1 |-> PiHalfBpsk(n, Chip(mc, n))]]

\* By how many quarters a symbol of the buffer is ahead of the reference, and the
\* square of the magnitude of the correlation over the places from .. to.
Ahead(symbols, pos, mc, n) == (symbols[pos + n] - vlsnr_ref[mc][n]) % 4
Corr2(symbols, pos, mc, from, to) ==
  LET times(t) == Cardinality({n \in from .. to : Ahead(symbols, pos, mc, n) = t})
      re == times(0) - times(2)
      im == times(1) - times(3)
  IN re * re + im * im

\* The root of the square, rounded down.
Magnitude(corr2) == CHOOSE m \in 0 .. SYNC_SEG_LEN : m * m <= corr2 /\ corr2 < (m + 1) * (m + 1)

\* The magnitudes of the first k segments together.
SegMag(symbols, pos, mc) ==
  LET mag[k \in 0 .. DVBS2X_VLSNR_WH_LEN \div SYNC_SEG_LEN] ==
        IF k = 0 THEN 0
        ELSE mag[k - 1] + Magnitude(Corr2(symbols, pos, mc, (k - 1) * SYNC_SEG_LEN, k * SYNC_SEG_LEN - 1))
  IN mag[DVBS2X_VLSNR_WH_LEN \div SYNC_SEG_LEN]

\* Where the MODCOD would be, by the coherent correlation.  Every symbol has
\* the same energy, so that the norm the code divides by makes no difference.
Candidate(symbols, positions, mc) ==
  LET score(pos) == Corr2(symbols, pos, mc, 0, DVBS2X_VLSNR_WH_LEN - 1)
  IN FirstBest(positions, score)

\* And which it is, by the magnitudes of the segments; the confidence in hundredths.
header_sync(symbols, positions) ==
  LET at == [mc \in 1 .. NumModcods |-> Candidate(symbols, positions, mc)]
      mag(mc) == SegMag(symbols, at[mc], mc)
      best == FirstBest(1 .. NumModcods, mag)
  IN [conf |-> (100 * mag(best)) \div DVBS2X_VLSNR_WH_LEN,
      wh_start |-> at[best], modcod_idx |-> best]
=============================================================================
