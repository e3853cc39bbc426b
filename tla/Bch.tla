-------------------------------- MODULE Bch --------------------------------
(***************************************************************************)
(* The outer code: src/bch_encode.c and src/bch_decode.c.  The code uses   *)
(* the fields of degree 14, 15 and 16; here the field, the number of       *)
(* corrected errors and the (shortened) length are parameters.  An element *)
(* of GF(2^gf_m) is the set of its bits, so that addition is symmetric     *)
(* difference; a polynomial over GF(2) is the set of its exponents, and a  *)
(* word is the set of the array positions that hold a one.                 *)
(***************************************************************************)
EXTENDS Integers, FiniteSets, FiniteSetsExt

CONSTANTS gf_m,        \* degree of the field
          prim_poly,   \* the primitive polynomial, as a set of exponents
          t,           \* how many errors the code is to correct
          n_bch, k_bch \* length of a codeword and of its information

gf_n == 2^gf_m - 1

ASSUME BchAssumption ==
  /\ gf_m \in Nat \ {0}
  /\ prim_poly \subseteq 0 .. gf_m
  /\ {0, gf_m} \subseteq prim_poly
  /\ t \in Nat \ {0}
  /\ k_bch \in Nat \ {0}
  /\ n_bch \in (k_bch + 1) .. gf_n

parity_len == n_bch - k_bch

Info == SUBSET (0 .. k_bch - 1)

----------------------------------------------------------------------------
(* The field *)

gf_add(a, b) == (a \ b) \cup (b \ a)

\* The powers of alpha: shift, and subtract the polynomial on a carry.
exp_table ==
  LET power[i \in 0 .. gf_n - 1] ==
        IF i = 0 THEN {0}
        ELSE LET reg == {j + 1 : j \in power[i - 1]}
             IN IF gf_m \in reg THEN gf_add(reg, prim_poly) ELSE reg
  IN [i \in 0 .. 2 * gf_n - 1 |-> power[i % gf_n]]

log_table == [a \in {exp_table[i] : i \in 0 .. gf_n - 1} |->
                CHOOSE i \in 0 .. gf_n - 1 : exp_table[i] = a]

gf_mul(a, b) == IF a = {} \/ b = {} THEN {}
                ELSE exp_table[log_table[a] + log_table[b]]

gf_inv(a) == IF a = {} THEN {} ELSE exp_table[gf_n - log_table[a]]

\* The sum of f over S: bit by bit, the parity of the terms that have it.
GfSum(f(_), S) == {b \in 0 .. gf_m - 1 : Cardinality({x \in S : b \in f(x)}) % 2 = 1}

----------------------------------------------------------------------------
(* The generator polynomial and the encoder *)

\* compute_min_poly reduces the powers alpha^(k*0), alpha^(k*1), ... against
\* those before them; the first that is a sum of some of them ends it.
Dependent(k, d) ==
  {C \in SUBSET (0 .. d - 1) :
     GfSum(LAMBDA i : exp_table[(k * i) % gf_n], C) = exp_table[(k * d) % gf_n]}
compute_min_poly(k) ==
  LET deg == CHOOSE d \in 1 .. gf_m :
               /\ Dependent(k, d) # {}
               /\ \A e \in 1 .. d - 1 : Dependent(k, e) = {}
  IN {deg} \cup CHOOSE C \in Dependent(k, deg) : TRUE

gf2_poly_mul(a, b) ==
  {e \in {i + j : i \in a, j \in b} :
     Cardinality({i \in a : e - i \in b}) % 2 = 1}

\* The roots that share a minimal polynomial with alpha^k.
Conjugates(k) == {(k * 2^i) % gf_n : i \in 0 .. gf_m - 1}

\* One minimal polynomial for each class of conjugates among alpha .. alpha^2t.
gen_poly ==
  LET upto[k \in 0 .. 2 * t] ==
        IF k = 0 THEN {0}
        ELSE IF \E j \in 1 .. k - 1 : k % gf_n \in Conjugates(j)
             THEN upto[k - 1]
             ELSE gf2_poly_mul(upto[k - 1], compute_min_poly(k))
  IN upto[2 * t]

\* What dvbs2x_bch_encoder_init returns: the degree is to be the number of parity bits.
EncoderInit ==
  IF parity_len \in gen_poly /\ gen_poly \subseteq 0 .. parity_len THEN 0 ELSE -1

\* One bit through the shift register with feedback.
LfsrStep(lfsr, bit) ==
  LET fb == bit # (parity_len - 1 \in lfsr)
      shifted == {j + 1 : j \in lfsr \ {parity_len - 1}}
  IN IF fb THEN gf_add(shifted, gen_poly \ {parity_len}) ELSE shifted

\* The information, then the register with its highest stage first.
bch_encode(input) ==
  LET lfsr[i \in 0 .. k_bch] ==
        IF i = 0 THEN {} ELSE LfsrStep(lfsr[i - 1], (i - 1) \in input)
  IN input \cup {k_bch + parity_len - 1 - j : j \in lfsr[k_bch]}

----------------------------------------------------------------------------
(* The decoder *)

\* Position p of the array is the coefficient of x^(n_bch - 1 - p).
Syndromes(word) ==
  [i \in 1 .. 2 * t |->
     GfSum(LAMBDA p : exp_table[(i * (n_bch - 1 - p)) % gf_n], word)]

Zero == [i \in 0 .. 2 * t |-> {}]
One  == [Zero EXCEPT ![0] = {0}]

\* x * b(x), in an array of fixed size.
ShiftUp(b) == [i \in 0 .. 2 * t |-> IF i = 0 THEN {} ELSE b[i - 1]]

\* The discrepancy of the register of length l at step n.
Discrepancy(synd, sigma, l, n) ==
  GfSum(LAMBDA i : IF i = 0 THEN synd[n] ELSE gf_mul(sigma[i], synd[n - i]), 0 .. l)

\* One iteration of Berlekamp-Massey on bm = [sigma, b, l].
BmStep(bm, synd, n) ==
  LET d == Discrepancy(synd, bm.sigma, bm.l, n)
      corrected == [i \in 0 .. 2 * t |->
                      gf_add(bm.sigma[i], gf_mul(d, ShiftUp(bm.b)[i]))]
      longer == 2 * bm.l <= n - 1
  IN IF d = {}
     THEN [bm EXCEPT !.b = ShiftUp(bm.b)]
     ELSE [sigma |-> corrected,
           b     |-> IF longer THEN [i \in 0 .. 2 * t |-> gf_mul(bm.sigma[i], gf_inv(d))]
                               ELSE ShiftUp(bm.b),
           l     |-> IF longer THEN n - bm.l ELSE bm.l]

\* sigma(alpha^i).
Evaluate(sigma, l, i) ==
  GfSum(LAMBDA k : IF sigma[k] = {} THEN {}
                   ELSE exp_table[(log_table[sigma[k]] + k * i) % gf_n], 0 .. l)

\* The Chien search: the array positions of the errors, from the roots of
\* sigma; a root in the shortened part of the code is no position.
ErrorLocs(sigma, l) ==
  {n_bch - 1 - p : p \in {q \in 0 .. n_bch - 1 :
                            Evaluate(sigma, l, (gf_n - q) % gf_n) = {}}}
============================================================================
