-------------------------------- MODULE Fec --------------------------------
(***************************************************************************)
(* Forward error correction from end to end: the modulator encodes a frame *)
(* with both codes and leaves out bits of it (src/modulator_top.c:119),    *)
(* the channel erases or inverts some, and the demodulator decodes         *)
(* (src/demodulator_top.c:733): the LDPC decoder iterates until a check    *)
(* finds a codeword, its limit is reached or somebody cancels, and         *)
(* whatever it has decided the BCH decoder corrects, or refuses.           *)
(*                                                                         *)
(* A frame that is only erased is decoded exactly, message by message.  A  *)
(* frame with inverted bits is `noisy': real-valued ratios decide what     *)
(* the iterations make of it, and the model lets each leave one of three   *)
(* things, the word that was sent, the same wrong word as before, or a     *)
(* wrong codeword.                                                         *)
(***************************************************************************)
EXTENDS Bch, Ldpc

CONSTANTS xs, xp, p_period,    \* shortened bits, punctured bits, their distance
          EARLY_CHECK_ITERS, CONV_CHECK_PERIOD,
          Limits,              \* values of the limit of iterations
          Frames,              \* the frames that are sent
          MaxErased, MaxFlips  \* bounds on what the channel does

ASSUME FecAssumption ==
  /\ xs \in Nat /\ xs + n_bch = k_ldpc
  /\ xp \in Nat /\ p_period \in Nat \ {0}
  /\ (xp - 1) * p_period < parities
  /\ {EARLY_CHECK_ITERS, CONV_CHECK_PERIOD} \cup Limits \subseteq Nat \ {0}
  /\ Frames \subseteq Info
  /\ {MaxErased, MaxFlips} \subseteq Nat

VARIABLES
  bbframe,    \* the frame that is sent
  ldpc_cw,    \* its codeword
  noise,      \* the bits of the codeword the noise inverts
  llr,        \* what the demodulator knows of each bit
  stage,      \* "ldpc", "rows", "check", "returned", "bch", "bm", "done"
  limit,      \* ldpc_iter_limit
  cancel_requested,
  row, iter,  \* LDPC: check node and iteration
  msg,        \* messages on the edges
  hard,       \* the sign of each bit after the last iteration
  settled,    \* for how many iterations that has been a codeword
  iter_used,  \* what the statistics report
  ret,        \* what the LDPC decoder returned
  bch_cw,     \* the word the BCH decoder works on
  synd, bm, n, \* its syndromes and Berlekamp-Massey's registers and step
  result, num_errors

ldpcVars == <<row, iter, msg, hard, settled, iter_used, ret>>
bchVars  == <<bch_cw, synd, bm, n, num_errors>>
sentVars == <<bbframe, ldpc_cw, noise, llr, limit>>
vars     == <<sentVars, ldpcVars, bchVars, stage, cancel_requested, result>>

----------------------------------------------------------------------------
(* The modulator and the channel *)

\* The LDPC information word: shortening zeros, then the BCH codeword.
LdpcInfo(frame) == {xs + p : p \in bch_encode(frame)}

Punctured == {k_ldpc + j * p_period : j \in 0 .. xp - 1}
Sent == (xs .. fec_len - 1) \ Punctured

\* full_llr: shortened bits are zeros for certain, punctured bits unknown.
FullLlr(cw, erased) ==
  [v \in 0 .. fec_len - 1 |->
     IF v < xs THEN 1
     ELSE IF v \in Punctured \cup erased THEN 0
     ELSE IF v \in cw THEN -1 ELSE 1]

NoSyndromes == [i \in 1 .. 2 * t |-> {}]

\* The LDPC decoder begins with silent edges, the initial guess of BCH is one.
Init ==
  /\ EncoderInit = 0
  /\ bbframe \in Frames
  /\ ldpc_cw = ldpc_encode(LdpcInfo(bbframe))
  /\ limit \in Limits
  /\ \/ \E e \in UNION {kSubset(c, Sent) : c \in 0 .. MaxErased} :
          llr = FullLlr(ldpc_cw, e) /\ noise = {}
     \/ \E e \in UNION {kSubset(c, xs .. k_ldpc - 1) : c \in 1 .. MaxFlips} :
          llr = FullLlr(ldpc_cw, {}) /\ noise = e
  /\ stage = "ldpc" /\ cancel_requested = FALSE
  /\ row = 0 /\ iter = 0 /\ msg = [e \in Edges |-> 0] /\ hard = {} /\ settled = 0
  /\ iter_used = 0 /\ ret = -1
  /\ bch_cw = {} /\ synd = NoSyndromes /\ bm = [sigma |-> One, b |-> One, l |-> 0] /\ n = 1
  /\ result = "none" /\ num_errors = 0

\* Another thread, or a signal handler, wants the decoding to end.
RequestCancel ==
  /\ stage \in {"ldpc", "rows", "check", "returned"} /\ ~cancel_requested
  /\ cancel_requested' = TRUE
  /\ UNCHANGED <<sentVars, ldpcVars, bchVars, stage, result>>

----------------------------------------------------------------------------
(* dvbs2x_ldpc_decode *)

\* Faulty: the last iteration is checked only if its turn comes.
UncheckedAtEnd(i) ==
  i >= EARLY_CHECK_ITERS /\ (i + 1) % CONV_CHECK_PERIOD # 0

\* Iterations after which the syndrome check is left out.
Unchecked(i) ==
  /\ i >= EARLY_CHECK_ITERS
  /\ (i + 1) % CONV_CHECK_PERIOD # 0
  /\ i + 1 < limit

\* The top of an iteration, where the flag is looked at.
LdpcBegin ==
  /\ stage = "ldpc" /\ iter < limit /\ ~cancel_requested
  /\ stage' = "rows" /\ row' = 0
  /\ UNCHANGED <<sentVars, iter, msg, hard, settled, iter_used, ret,
                 bchVars, cancel_requested, result>>

\* One check node, with the messages the nodes before it have left.
LdpcRow ==
  /\ stage = "rows" /\ noise = {} /\ row < parities
  /\ msg' = RowUpdate(llr, msg, row)
  /\ row' = row + 1
  /\ UNCHANGED <<sentVars, iter, hard, settled, iter_used, ret,
                 bchVars, stage, cancel_requested, result>>

LdpcDecided ==
  /\ stage = "rows"
  /\ \/ noise = {} /\ row = parities /\ hard' = HardDecision(llr, msg)
     \/ noise # {} /\ \E wrong \in {{}, noise, ldpc_encode(noise)} :
                        hard' = gf_add(ldpc_cw, wrong)
  /\ settled' = IF Converged(hard') THEN settled + 1 ELSE 0
  /\ stage' = "check"
  /\ UNCHANGED <<sentVars, row, iter, msg, iter_used, ret, bchVars, cancel_requested, result>>

\* The syndrome check, when it is its turn.
LdpcCheck ==
  /\ stage = "check"
  /\ iter' = iter + 1
  /\ IF ~Unchecked(iter) /\ Converged(hard)
     THEN ret' = 0 /\ iter_used' = iter + 1 /\ stage' = "returned"
     ELSE stage' = "ldpc" /\ UNCHANGED <<ret, iter_used>>
  /\ UNCHANGED <<sentVars, row, msg, hard, settled, bchVars, cancel_requested, result>>

\* A cancel: the decoder returns without a decision.
LdpcCancelled ==
  /\ stage = "ldpc" /\ iter < limit /\ cancel_requested
  /\ iter_used' = iter /\ ret' = -1 /\ hard' = {}
  /\ stage' = "returned"
  /\ UNCHANGED <<sentVars, bchVars, row, iter, msg, settled, cancel_requested, result>>

LdpcExhausted ==
  /\ stage = "ldpc" /\ iter = limit
  /\ iter_used' = limit /\ ret' = -1
  /\ stage' = "returned"
  /\ UNCHANGED <<sentVars, bchVars, row, iter, msg, hard, settled, cancel_requested, result>>

\* Faulty: a frame the LDPC decoder has not settled is given up.
LdpcReturnedStrict ==
  /\ stage = "returned"
  /\ IF ret < 0
     THEN stage' = "done" /\ result' = (IF cancel_requested THEN "CANCELLED" ELSE "CRC")
          /\ UNCHANGED bch_cw
     ELSE /\ stage' = "bch"
          /\ bch_cw' = {p \in 0 .. n_bch - 1 : xs + p \in hard}
          /\ UNCHANGED result
  /\ UNCHANGED <<sentVars, ldpcVars, synd, bm, n, num_errors, cancel_requested>>

\* A failure is a cancel if the flag is set by now; any other failure is left
\* to the BCH decoder, which gets the information part without the shortening.
LdpcReturned ==
  /\ stage = "returned"
  /\ IF ret < 0 /\ cancel_requested
     THEN stage' = "done" /\ result' = "CANCELLED" /\ UNCHANGED bch_cw
     ELSE /\ stage' = "bch"
          /\ bch_cw' = {p \in 0 .. n_bch - 1 : xs + p \in hard}
          /\ UNCHANGED result
  /\ UNCHANGED <<sentVars, ldpcVars, synd, bm, n, num_errors, cancel_requested>>

----------------------------------------------------------------------------
(* dvbs2x_bch_decode *)

Finish(r, errors) == stage' = "done" /\ result' = r /\ num_errors' = errors

BchSyndromes ==
  /\ stage = "bch"
  /\ synd' = Syndromes(bch_cw)
  /\ IF synd' = NoSyndromes THEN Finish("OK", 0)
                            ELSE stage' = "bm" /\ UNCHANGED <<result, num_errors>>
  /\ UNCHANGED <<sentVars, ldpcVars, bch_cw, bm, n, cancel_requested>>

BchIteration ==
  /\ stage = "bm" /\ n <= 2 * t
  /\ bm' = BmStep(bm, synd, n)
  /\ n' = n + 1
  /\ UNCHANGED <<sentVars, ldpcVars, bch_cw, synd, num_errors, stage, cancel_requested, result>>

\* Faulty: the roots are not counted.
BchCorrectUncounted ==
  /\ stage = "bm" /\ n > 2 * t
  /\ IF bm.l > t
     THEN Finish("CRC", -1) /\ UNCHANGED bch_cw
     ELSE Finish("OK", bm.l) /\ bch_cw' = gf_add(bch_cw, ErrorLocs(bm.sigma, bm.l))
  /\ UNCHANGED <<sentVars, ldpcVars, synd, bm, n, cancel_requested>>

\* Too long a register, or a root too few, and the word is left as it is.
BchCorrect ==
  /\ stage = "bm" /\ n > 2 * t
  /\ LET locs == ErrorLocs(bm.sigma, bm.l)
     IN IF bm.l > t \/ Cardinality(locs) # bm.l
        THEN Finish("CRC", -1) /\ UNCHANGED bch_cw
        ELSE Finish("OK", bm.l) /\ bch_cw' = gf_add(bch_cw, locs)
  /\ UNCHANGED <<sentVars, ldpcVars, synd, bm, n, cancel_requested>>

Next == \/ RequestCancel
        \/ LdpcBegin \/ LdpcRow \/ LdpcDecided \/ LdpcCheck
        \/ LdpcCancelled \/ LdpcExhausted \/ LdpcReturned
        \/ BchSyndromes \/ BchIteration \/ BchCorrect

Spec == Init /\ [][Next]_vars

----------------------------------------------------------------------------
(* Properties *)

Received == {p \in 0 .. n_bch - 1 : xs + p \in hard}
Codewords == {bch_encode(i) : i \in Info}
Distance(a, b) == Cardinality(gf_add(a, b))

\* The BCH decoder is a bounded-distance decoder: it returns the one codeword
\* within t of what the LDPC decoder decided, with the number of bits between
\* them, and where there is none it fails and leaves the word alone
\* (bch_decode.c: the roots outside the shortened code and the count at line 245).
BoundedDistance ==
  result \in {"OK", "CRC"} =>
    LET near == {c \in Codewords : Distance(c, Received) <= t}
    IN IF near = {} THEN result = "CRC" /\ bch_cw = Received
                    ELSE result = "OK" /\ near = {bch_cw} /\ num_errors = Distance(bch_cw, Received)

\* A frame in which at most t bits are left wrong is returned as it was sent,
\* whether or not the LDPC decoder converged, unless somebody cancelled.
FewErrorsCorrected ==
  /\ stage = "done" /\ result # "CANCELLED"
  /\ Distance(Received, bch_encode(bbframe)) <= t
  => result = "OK" /\ bch_cw \cap (0 .. k_bch - 1) = bbframe

\* Encoder and decoder mean the same code: the check matrix of build_csr accepts
\* what dvbs2x_ldpc_encode makes of an information word and nothing else.
ConvergedIsEncoded ==
  ret = 0 => hard = ldpc_encode(hard \cap (0 .. k_ldpc - 1))

\* Without noise every message that says something says what was sent, in both
\* directions of every edge, however the rows are ordered.
MessagesTrue ==
  noise = {} => \A e \in Edges : msg[e] \in {0, IF e[2] \in ldpc_cw THEN -1 ELSE 1}

\* The bits a row can tell from the others, again and again: what is left at the
\* end cannot be told by any decoder of this kind.
StoppingSet ==
  LET left[i \in 0 .. fec_len] ==
        IF i = 0 THEN {v \in 0 .. fec_len - 1 : llr[v] = 0}
        ELSE LET prev == left[i - 1]
             IN {v \in prev : \A r \in 0 .. parities - 1 :
                   LET open == {e \in RowEdges[r] : e[2] \in prev}
                   IN {e[2] : e \in open} = {v} => Cardinality(open) # 1}
  IN left[Cardinality({v \in 0 .. fec_len - 1 : llr[v] = 0})]

\* Erased and punctured bits that can be told from the others are told, in no
\* more iterations than there are of them.
ErasuresFilled ==
  /\ stage = "done" /\ result # "CANCELLED" /\ noise = {} /\ StoppingSet = {}
  /\ Cardinality({v \in 0 .. fec_len - 1 : llr[v] = 0}) <= limit
  => ret = 0 /\ hard = ldpc_cw

\* A codeword is noticed at once in the first iterations, later within a period,
\* and in any case before the decoder gives up (ldpc_decode.c:420).
ConvergenceNoticed ==
  /\ stage = "ldpc" => settled < CONV_CHECK_PERIOD
  /\ stage = "ldpc" /\ iter <= EARLY_CHECK_ITERS => settled = 0
  /\ stage = "ldpc" /\ iter = limit => settled = 0
============================================================================
