--------------------------- MODULE PlFrameProofs ---------------------------
(***************************************************************************)
(* Theorems about the frames, for every MODCOD of the table: that a frame  *)
(* is built to its length and within its arrays, that the scrambler runs   *)
(* the Gold code, that every header is found and read for what it is, and  *)
(* that every field that is found comes back as the bits that were sent.   *)
(***************************************************************************)
EXTENDS PlFrame, Counting, FiniteSetTheorems, TLAPS

(* The table *)

\* The sum over a table of up to three parts, computed.
LEMMA SumOfParts ==
  ASSUME NEW table, DOMAIN table \in SUBSET {1, 2, 3}, \A n \in DOMAIN table : table[n].groups \in Int
  PROVE  Groups(table) = (IF 1 \in DOMAIN table THEN table[1].groups ELSE 0)
                         + (IF 2 \in DOMAIN table THEN table[2].groups ELSE 0)
                         + (IF 3 \in DOMAIN table THEN table[3].groups ELSE 0)
<1> DEFINE g(n) == table[n].groups
           D == DOMAIN table
           Part(n, s) == IF n \in s THEN g(n) ELSE 0
           Any(s) == CHOOSE x \in s : TRUE
           Body(f) == [s \in SUBSET D |-> IF s = {} THEN 0 ELSE g(Any(s)) + f[s \ {Any(s)}]]
           F == [s \in SUBSET D |-> Part(1, s) + Part(2, s) + Part(3, s)]
           iter == CHOOSE f : f = Body(f)
<1>1. \A s \in SUBSET D : s # {} => Any(s) \in s
  OBVIOUS
<1>2. F = Body(F)
  <2>1. ASSUME NEW s \in SUBSET D PROVE F[s] = Body(F)[s]
    <3>1. CASE s = {}
      BY <3>1
    <3>2. CASE s # {}
      <4>1. Any(s) \in s /\ Any(s) \in D
        BY <1>1, <3>2
      <4>2. s \ {Any(s)} \in SUBSET D
        OBVIOUS
      <4> HIDE DEF Any
      <4>3. F[s] = g(Any(s)) + F[s \ {Any(s)}]
        BY <4>1, <4>2
      <4> QED BY <4>3, <3>2
    <3> QED BY <3>1, <3>2
  <2> QED BY <2>1
<1>3. iter = Body(iter)
  BY <1>2
<1> HIDE DEF iter
<1>4. \A s \in SUBSET D : iter[s] = IF s = {} THEN 0 ELSE g(Any(s)) + iter[s \ {Any(s)}]
  BY <1>3
<1> HIDE DEF Any
<1> DEFINE Right(s) == s \in SUBSET D => iter[s] = Part(1, s) + Part(2, s) + Part(3, s)
<1>5. Right({})
  <2>1. {} \in SUBSET D
    OBVIOUS
  <2>2. iter[{}] = 0
    BY <1>4, <2>1
  <2>3. \A n : Part(n, {}) = 0
    OBVIOUS
  <2> QED BY <2>2, <2>3
<1>6. ASSUME NEW s \in SUBSET D, s # {}, \A n \in s : Right(s \ {n}) PROVE Right(s)
  <2>1. Any(s) \in s /\ s \ {Any(s)} \in SUBSET D
    BY <1>1, <1>6
  <2>2. iter[s] = g(Any(s)) + iter[s \ {Any(s)}]
    BY <1>4, <1>6
  <2>3. iter[s \ {Any(s)}] = Part(1, s \ {Any(s)}) + Part(2, s \ {Any(s)}) + Part(3, s \ {Any(s)})
    BY <2>1, <1>6
  <2> QED BY <2>1, <2>2, <2>3
<1> HIDE DEF Right
<1>7. Right({1}) /\ Right({2}) /\ Right({3})
  <2>1. \A n \in {1, 2, 3} : Right({n})
    <3> SUFFICES ASSUME NEW n \in {1, 2, 3} PROVE Right({n})
      OBVIOUS
    <3>1. \A k \in {n} : {n} \ {k} = {}
      OBVIOUS
    <3>2. CASE n \in D
      BY <3>1, <3>2, <1>5, <1>6
    <3> QED BY <3>2 DEF Right
  <2> QED BY <2>1
<1>8. Right({1, 2}) /\ Right({1, 3}) /\ Right({2, 3})
  <2>1. \A m, n \in {1, 2, 3} : m # n => Right({m, n})
    <3> SUFFICES ASSUME NEW m \in {1, 2, 3}, NEW n \in {1, 2, 3}, m # n PROVE Right({m, n})
      OBVIOUS
    <3>1. {m, n} \ {m} = {n} /\ {m, n} \ {n} = {m}
      OBVIOUS
    <3>2. Right({m}) /\ Right({n})
      BY <1>7
    <3>3. CASE {m, n} \in SUBSET D
      BY <3>1, <3>2, <3>3, <1>6
    <3> QED BY <3>3 DEF Right
  <2> QED BY <2>1
<1>9. Right({1, 2, 3})
  <2>1. /\ {1, 2, 3} \ {1} = {2, 3} /\ {1, 2, 3} \ {2} = {1, 3} /\ {1, 2, 3} \ {3} = {1, 2}
    OBVIOUS
  <2>2. CASE {1, 2, 3} \in SUBSET D
    <3>1. \A n \in {1, 2, 3} : Right({1, 2, 3} \ {n})
      BY <2>1, <1>8
    <3> QED BY <2>2, <3>1, <1>6
  <2> QED BY <2>2 DEF Right
<1>10. D \in {{}, {1}, {2}, {3}, {1, 2}, {1, 3}, {2, 3}, {1, 2, 3}}
  <2>1. 1 \in D \/ 1 \notin D
    OBVIOUS
  <2> QED BY <2>1
<1>11. Right(D)
  BY <1>5, <1>7, <1>8, <1>9, <1>10
<1>12. Groups(table) = iter[D]
  BY DEF Groups, MapThenSumSet, MapThenFoldSet, iter, Any
<1> QED BY <1>11, <1>12 DEF Right

\* The rows are records of the shape Modcod gives them, the last punctured bit is a parity
\* bit and the mapper and the layout agree on the payload, which is the same for a set.
LEMMA RowShape ==
  ASSUME NEW r \in 1 .. 9
  PROVE  LET w == vlsnr_modcod_table[r] IN
         /\ w.k_ldpc \in Nat /\ w.xs \in 0 .. w.k_ldpc /\ w.xp \in Nat \ {0}
         /\ w.p_period \in Nat \ {0} /\ Parity(w) \in Nat \ {0}
         /\ TxCoded(w) = w.k_ldpc - w.xs + Parity(w) - w.xp
         /\ (w.xp - 1) * w.p_period < Parity(w)
<1>1. CASE r = 1
  BY <1>1 DEF vlsnr_modcod_table, Modcod, Parity, TxCoded
<1>2. CASE r = 2
  BY <1>2 DEF vlsnr_modcod_table, Modcod, Parity, TxCoded
<1>3. CASE r = 3
  BY <1>3 DEF vlsnr_modcod_table, Modcod, Parity, TxCoded
<1>4. CASE r = 4
  BY <1>4 DEF vlsnr_modcod_table, Modcod, Parity, TxCoded
<1>5. CASE r = 5
  BY <1>5 DEF vlsnr_modcod_table, Modcod, Parity, TxCoded
<1>6. CASE r = 6
  BY <1>6 DEF vlsnr_modcod_table, Modcod, Parity, TxCoded
<1>7. CASE r = 7
  BY <1>7 DEF vlsnr_modcod_table, Modcod, Parity, TxCoded
<1>8. CASE r = 8
  BY <1>8 DEF vlsnr_modcod_table, Modcod, Parity, TxCoded
<1>9. CASE r = 9
  BY <1>9 DEF vlsnr_modcod_table, Modcod, Parity, TxCoded
<1> QED BY <1>1, <1>2, <1>3, <1>4, <1>5, <1>6, <1>7, <1>8, <1>9

\* The mapper and the layout agree on the payload, which is the same for all MODCODs of a set.
LEMMA RowPayload ==
  ASSUME NEW r \in 1 .. 9
  PROVE  LET w == vlsnr_modcod_table[r] IN
         /\ NumTxSym(w) = NumData(w)
         /\ \/ w.set = 1 /\ NumData(w) = 30780 /\ TxCoded(w) \in Nat /\ TxCoded(w) >= 15390
            \/ w.set = 2 /\ NumData(w) = 14976 /\ TxCoded(w) \in Nat /\ TxCoded(w) >= 14976
<1>1. CASE r = 1
  BY <1>1 DEF vlsnr_modcod_table, Modcod, NumTxSym, NumData, TxCoded
<1>2. CASE r = 2
  BY <1>2 DEF vlsnr_modcod_table, Modcod, NumTxSym, NumData, TxCoded
<1>3. CASE r = 3
  BY <1>3 DEF vlsnr_modcod_table, Modcod, NumTxSym, NumData, TxCoded
<1>4. CASE r = 4
  BY <1>4 DEF vlsnr_modcod_table, Modcod, NumTxSym, NumData, TxCoded
<1>5. CASE r = 5
  BY <1>5 DEF vlsnr_modcod_table, Modcod, NumTxSym, NumData, TxCoded
<1>6. CASE r = 6
  BY <1>6 DEF vlsnr_modcod_table, Modcod, NumTxSym, NumData, TxCoded
<1>7. CASE r = 7
  BY <1>7 DEF vlsnr_modcod_table, Modcod, NumTxSym, NumData, TxCoded
<1>8. CASE r = 8
  BY <1>8 DEF vlsnr_modcod_table, Modcod, NumTxSym, NumData, TxCoded
<1>9. CASE r = 9
  BY <1>9 DEF vlsnr_modcod_table, Modcod, NumTxSym, NumData, TxCoded
<1> QED BY <1>1, <1>2, <1>3, <1>4, <1>5, <1>6, <1>7, <1>8, <1>9

\* The number of groups of each table.
LEMMA TableGroups ==
  /\ Groups(table_n64800_r2_9) = 40 /\ Groups(table_n32400_r1_5) = 18
  /\ Groups(table_n32400_r11_45) = 22 /\ Groups(table_n32400_r1_3) = 30
  /\ Groups(table_n16200_r1_5) = 9 /\ Groups(table_n16200_r11_45) = 11
  /\ Groups(table_n16200_r4_15) = 12 /\ Groups(table_n16200_r1_3) = 15
BY SumOfParts DEF table_n64800_r2_9, table_n32400_r1_5, table_n32400_r11_45, table_n32400_r1_3,
     table_n16200_r1_5, table_n16200_r11_45, table_n16200_r4_15, table_n16200_r1_3

\* The table of each MODCOD, and the parameters that choose it.
LEMMA RowTable ==
  ASSUME NEW r \in 1 .. 9
  PROVE  LET w == vlsnr_modcod_table[r] IN
         /\ w.n_bch - w.k_bch = gf_m(w) * w.bch_t
         /\ w.xs + w.n_bch = w.k_ldpc
         /\ 360 * Groups(get_table(w)) = w.k_ldpc
         /\ 360 * w.q_ldpc = Parity(w)
<1>1. CASE r = 1
  BY TableGroups, <1>1 DEF vlsnr_modcod_table, Modcod, get_table, gf_m, Parity
<1>2. CASE r = 2
  BY TableGroups, <1>2 DEF vlsnr_modcod_table, Modcod, get_table, gf_m, Parity
<1>3. CASE r = 3
  BY TableGroups, <1>3 DEF vlsnr_modcod_table, Modcod, get_table, gf_m, Parity
<1>4. CASE r = 4
  BY TableGroups, <1>4 DEF vlsnr_modcod_table, Modcod, get_table, gf_m, Parity
<1>5. CASE r = 5
  BY TableGroups, <1>5 DEF vlsnr_modcod_table, Modcod, get_table, gf_m, Parity
<1>6. CASE r = 6
  BY TableGroups, <1>6 DEF vlsnr_modcod_table, Modcod, get_table, gf_m, Parity
<1>7. CASE r = 7
  BY TableGroups, <1>7 DEF vlsnr_modcod_table, Modcod, get_table, gf_m, Parity
<1>8. CASE r = 8
  BY TableGroups, <1>8 DEF vlsnr_modcod_table, Modcod, get_table, gf_m, Parity
<1>9. CASE r = 9
  BY TableGroups, <1>9 DEF vlsnr_modcod_table, Modcod, get_table, gf_m, Parity
<1> QED BY <1>1, <1>2, <1>3, <1>4, <1>5, <1>6, <1>7, <1>8, <1>9

\* Two MODCODs for which the demodulator keeps the decoder have the same code.
LEMMA RowsShared ==
  ASSUME NEW r \in 1 .. 9, NEW n \in 1 .. 9,
         vlsnr_modcod_table[n].fec_len = vlsnr_modcod_table[r].fec_len,
         vlsnr_modcod_table[n].k_ldpc = vlsnr_modcod_table[r].k_ldpc
  PROVE  /\ vlsnr_modcod_table[n].q_ldpc = vlsnr_modcod_table[r].q_ldpc
         /\ get_table(vlsnr_modcod_table[n]) = get_table(vlsnr_modcod_table[r])
<1> DEFINE Row(k, f, l, d, q) == /\ vlsnr_modcod_table[k].fec_len = f /\ vlsnr_modcod_table[k].k_ldpc = l
                                 /\ vlsnr_modcod_table[k].code_rate_den = d
                                 /\ vlsnr_modcod_table[k].q_ldpc = q
<1>1. Row(1, 64800, 14400, 9, 140)
  BY DEF vlsnr_modcod_table, Modcod
<1>2. Row(2, 32400, 6480, 5, 72)
  BY DEF vlsnr_modcod_table, Modcod
<1>3. Row(3, 32400, 7920, 45, 68)
  BY DEF vlsnr_modcod_table, Modcod
<1>4. Row(4, 32400, 10800, 3, 60)
  BY DEF vlsnr_modcod_table, Modcod
<1>5. Row(5, 16200, 3240, 5, 36)
  BY DEF vlsnr_modcod_table, Modcod
<1>6. Row(6, 16200, 3960, 45, 34)
  BY DEF vlsnr_modcod_table, Modcod
<1>7. Row(7, 16200, 3240, 5, 36)
  BY DEF vlsnr_modcod_table, Modcod
<1>8. Row(8, 16200, 4320, 15, 33)
  BY DEF vlsnr_modcod_table, Modcod
<1>9. Row(9, 16200, 5400, 3, 30)
  BY DEF vlsnr_modcod_table, Modcod
<1>10. n = r \/ (n = 5 /\ r = 7) \/ (n = 7 /\ r = 5)
  BY <1>1, <1>2, <1>3, <1>4, <1>5, <1>6, <1>7, <1>8, <1>9
<1>11. /\ vlsnr_modcod_table[n].q_ldpc = vlsnr_modcod_table[r].q_ldpc
       /\ vlsnr_modcod_table[n].code_rate_den = vlsnr_modcod_table[r].code_rate_den
  BY <1>5, <1>7, <1>10
<1>12. get_table(vlsnr_modcod_table[n]) = get_table(vlsnr_modcod_table[r])
  BY <1>11 DEF get_table
<1> QED BY <1>11, <1>12

\* The codes of every MODCOD fit their tables and one another.
LEMMA RowCodes == \A r \in 1 .. 9 : CodesFit(vlsnr_modcod_table[r])
BY RowTable, RowsShared, Zenon DEF CodesFit

-----------------------------------------------------------------------------
(* The bits of a codeword *)

\* Where both loops over the parity are, and what they have sent or put back until there.
BitInv ==
    /\ mc \in 1 .. 9
    /\ stage \in {"encode", "parity", "layout", "built", "ERR_PARAM", "ERR_SHORT"}
    /\ i \in 0 .. Parity(row) /\ p_idx \in 0 .. row.xp
    /\ t_idx \in Int /\ d_idx = t_idx /\ q_idx = p_idx
    /\ stage = "encode" => i = 0 /\ p_idx = 0 /\ t_idx = 0
    /\ stage # "encode" => t_idx = row.k_ldpc - row.xs + i - p_idx
    /\ p_idx > 0 => (p_idx - 1) * row.p_period < i
    /\ p_idx < row.xp => i <= p_idx * row.p_period
    /\ stage \notin {"encode", "parity"} => i = Parity(row)

\* The row does not change.
LEMMA SameRow ==
  ASSUME BitInv, [Next]_vars
  PROVE  /\ mc' = mc /\ row' = row /\ Parity(row)' = Parity(row)
         /\ row.k_ldpc \in Nat /\ row.xs \in 0 .. row.k_ldpc /\ row.xp \in Nat \ {0}
         /\ row.p_period \in Nat \ {0} /\ Parity(row) \in Nat \ {0}
         /\ TxCoded(row) = row.k_ldpc - row.xs + Parity(row) - row.xp
         /\ (row.xp - 1) * row.p_period < Parity(row)
<1>1. mc' = mc
  BY DEF Next, Encode, Punctured, Copied, BeginLayout, Slot, Assemble, vars
<1>2. row' = row /\ Parity(row)' = Parity(row)
  BY <1>1 DEF row, Parity
<1> QED BY <1>1, <1>2, RowShape DEF BitInv, row

LEMMA BitInit == Init => BitInv
<1> SUFFICES ASSUME Init PROVE BitInv
  OBVIOUS
<1>1. mc \in 1 .. 9
  BY IndicesAssumption DEF Init
<1>2. /\ row.xp \in Nat \ {0} /\ row.p_period \in Nat \ {0} /\ Parity(row) \in Nat \ {0}
  BY <1>1, RowShape DEF row
<1>3. 0 * row.p_period = 0
  BY <1>2
<1> QED BY <1>1, <1>2, <1>3 DEF Init, BitInv

\* A parity bit at which both loops skip, as they do together.
LEMMA PuncturedBits == BitInv /\ Punctured => BitInv'
<1> SUFFICES ASSUME BitInv, Punctured PROVE BitInv'
  OBVIOUS
<1>1. [Next]_vars
  BY DEF Next
<1> DEFINE w == p_idx * row.p_period
<1>2. w \in Int /\ (p_idx + 1) * row.p_period = w + row.p_period
  BY SameRow, <1>1 DEF BitInv
<1> HIDE DEF w
<1>3. /\ i = w /\ p_idx < row.xp /\ i < Parity(row)
      /\ i' = i + 1 /\ p_idx' = p_idx + 1 /\ t_idx' = t_idx
      /\ d_idx' = d_idx /\ q_idx' = q_idx + 1 /\ stage' = stage /\ stage = "parity"
  BY DEF Punctured, Punctures, Depunctures, BitInv, w
<1>4. p_idx' - 1 = p_idx
  BY <1>3 DEF BitInv
<1> QED BY <1>1, <1>2, <1>3, <1>4, SameRow DEF BitInv, w

\* The bits between two punctured ones.
LEMMA CopiedBits == BitInv /\ Copied => BitInv'
<1> SUFFICES ASSUME BitInv, Copied PROVE BitInv'
  OBVIOUS
<1>1. [Next]_vars
  BY DEF Next
<1> DEFINE w == p_idx * row.p_period
           S == {k \in {p * row.p_period : p \in {p_idx, q_idx}} : i < k} \cup {Parity(row)}
<1>2. w \in Int
  BY SameRow, <1>1 DEF BitInv
<1>3. S = (IF i < w THEN {w, Parity(row)} ELSE {Parity(row)})
  BY DEF BitInv
<1> HIDE DEF w, S
<1>4. /\ i' = Min(S) /\ i < Parity(row) /\ t_idx' = t_idx + (i' - i) /\ d_idx' = d_idx + (i' - i)
      /\ p_idx' = p_idx /\ q_idx' = q_idx /\ stage' = stage /\ stage = "parity"
      /\ ~Punctures(i, p_idx, row)
  BY DEF Copied, S
<1>5. Parity(row) \in Int /\ i \in Int
  BY <1>1, SameRow DEF BitInv
<1>6. /\ i' \in Int /\ i' <= Parity(row) /\ i < i'
      /\ i < w => i' <= w
  <2>1. i' \in S /\ \A y \in S : i' <= y
    <3>1. \E x \in S : \A y \in S : x <= y
      BY <1>2, <1>3, <1>5
    <3> QED BY <3>1, <1>4 DEF Min
  <2> QED BY <2>1, <1>2, <1>3, <1>4, <1>5
<1>7. p_idx < row.xp => i < w
  BY <1>1, <1>2, <1>4, SameRow DEF Punctures, BitInv, w
<1>8. (p_idx' - 1) * row.p_period = (p_idx - 1) * row.p_period /\ (p_idx - 1) * row.p_period \in Int
  BY <1>4, SameRow, <1>1 DEF BitInv
<1>9. p_idx' < row.xp => i' <= p_idx' * row.p_period
  BY <1>4, <1>6, <1>7 DEF w
<1>10. p_idx' > 0 => (p_idx' - 1) * row.p_period < i'
  BY <1>4, <1>5, <1>6, <1>8 DEF BitInv
<1>11. row' = row /\ Parity(row)' = Parity(row) /\ mc' = mc
  BY <1>1, SameRow
<1>12. /\ t_idx' = row.k_ldpc - row.xs + i' - p_idx' /\ t_idx' \in Int /\ d_idx' = t_idx'
       /\ i' \in 0 .. Parity(row)
  <2>1. row.k_ldpc \in Int /\ row.xs \in Int /\ p_idx \in Int
    BY <1>1, SameRow DEF BitInv
  <2>2. t_idx = row.k_ldpc - row.xs + i - p_idx /\ d_idx = t_idx /\ 0 <= i
    BY <1>4 DEF BitInv
  <2>3. t_idx' = t_idx + (i' - i) /\ d_idx' = d_idx + (i' - i) /\ p_idx' = p_idx
    BY <1>4
  <2>4. i' \in Int /\ i' <= Parity(row) /\ i < i'
    BY <1>6
  <2> QED BY <1>5, <2>1, <2>2, <2>3, <2>4
<1> QED BY <1>4, <1>9, <1>10, <1>11, <1>12 DEF BitInv

\* The other steps begin and leave the loop.
LEMMA OtherBits == BitInv /\ (Encode \/ BeginLayout \/ Slot \/ Assemble \/ UNCHANGED vars) => BitInv'
<1> SUFFICES ASSUME BitInv, Encode \/ BeginLayout \/ Slot \/ Assemble \/ UNCHANGED vars PROVE BitInv'
  OBVIOUS
<1>1. [Next]_vars
  BY DEF Next
<1>2. i' = i /\ p_idx' = p_idx /\ q_idx' = q_idx
  BY DEF Encode, BeginLayout, Slot, Assemble, vars
<1>3. CASE Encode
  BY <1>1, <1>2, <1>3, SameRow DEF Encode, BitInv
<1>4. CASE BeginLayout
  BY <1>1, <1>2, <1>4, SameRow DEF BeginLayout, BitInv
<1>5. CASE Slot
  BY <1>1, <1>2, <1>5, SameRow DEF Slot, BitInv
<1>6. CASE Assemble
  BY <1>1, <1>2, <1>6, SameRow DEF Assemble, BitInv
<1>7. CASE UNCHANGED vars
  BY <1>1, <1>2, <1>7, SameRow DEF vars, BitInv
<1> QED BY <1>3, <1>4, <1>5, <1>6, <1>7

LEMMA BitNext == BitInv /\ [Next]_vars => BitInv'
BY PuncturedBits, CopiedBits, OtherBits DEF Next

\* At the end of the parity every punctured bit has been passed.
LEMMA BitsFill == BitInv => BitsFit
<1> SUFFICES ASSUME BitInv PROVE BitsFit
  OBVIOUS
<1>1. /\ row.k_ldpc \in Nat /\ row.xs \in 0 .. row.k_ldpc /\ row.xp \in Nat \ {0}
      /\ row.p_period \in Nat \ {0} /\ Parity(row) \in Nat \ {0}
      /\ TxCoded(row) = row.k_ldpc - row.xs + Parity(row) - row.xp
      /\ (row.xp - 1) * row.p_period < Parity(row)
  BY RowShape DEF BitInv, row
<1>2. ASSUME p_idx < row.xp PROVE Parity(row) - i >= row.xp - p_idx
  <2> DEFINE a == row.xp - 1 - p_idx
             w == p_idx * row.p_period
  <2>1. a \in Nat /\ w \in Int
    BY <1>1, <1>2 DEF BitInv
  <2>2. (row.xp - 1) * row.p_period = w + a * row.p_period /\ a * row.p_period >= a
    <3>1. row.xp - 1 = p_idx + a
      BY <1>1 DEF BitInv
    <3>2. (p_idx + a) * row.p_period = w + a * row.p_period
      BY <1>1, <2>1 DEF BitInv
    <3>3. a * row.p_period >= a
      <4> HIDE DEF a
      <4>1. PICK k \in Nat : row.p_period = k + 1
        <5>1. row.p_period - 1 \in Nat /\ row.p_period = (row.p_period - 1) + 1
          BY <1>1
        <5> QED BY <5>1
      <4>2. a * (k + 1) = a * k + a /\ a * k \in Nat
        BY <2>1, SMT
      <4> QED BY <4>1, <4>2, <2>1
    <3> QED BY <3>1, <3>2, <3>3
  <2>3. a * row.p_period \in Int /\ i <= w
    BY <1>1, <1>2, <2>1 DEF BitInv
  <2> HIDE DEF w
  <2>4. row.xp - p_idx = a + 1 /\ i \in Int
    BY <1>1 DEF BitInv
  <2> HIDE DEF a
  <2> QED BY <1>1, <2>1, <2>2, <2>3, <2>4
<1>3. t_idx <= TxCoded(row)
  BY <1>1, <1>2 DEF BitInv
<1>4. stage \notin {"encode", "parity"} => p_idx = row.xp /\ t_idx = TxCoded(row)
  <2> SUFFICES ASSUME stage \notin {"encode", "parity"} PROVE p_idx = row.xp /\ t_idx = TxCoded(row)
    OBVIOUS
  <2>1. i = Parity(row) /\ p_idx \in 0 .. row.xp /\ t_idx = row.k_ldpc - row.xs + i - p_idx
    BY DEF BitInv
  <2>2. ~(p_idx < row.xp)
    BY <1>1, <1>2, <2>1
  <2> QED BY <1>1, <2>1, <2>2
<1> QED BY <1>3, <1>4 DEF BitsFit

-----------------------------------------------------------------------------
(* The layout *)

\* Slots of a frame, pilots of a group that falls in mid-slot, and of those before it.
SlotsOf(set) == IF set = 1 THEN 350 ELSE 170
PilotsOf(set, g) ==
    IF set = 1 THEN (IF g <= 18 THEN 34 ELSE IF g <= 21 THEN 36 ELSE 0)
               ELSE (IF g <= 9 THEN 32 ELSE IF g = 10 THEN 36 ELSE 0)
PilotsBefore(set, g) ==
    IF g = 0 THEN 0
    ELSE IF set = 1 THEN (IF g <= 19 THEN 34 * (g - 1) ELSE IF g <= 22 THEN 612 + 36 * (g - 19) ELSE 720)
                    ELSE (IF g <= 10 THEN 32 * (g - 1) ELSE 324)
PilotsPassed(set, g, c) == PilotsBefore(set, g) + (IF g > 0 /\ c > 8 THEN PilotsOf(set, g) ELSE 0)

\* After j slots: the first group has six, the others sixteen, of which the eighth
\* and the ninth are taken together if there are pilots between them.
LaidAt(set, j, c, g, sym, out, data) ==
    /\ j \in 0 .. SlotsOf(set) /\ c \in 0 .. 15 /\ g \in Nat
    /\ j + 10 = 16 * g + c
    /\ g > 0 /\ PilotsOf(set, g) > 0 => c # 8
    /\ sym = IF g = 0 THEN 90 * j ELSE 90 * c - (IF c > 8 THEN PilotsOf(set, g) ELSE 0)
    /\ out = 90 * j + 36 * g
    /\ data = 90 * j - PilotsPassed(set, g, c)
Counters(j, c, g, sym, out, data) ==
    [j |-> j, slot_count |-> c, group |-> g, symbols |-> sym, out |-> out, dcount |-> data]
Laid(l, set) ==
    /\ l = Counters(l.j, l.slot_count, l.group, l.symbols, l.out, l.dcount)
    /\ LaidAt(set, l.j, l.slot_count, l.group, l.symbols, l.out, l.dcount)

\* One counter set at a time.
LEMMA CounterSet ==
  \A a, b, d, e, f, h, x :
   /\ [Counters(a, b, d, e, f, h) EXCEPT !.j = x] = Counters(x, b, d, e, f, h)
   /\ [Counters(a, b, d, e, f, h) EXCEPT !.slot_count = x] = Counters(a, x, d, e, f, h)
   /\ [Counters(a, b, d, e, f, h) EXCEPT !.group = x] = Counters(a, b, x, e, f, h)
   /\ [Counters(a, b, d, e, f, h) EXCEPT !.symbols = x] = Counters(a, b, d, x, f, h)
   /\ [Counters(a, b, d, e, f, h) EXCEPT !.out = x] = Counters(a, b, d, e, x, h)
   /\ [Counters(a, b, d, e, f, h) EXCEPT !.dcount = x] = Counters(a, b, d, e, f, x)
BY DEF Counters

\* Where the pilots of a group fall.
LEMMA PilotPlace ==
  ASSUME NEW r, NEW set \in {1, 2}, r.set = set, NEW g \in Nat
  PROVE  /\ Pilots(r, g).plen = PilotsOf(set, g)
         /\ PilotsOf(set, g) \in {0, 32, 34, 36} /\ PilotsBefore(set, g) \in Int
         /\ IF PilotsOf(set, g) > 0 THEN Pilots(r, g).at \in 702 .. 704 ELSE Pilots(r, g).at = 0
<1>1. /\ PilotsOf(set, g) \in {0, 32, 34, 36} /\ PilotsBefore(set, g) \in Int
  BY DEF PilotsOf, PilotsBefore
<1>2. CASE set = 1
  <2>1. CASE g <= 18
    <3>1. Pilots(r, g) = [at |-> 703, plen |-> 34]
      BY <1>2, <2>1 DEF Pilots
    <3> QED BY <1>1, <1>2, <2>1, <3>1 DEF PilotsOf
  <2>2. CASE g \in 19 .. 21
    <3>1. Pilots(r, g) = [at |-> 702, plen |-> 36]
      BY <1>2, <2>2 DEF Pilots
    <3> QED BY <1>1, <1>2, <2>2, <3>1 DEF PilotsOf
  <2>3. CASE g > 21
    <3>1. Pilots(r, g) = [at |-> 0, plen |-> 0]
      BY <1>2, <2>3 DEF Pilots
    <3> QED BY <1>1, <1>2, <2>3, <3>1 DEF PilotsOf
  <2> QED BY <2>1, <2>2, <2>3
<1>3. CASE set = 2
  <2>1. CASE g <= 9
    <3>1. Pilots(r, g) = [at |-> 704, plen |-> 32]
      BY <1>3, <2>1 DEF Pilots
    <3> QED BY <1>1, <1>3, <2>1, <3>1 DEF PilotsOf
  <2>2. CASE g = 10
    <3>1. Pilots(r, g) = [at |-> 702, plen |-> 36]
      BY <1>3, <2>2 DEF Pilots
    <3> QED BY <1>1, <1>3, <2>2, <3>1 DEF PilotsOf
  <2>3. CASE g > 10
    <3>1. Pilots(r, g) = [at |-> 0, plen |-> 0]
      BY <1>3, <2>3 DEF Pilots
    <3> QED BY <1>1, <1>3, <2>3, <3>1 DEF PilotsOf
  <2> QED BY <2>1, <2>2, <2>3
<1> QED BY <1>2, <1>3

\* They fall in the eighth slot of a group.
LEMMA InEighth ==
  ASSUME NEW r, NEW set \in {1, 2}, r.set = set, NEW j, NEW c, NEW g, NEW sym, NEW out, NEW data,
         LaidAt(set, j, c, g, sym, out, data)
  PROVE  /\ sym \in Int /\ out \in Int /\ data \in Int
         /\ Pilots(r, g).at - sym \in 1 .. 90 <=> g > 0 /\ PilotsOf(set, g) > 0 /\ c = 7
<1> DEFINE plen == PilotsOf(set, g)
           at == Pilots(r, g).at
           P == PilotsBefore(set, g)
<1>1. /\ plen \in {0, 32, 34, 36}
      /\ IF plen > 0 THEN at \in 702 .. 704 ELSE at = 0
      /\ P \in Int
  BY PilotPlace DEF LaidAt
<1>2. /\ j \in Nat /\ c \in 0 .. 15 /\ g \in Nat /\ j + 10 = 16 * g + c
      /\ g > 0 /\ plen > 0 => c # 8
      /\ sym = IF g = 0 THEN 90 * j ELSE 90 * c - (IF c > 8 THEN plen ELSE 0)
      /\ out = 90 * j + 36 * g
      /\ data = 90 * j - (P + (IF g > 0 /\ c > 8 THEN plen ELSE 0))
  BY DEF LaidAt, SlotsOf, PilotsPassed
<1> HIDE DEF plen, at, P
<1>3. at - sym \in 1 .. 90 <=> g > 0 /\ plen > 0 /\ c = 7
  BY <1>1, <1>2
<1> QED BY <1>1, <1>2, <1>3 DEF plen, at

\* A slot of data, in the middle of a group.
LEMMA PlainSlot ==
  ASSUME NEW set \in {1, 2}, NEW j, NEW c, NEW g, NEW sym, NEW out, NEW data,
         LaidAt(set, j, c, g, sym, out, data),
         ~(g > 0 /\ PilotsOf(set, g) > 0 /\ c = 7), c < 15, j < SlotsOf(set)
  PROVE  LaidAt(set, j + 1, c + 1, g, sym + 90, out + 90, data + 90)
<1> DEFINE plen == PilotsOf(set, g)
           P == PilotsBefore(set, g)
<1>1. plen \in {0, 32, 34, 36} /\ P \in Int
  BY DEF LaidAt, PilotsOf, PilotsBefore
<1> HIDE DEF plen, P
<1> QED BY <1>1 DEF LaidAt, SlotsOf, PilotsPassed, plen, P

\* The two slots with pilots between them.
LEMMA PilotSlots ==
  ASSUME NEW set \in {1, 2}, NEW j, NEW c, NEW g, NEW sym, NEW out, NEW data,
         LaidAt(set, j, c, g, sym, out, data),
         g > 0, PilotsOf(set, g) > 0, c = 7
  PROVE  LaidAt(set, j + 2, c + 2, g, sym + 180 - PilotsOf(set, g), out + 180, data + 180 - PilotsOf(set, g))
<1> DEFINE plen == PilotsOf(set, g)
           P == PilotsBefore(set, g)
<1>1. plen \in {0, 32, 34, 36} /\ P \in Int
  BY DEF LaidAt, PilotsOf, PilotsBefore
<1>2. j + 2 <= SlotsOf(set)
  <2>1. CASE set = 1
    BY <2>1 DEF LaidAt, SlotsOf, PilotsOf
  <2>2. CASE set = 2
    BY <2>2 DEF LaidAt, SlotsOf, PilotsOf
  <2> QED BY <2>1, <2>2
<1> HIDE DEF plen, P
<1> QED BY <1>1, <1>2 DEF LaidAt, SlotsOf, PilotsPassed, plen, P

\* The last slot of a group, and the pilots behind it: it is never the last of the frame.
LEMMA LastSlot ==
  ASSUME NEW set \in {1, 2}, NEW j, NEW c, NEW g, NEW sym, NEW out, NEW data,
         LaidAt(set, j, c, g, sym, out, data), c = 15, j < SlotsOf(set)
  PROVE  /\ j < SlotsOf(set) - 1
         /\ LaidAt(set, j + 1, 0, g + 1, 0, out + 126, data + 90)
<1>1. CASE set = 1
  <2>1. j \in 0 .. 349 /\ g \in 0 .. 21 /\ j + 10 = 16 * g + 15
    BY <1>1 DEF LaidAt, SlotsOf
  <2>2. PilotsPassed(1, g + 1, 0) = PilotsPassed(1, g, 15)
    BY <2>1 DEF PilotsPassed, PilotsBefore, PilotsOf
  <2>3. PilotsPassed(1, g, 15) \in Int
    BY <2>1 DEF PilotsPassed, PilotsBefore, PilotsOf
  <2> QED BY <1>1, <2>1, <2>2, <2>3 DEF LaidAt, SlotsOf
<1>2. CASE set = 2
  <2>1. j \in 0 .. 169 /\ g \in 0 .. 10 /\ j + 10 = 16 * g + 15
    BY <1>2 DEF LaidAt, SlotsOf
  <2>2. PilotsPassed(2, g + 1, 0) = PilotsPassed(2, g, 15)
    BY <2>1 DEF PilotsPassed, PilotsBefore, PilotsOf
  <2>3. PilotsPassed(2, g, 15) \in Int
    BY <2>1 DEF PilotsPassed, PilotsBefore, PilotsOf
  <2> QED BY <1>2, <2>1, <2>2, <2>3 DEF LaidAt, SlotsOf
<1> QED BY <1>1, <1>2

\* One pass of build_set.
LEMMA LayoutPass ==
  ASSUME NEW r, NEW set \in {1, 2}, r.set = set, Slots(r) = SlotsOf(set),
         NEW l, Laid(l, set), l.j < SlotsOf(set)
  PROVE  LET n == Boundary(Filled(l, r), r) IN Laid([n EXCEPT !.j = @ + 1], set)
<1>0. PICK j, c, g, sym, out, data : /\ l = Counters(j, c, g, sym, out, data)
                                     /\ LaidAt(set, j, c, g, sym, out, data)
  BY DEF Laid
<1> DEFINE plen == PilotsOf(set, g)
           two == g > 0 /\ plen > 0 /\ c = 7
<1>1. /\ l.j = j /\ l.slot_count = c /\ l.group = g /\ l.symbols = sym /\ l.out = out /\ l.dcount = data
  BY <1>0 DEF Counters
<1>2. /\ j \in Nat /\ c \in 0 .. 15 /\ g \in Nat /\ sym \in Int /\ out \in Int /\ data \in Int
      /\ Pilots(r, g).at - sym \in 1 .. 90 <=> two
      /\ Pilots(r, g).plen = plen /\ plen \in {0, 32, 34, 36}
  <2>1. g \in Nat /\ j \in Nat /\ c \in 0 .. 15
    BY <1>0 DEF LaidAt, SlotsOf
  <2>2. /\ sym \in Int /\ out \in Int /\ data \in Int
        /\ Pilots(r, g).at - sym \in 1 .. 90 <=> g > 0 /\ PilotsOf(set, g) > 0 /\ c = 7
    BY <1>0, InEighth
  <2>3. Pilots(r, g).plen = plen /\ plen \in {0, 32, 34, 36}
    BY <2>1, PilotPlace
  <2> QED BY <2>1, <2>2, <2>3
<1>3. \A c0, g0, j0, sym0, out0, data0 :
         Laid(Counters(j0, c0, g0, sym0, out0, data0), set) <=> LaidAt(set, j0, c0, g0, sym0, out0, data0)
  BY DEF Laid, Counters
<1> HIDE DEF plen
<1>4. CASE two
  <2>1. Filled(l, r) = Counters(j + 1, 8, g, sym + 180 - plen, out + 180, data + 180 - plen)
    <3>1. Filled(l, r) = Fired(l, r)
      BY <1>0, <1>1, <1>2, <1>4 DEF Filled
    <3>2. (l.slot_count + 1) % 16 = 8 /\ Pilots(r, l.group).plen = plen
      BY <1>0, <1>1, <1>2, <1>4
    <3>3. Fired(l, r) = [l EXCEPT !.j = l.j + 1, !.slot_count = 8, !.out = l.out + 180,
                                  !.dcount = l.dcount + 180 - plen, !.symbols = l.symbols + 180 - plen]
      BY <3>2 DEF Fired
    <3> DEFINE l1 == [l EXCEPT !.j = l.j + 1]
               l2 == [l1 EXCEPT !.slot_count = 8]
               l3 == [l2 EXCEPT !.out = l.out + 180]
               l4 == [l3 EXCEPT !.dcount = l.dcount + 180 - plen]
               l5 == [l4 EXCEPT !.symbols = l.symbols + 180 - plen]
    <3>4. Fired(l, r) = l5
      BY <3>3
    <3>5. l1 = Counters(j + 1, c, g, sym, out, data)
      BY <1>0, <1>1, CounterSet
    <3> HIDE DEF l1
    <3>6. l2 = Counters(j + 1, 8, g, sym, out, data)
      BY <3>5, CounterSet
    <3> HIDE DEF l2
    <3>7. l3 = Counters(j + 1, 8, g, sym, out + 180, data)
      BY <3>6, <1>1, CounterSet
    <3> HIDE DEF l3
    <3>8. l4 = Counters(j + 1, 8, g, sym, out + 180, data + 180 - plen)
      BY <3>7, <1>1, CounterSet
    <3> HIDE DEF l4
    <3>9. l5 = Counters(j + 1, 8, g, sym + 180 - plen, out + 180, data + 180 - plen)
      BY <3>8, <1>1, CounterSet
    <3> QED BY <3>1, <3>4, <3>9
  <2>2. Boundary(Filled(l, r), r) = Counters(j + 1, 9, g, sym + 180 - plen, out + 180, data + 180 - plen)
    BY <1>2, <2>1 DEF Boundary, Counters
  <2>3. LaidAt(set, j + 2, 9, g, sym + 180 - plen, out + 180, data + 180 - plen)
    BY <1>0, <1>2, <1>4, PilotSlots DEF plen
  <2>4. [Boundary(Filled(l, r), r) EXCEPT !.j = @ + 1]
          = Counters(j + 2, 9, g, sym + 180 - plen, out + 180, data + 180 - plen)
    BY <1>2, <2>2 DEF Counters
  <2> QED BY <1>3, <2>3, <2>4
<1>5. CASE ~two /\ c < 15
  <2>1. Filled(l, r) = Counters(j, c, g, sym + 90, out + 90, data + 90)
    BY <1>0, <1>1, <1>2, <1>5 DEF Filled, Counters
  <2>2. Boundary(Filled(l, r), r) = Counters(j, c + 1, g, sym + 90, out + 90, data + 90)
    BY <1>2, <1>5, <2>1 DEF Boundary, Counters
  <2>3. LaidAt(set, j + 1, c + 1, g, sym + 90, out + 90, data + 90)
    <3>1. ~(g > 0 /\ PilotsOf(set, g) > 0 /\ c = 7)
      BY <1>5 DEF plen
    <3>2. c < 15 /\ j < SlotsOf(set)
      BY <1>1, <1>5
    <3> QED BY <1>0, <3>1, <3>2, PlainSlot
  <2>4. [Boundary(Filled(l, r), r) EXCEPT !.j = @ + 1] = Counters(j + 1, c + 1, g, sym + 90, out + 90, data + 90)
    BY <1>2, <2>2 DEF Counters
  <2> QED BY <1>3, <2>3, <2>4
<1>6. CASE ~two /\ c = 15
  <2>1. Filled(l, r) = Counters(j, 15, g, sym + 90, out + 90, data + 90)
    BY <1>0, <1>1, <1>2, <1>6 DEF Filled, Counters
  <2>2. j < SlotsOf(set) - 1 /\ LaidAt(set, j + 1, 0, g + 1, 0, out + 126, data + 90)
    BY <1>0, <1>1, <1>6, LastSlot
  <2>3. Boundary(Filled(l, r), r) = Counters(j, 0, g + 1, 0, out + 126, data + 90)
    <3>1. (15 + 1) % 16 = 0 /\ j < Slots(r) - 1
      BY <2>2
    <3> DEFINE f == Counters(j, 15, g, sym + 90, out + 90, data + 90)
    <3>2. [f EXCEPT !.slot_count = (@ + 1) % 16] = Counters(j, 0, g, sym + 90, out + 90, data + 90)
      BY <1>2, <3>1 DEF Counters
    <3>3. Boundary(f, r) = [Counters(j, 0, g, sym + 90, out + 90, data + 90) EXCEPT
                              !.group = @ + 1, !.symbols = 0, !.out = @ + 36]
      <4> DEFINE n == Counters(j, 0, g, sym + 90, out + 90, data + 90)
      <4>1. n.slot_count = 0 /\ n.j = j
        BY DEF Counters
      <4> HIDE DEF f, n
      <4> QED BY <3>1, <3>2, <4>1 DEF Boundary, n
    <3>4. Boundary(f, r) = Counters(j, 0, g + 1, 0, out + 90 + 36, data + 90)
      <4> DEFINE n == Counters(j, 0, g, sym + 90, out + 90, data + 90)
      <4>1. n.group = g /\ n.out = out + 90
        BY DEF Counters
      <4> DEFINE n1 == [n EXCEPT !.group = g + 1]
                 n2 == [n1 EXCEPT !.symbols = 0]
                 n3 == [n2 EXCEPT !.out = out + 90 + 36]
      <4>2. Boundary(f, r) = n3
        BY <3>3, <4>1
      <4>3. n1 = Counters(j, 0, g + 1, sym + 90, out + 90, data + 90)
        BY CounterSet
      <4> HIDE DEF n1
      <4>4. n2 = Counters(j, 0, g + 1, 0, out + 90, data + 90)
        BY <4>3, CounterSet
      <4> HIDE DEF n2
      <4>5. n3 = Counters(j, 0, g + 1, 0, out + 90 + 36, data + 90)
        BY <4>4, CounterSet
      <4> QED BY <4>2, <4>5
    <3>5. out + 90 + 36 = out + 126
      BY <1>2
    <3> QED BY <2>1, <3>4, <3>5
  <2>4. [Boundary(Filled(l, r), r) EXCEPT !.j = @ + 1] = Counters(j + 1, 0, g + 1, 0, out + 126, data + 90)
    BY <1>2, <2>3 DEF Counters
  <2> QED BY <1>3, <2>2, <2>4
<1> QED BY <1>2, <1>4, <1>5, <1>6

\* What is laid out, and that no frame is refused.
LayoutInv ==
    /\ BitInv
    /\ Laid(lay, row.set)
    /\ stage \in {"encode", "parity", "layout", "built"}
    /\ stage = "built" => lay.j >= Slots(row)

\* The set of a MODCOD, and the slots of its frame.
LEMMA RowSlots ==
  ASSUME NEW r \in 1 .. 9
  PROVE  LET w == vlsnr_modcod_table[r] IN
         /\ w.set \in {1, 2} /\ Slots(w) = SlotsOf(w.set) /\ NumTxSym(w) = NumData(w)
         /\ w.set = 1 => NumData(w) = 30780 /\ TxCoded(w) \in Nat /\ TxCoded(w) >= 15390
         /\ w.set = 2 => NumData(w) = 14976 /\ TxCoded(w) \in Nat /\ TxCoded(w) >= 14976
<1> DEFINE w == vlsnr_modcod_table[r]
<1>1. /\ NumTxSym(w) = NumData(w)
      /\ \/ w.set = 1 /\ NumData(w) = 30780 /\ TxCoded(w) \in Nat /\ TxCoded(w) >= 15390
         \/ w.set = 2 /\ NumData(w) = 14976 /\ TxCoded(w) \in Nat /\ TxCoded(w) >= 14976
  BY RowPayload
<1> HIDE DEF w
<1>2. Slots(w) = SlotsOf(w.set)
  BY <1>1 DEF Slots, SlotsOf
<1> QED BY <1>1, <1>2 DEF w

\* Where the layout ends.
LEMMA LaidEnd ==
  ASSUME NEW set \in {1, 2}, NEW l, Laid(l, set)
  PROVE  /\ l.j \in 0 .. SlotsOf(set) /\ l.out \in Nat
         /\ l.out <= IF set = 1 THEN 32292 ELSE 15696
         /\ l.j >= SlotsOf(set) => /\ l.dcount = IF set = 1 THEN 30780 ELSE 14976
                                   /\ l.out = IF set = 1 THEN 32292 ELSE 15696
<1> PICK j, c, g, sym, out, data : /\ l.j = j /\ l.out = out /\ l.dcount = data
                                   /\ LaidAt(set, j, c, g, sym, out, data)
  BY DEF Laid
<1>1. CASE set = 1
  <2>1. j \in 0 .. 350 /\ g \in 0 .. 22 /\ c \in 0 .. 15 /\ j + 10 = 16 * g + c
    BY <1>1 DEF LaidAt, SlotsOf
  <2>2. out = 90 * j + 36 * g /\ data = 90 * j - PilotsPassed(1, g, c)
    BY <1>1 DEF LaidAt
  <2>3. j >= 350 => g = 22 /\ c = 8
    BY <2>1
  <2>4. PilotsPassed(1, 22, 8) = 720
    BY DEF PilotsPassed, PilotsBefore, PilotsOf
  <2> QED BY <1>1, <2>1, <2>2, <2>3, <2>4 DEF SlotsOf
<1>2. CASE set = 2
  <2>1. j \in 0 .. 170 /\ g \in 0 .. 11 /\ c \in 0 .. 15 /\ j + 10 = 16 * g + c
    BY <1>2 DEF LaidAt, SlotsOf
  <2>2. out = 90 * j + 36 * g /\ data = 90 * j - PilotsPassed(2, g, c)
    BY <1>2 DEF LaidAt
  <2>3. j >= 170 => g = 11 /\ c = 4
    BY <2>1
  <2>4. PilotsPassed(2, 11, 4) = 324
    BY DEF PilotsPassed, PilotsBefore, PilotsOf
  <2> QED BY <1>2, <2>1, <2>2, <2>3, <2>4 DEF SlotsOf
<1> QED BY <1>1, <1>2

LEMMA LayoutInit == Init => LayoutInv
<1> SUFFICES ASSUME Init PROVE LayoutInv
  OBVIOUS
<1>1. mc \in 1 .. 9 /\ BitInv
  BY IndicesAssumption, BitInit DEF Init
<1>2. row.set \in {1, 2}
  BY <1>1, RowSlots DEF row
<1>3. LaidAt(row.set, 0, 10, 0, 0, 0, 0)
  BY <1>2 DEF LaidAt, SlotsOf, PilotsPassed, PilotsBefore
<1>4. lay = Counters(0, 10, 0, 0, 0, 0)
  BY DEF Init, NewLayout, Counters
<1>5. Laid(lay, row.set)
  BY <1>3, <1>4 DEF Laid, Counters
<1> QED BY <1>1, <1>5 DEF Init, LayoutInv

LEMMA LayoutNext == LayoutInv /\ [Next]_vars => LayoutInv'
<1> SUFFICES ASSUME LayoutInv, [Next]_vars PROVE LayoutInv'
  OBVIOUS
<1>1. mc \in 1 .. 9 /\ BitInv' /\ row' = row
  BY BitNext, SameRow DEF LayoutInv, BitInv
<1>2. /\ row.set \in {1, 2} /\ Slots(row) = SlotsOf(row.set) /\ NumTxSym(row) = NumData(row)
      /\ row.set = 1 => TxCoded(row) \in Nat /\ TxCoded(row) >= 15390
      /\ row.set = 2 => TxCoded(row) \in Nat /\ TxCoded(row) >= 14976
  BY <1>1, RowSlots DEF row
<1>3. Slots(row)' = Slots(row)
  BY <1>1 DEF Slots, NumData, TxCoded
<1>4. CASE Slot
  <2>1. lay.j < SlotsOf(row.set)
    BY <1>2, <1>4 DEF Slot
  <2>2. Laid(lay', row.set)
    BY <1>2, <1>4, <2>1, LayoutPass DEF Slot, LayoutInv
  <2> QED BY <1>1, <1>4, <2>2 DEF Slot, LayoutInv
<1>5. CASE Assemble
  <2>1. /\ lay.j >= Slots(row) /\ lay' = lay
        /\ stage' = IF NumTxSym(row) # NumData(row) THEN "ERR_PARAM"
                    ELSE IF FrameCap(row) < HeaderLen + lay.out THEN "ERR_SHORT" ELSE "built"
    BY <1>5 DEF Assemble
  <2>2. lay.out \in Nat /\ lay.out <= IF row.set = 1 THEN 32292 ELSE 15696
    BY <1>2, LaidEnd DEF LayoutInv
  <2>3. FrameCap(row) >= HeaderLen + lay.out
    BY <1>2, <2>2 DEF FrameCap, HeaderLen
  <2>4. stage' = "built"
    BY <1>2, <2>1, <2>2, <2>3 DEF FrameCap, HeaderLen
  <2> QED BY <1>1, <1>3, <2>1, <2>4 DEF LayoutInv
<1>6. CASE Encode \/ Punctured \/ Copied \/ BeginLayout \/ UNCHANGED vars
  <2>1. lay' = lay /\ (stage' = stage \/ stage' \in {"parity", "layout"})
    BY <1>6 DEF Encode, Punctured, Copied, BeginLayout, vars
  <2> QED BY <1>1, <1>3, <2>1 DEF LayoutInv
<1> QED BY <1>4, <1>5, <1>6 DEF Next

\* What the invariant says of a frame.
LEMMA SlotFits == LayoutInv => ArraysFit /\ Aligned /\ FrameLengths
<1> SUFFICES ASSUME LayoutInv PROVE ArraysFit /\ Aligned /\ FrameLengths
  OBVIOUS
<1>1. mc \in 1 .. 9 /\ BitInv
  BY DEF LayoutInv, BitInv
<1>2. /\ row.set \in {1, 2} /\ Slots(row) = SlotsOf(row.set)
      /\ NumData(row) = IF row.set = 1 THEN 30780 ELSE 14976
  BY <1>1, RowSlots DEF row
<1>3. /\ lay.out \in Nat
      /\ lay.out <= IF row.set = 1 THEN 32292 ELSE 15696
      /\ lay.j >= SlotsOf(row.set) => /\ lay.dcount = IF row.set = 1 THEN 30780 ELSE 14976
                                      /\ lay.out = IF row.set = 1 THEN 32292 ELSE 15696
  BY <1>2, LaidEnd DEF LayoutInv
<1>4. LayoutFits
  BY <1>2, <1>3 DEF LayoutFits, MapBytes
<1>5. CodesFit(row) /\ BitsFit
  BY <1>1, RowCodes, BitsFill DEF row
<1>6. FrameLengths
  BY <1>2, <1>3 DEF FrameLengths, LayoutInv, HeaderLen
<1> QED BY <1>1, <1>4, <1>5, <1>6 DEF ArraysFit, Aligned, BitInv

\* The frames of PlFrame are built as FrameBuild builds them.
LEMMA PlBuilds == PlSpec => Spec
<1>1. PlInit => Init
  BY DEF PlInit
<1>2. [PlNext]_<<vars, plVars>> => [Next]_vars
  BY DEF PlNext
<1> QED BY <1>1, <1>2, PTL DEF PlSpec, Spec

\* For every MODCOD of the table: codes, sent bits and layout fit the arrays that were
\* allocated for them, and fill them (modulator_top.c:159, vlsnr_layout.c:110).
THEOREM ArraysAlwaysFit == PlSpec => []ArraysFit
<1>1. Spec => []LayoutInv
  BY LayoutInit, LayoutNext, PTL DEF Spec
<1> QED BY <1>1, PlBuilds, SlotFits, PTL

\* For every MODCOD the demodulator's loop over the parity follows the modulator's
\* (demodulator_top.c:759 against modulator_top.c:159).
THEOREM LoopsAligned == PlSpec => []Aligned
<1>1. Spec => []LayoutInv
  BY LayoutInit, LayoutNext, PTL DEF Spec
<1> QED BY <1>1, PlBuilds, SlotFits, PTL

\* For every MODCOD no frame is refused and each has the length of its set.
THEOREM FramesHaveLength == PlSpec => []FrameLengths
<1>1. Spec => []LayoutInv
  BY LayoutInit, LayoutNext, PTL DEF Spec
<1> QED BY <1>1, PlBuilds, SlotFits, PTL

-----------------------------------------------------------------------------
(* The scrambler is that of the standard: far ahead in the sequence.  Polynomials over *)
(* GF(2) are sets of exponents, so that their coefficients are parities.               *)

\* Whether an odd number of two, three or four things is so.
Odd(a, b) == (a /\ ~ b) \/ (b /\ ~ a)

LEMMA ParityOfOne ==
  ASSUME NEW S, NEW a, IsFiniteSet(S), a \notin S
  PROVE  /\ IsFiniteSet(S \cup {a})
         /\ Parity2(S) \in 0 .. 1
         /\ Parity2(S \cup {a}) = 1 - Parity2(S)
<1>1. Cardinality(S) \in Nat
  BY FS_CardinalityType
<1>2. IsFiniteSet(S \cup {a}) /\ Cardinality(S \cup {a}) = Cardinality(S) + 1
  BY FS_AddElement
<1> QED BY <1>1, <1>2 DEF Parity2

LEMMA ParityNone == IsFiniteSet({}) /\ Parity2({}) = 0
  BY FS_EmptySet DEF Parity2

\* The parity of a set of which only a few places are looked at.
LEMMA ParityAdds ==
  ASSUME NEW S, NEW T, NEW a, IsFiniteSet(S), a \notin S, T = S \/ T = S \cup {a}
  PROVE  /\ IsFiniteSet(T) /\ Parity2(S) \in 0 .. 1 /\ Parity2(T) \in 0 .. 1
         /\ Parity2(T) = 1 <=> Odd(Parity2(S) = 1, a \in T)
<1>1. CASE T = S
  <2>1. Parity2(S) \in 0 .. 1
    BY ParityOfOne
  <2> QED BY <1>1, <2>1 DEF Odd
<1>2. CASE T = S \cup {a}
  <2>1. IsFiniteSet(T) /\ Parity2(S) \in 0 .. 1 /\ Parity2(T) = 1 - Parity2(S)
    BY <1>2, ParityOfOne
  <2> QED BY <1>2, <2>1 DEF Odd
<1> QED BY <1>1, <1>2

\* Whether a pass leaves X ^ e, for the two registers.
PassX(S, e) == Odd(Odd(e + 18 \in S, e >= 7 /\ e + 11 \in S), e <= 17 /\ e \in S)
PassY(S, e) ==
  Odd(Odd(Odd(e + 18 \in S, e >= 5 /\ e + 13 \in S), Odd(e >= 7 /\ e + 11 \in S, e >= 10 /\ e + 8 \in S)),
      e <= 17 /\ e \in S)

LEMMA OneStays ==
  ASSUME NEW S, NEW e \in 0 .. 34
  PROVE  /\ Parity2(S \cap {e} \cap 0 .. 17) \in 0 .. 1
         /\ Parity2(S \cap {e} \cap 0 .. 17) = 1 <=> e \in S /\ e <= 17
<1>1. S \cap {e} \cap 0 .. 17 = {} \/ S \cap {e} \cap 0 .. 17 = {} \cup {e}
  OBVIOUS
<1>2. e \in S \cap {e} \cap 0 .. 17 <=> e \in S /\ e <= 17
  OBVIOUS
<1>3. /\ Parity2(S \cap {e} \cap 0 .. 17) \in 0 .. 1
      /\ Parity2(S \cap {e} \cap 0 .. 17) = 1 <=> Odd(Parity2({}) = 1, e \in S \cap {e} \cap 0 .. 17)
  BY <1>1, ParityNone, ParityAdds
<1> QED BY <1>2, <1>3, ParityNone DEF Odd

LEMMA InReplacedX ==
  ASSUME NEW S, NEW e \in 0 .. 34
  PROVE  e \in Replaced(S, {0, 7}) <=> PassX(S, e)
<1> DEFINE P(t) == t <= e /\ e - t + 18 \in S
           T == {t \in {0, 7} : P(t)}
           T0 == {t \in {0} : P(t)}
<1>1. T0 = {} \/ T0 = {} \cup {0}
  OBVIOUS
<1>2. T = T0 \/ T = T0 \cup {7}
  OBVIOUS
<1>3. (0 \in T0 <=> P(0)) /\ (7 \in T <=> P(7)) /\ 7 \notin T0
  OBVIOUS
<1>4. IsFiniteSet(T0) /\ (Parity2(T0) = 1 <=> P(0))
  BY <1>1, <1>3, ParityAdds, ParityNone DEF Odd
<1>5. Parity2(T) \in 0 .. 1 /\ (Parity2(T) = 1 <=> Odd(P(0), P(7)))
  <2>1. Parity2(T) \in 0 .. 1 /\ (Parity2(T) = 1 <=> Odd(Parity2(T0) = 1, 7 \in T))
    <3> HIDE DEF T, T0
    <3> QED BY <1>2, <1>3, <1>4, ParityAdds
  <2> QED BY <2>1, <1>3, <1>4 DEF Odd
<1>6. (P(0) <=> e + 18 \in S) /\ (P(7) <=> e >= 7 /\ e + 11 \in S)
  OBVIOUS
<1> DEFINE stay == Parity2(S \cap {e} \cap 0 .. 17)
<1>7. e \in Replaced(S, {0, 7}) <=> (Parity2(T) + stay) % 2 = 1
  BY DEF Replaced
<1>8. stay \in 0 .. 1 /\ (stay = 1 <=> e \in S /\ e <= 17)
  BY OneStays
<1> HIDE DEF T, stay, P
<1>9. (Parity2(T) + stay) % 2 = 1 <=> Odd(Parity2(T) = 1, stay = 1)
  BY <1>5, <1>8 DEF Odd
<1> QED BY <1>5, <1>6, <1>7, <1>8, <1>9 DEF Odd, PassX

LEMMA InReplacedY ==
  ASSUME NEW S, NEW e \in 0 .. 34
  PROVE  e \in Replaced(S, {0, 5, 7, 10}) <=> PassY(S, e)
<1> DEFINE P(t) == t <= e /\ e - t + 18 \in S
           T == {t \in {0, 5, 7, 10} : P(t)}
           T0 == {t \in {0} : P(t)}
           T5 == {t \in {0, 5} : P(t)}
           T7 == {t \in {0, 5, 7} : P(t)}
<1>1. (T0 = {} \/ T0 = {} \cup {0}) /\ (T5 = T0 \/ T5 = T0 \cup {5})
      /\ (T7 = T5 \/ T7 = T5 \cup {7}) /\ (T = T7 \/ T = T7 \cup {10})
  <2>1. T0 = {} \/ T0 = {} \cup {0}
    OBVIOUS
  <2>2. T5 = T0 \/ T5 = T0 \cup {5}
    OBVIOUS
  <2>3. T7 = T5 \/ T7 = T5 \cup {7}
    OBVIOUS
  <2>4. T = T7 \/ T = T7 \cup {10}
    OBVIOUS
  <2> QED BY <2>1, <2>2, <2>3, <2>4
<1>2. /\ 0 \in T0 <=> P(0)
      /\ 5 \notin T0 /\ (5 \in T5 <=> P(5))
      /\ 7 \notin T5 /\ (7 \in T7 <=> P(7))
      /\ 10 \notin T7 /\ (10 \in T <=> P(10))
  OBVIOUS
<1>3. (P(0) <=> e + 18 \in S) /\ (P(5) <=> e >= 5 /\ e + 13 \in S)
      /\ (P(7) <=> e >= 7 /\ e + 11 \in S) /\ (P(10) <=> e >= 10 /\ e + 8 \in S)
  OBVIOUS
<1> DEFINE stay == Parity2(S \cap {e} \cap 0 .. 17)
<1>4. e \in Replaced(S, {0, 5, 7, 10}) <=> (Parity2(T) + stay) % 2 = 1
  BY DEF Replaced
<1>5. stay \in 0 .. 1 /\ (stay = 1 <=> e \in S /\ e <= 17)
  BY OneStays
<1> HIDE DEF T0, T5, T7, T, stay, P
<1>6. IsFiniteSet(T0) /\ (Parity2(T0) = 1 <=> P(0))
  BY <1>1, <1>2, ParityAdds, ParityNone DEF Odd
<1>7. IsFiniteSet(T5) /\ (Parity2(T5) = 1 <=> Odd(P(0), P(5)))
  BY <1>1, <1>2, <1>6, ParityAdds DEF Odd
<1>8. IsFiniteSet(T7) /\ (Parity2(T7) = 1 <=> Odd(Odd(P(0), P(5)), P(7)))
  BY <1>1, <1>2, <1>7, ParityAdds DEF Odd
<1>9. Parity2(T) \in 0 .. 1 /\ (Parity2(T) = 1 <=> Odd(Odd(Odd(P(0), P(5)), P(7)), P(10)))
  BY <1>1, <1>2, <1>8, ParityAdds DEF Odd
<1>10. (Parity2(T) + stay) % 2 = 1 <=> Odd(Parity2(T) = 1, stay = 1)
  BY <1>5, <1>9 DEF Odd
<1> QED BY <1>3, <1>4, <1>5, <1>9, <1>10 DEF Odd, PassY

LEMMA PassedX ==
  ASSUME NEW S, NEW T, \A e \in T : e \in 0 .. 34, \A e \in 0 .. 34 : e \in T <=> PassX(S, e)
  PROVE  Replaced(S, {0, 7}) = T
<1>1. \A e \in 0 .. 34 : PassX(S, e) \in BOOLEAN
  BY DEF PassX, Odd
<1>2. \A e \in 0 .. 34 : e \in Replaced(S, {0, 7}) <=> e \in T
  BY <1>1, InReplacedX
<1>3. \A e \in Replaced(S, {0, 7}) : e \in 0 .. 34
  BY DEF Replaced
<1> QED BY <1>2, <1>3

\* What squaring the polynomial T passes through on its way to U.
DoublesX(T, S, A, B, U) ==
  /\ (\A e \in T : 2 * e \in S) /\ (\A e \in S : e \div 2 \in T /\ e = 2 * (e \div 2))
  /\ (\A e \in A : e \in 0 .. 34) /\ (\A e \in B : e \in 0 .. 34) /\ (\A e \in U : e \in 0 .. 34)
  /\ \A e \in 0 .. 34 : e \in A <=> PassX(S, e)
  /\ \A e \in 0 .. 34 : e \in B <=> PassX(A, e)
  /\ \A e \in 0 .. 34 : e \in U <=> PassX(B, e)

\* Squaring: the exponents double, and three passes lead below 18 again.
LEMMA SquaredX ==
  ASSUME NEW T, NEW S, NEW A, NEW B, NEW U, DoublesX(T, S, A, B, U)
  PROVE  Reduced({2 * e : e \in T}, {0, 7}) = U
<1>1. {2 * e : e \in T} = S
  BY DEF DoublesX
<1>2. Replaced(S, {0, 7}) = A /\ Replaced(A, {0, 7}) = B /\ Replaced(B, {0, 7}) = U
  BY PassedX DEF DoublesX
<1> QED BY <1>1, <1>2 DEF Reduced

PowersX ==
  <<{1},
    {2},
    {4},
    {8},
    {16},
    {3, 10, 14},
    {2, 6, 9, 10, 17},
    {0, 2, 4, 5, 7, 9, 16},
    {3, 4, 7, 8},
    {6, 8, 14, 16},
    {3, 12, 14, 16, 17},
    {3, 5, 12, 13, 14, 16, 17},
    {3, 5, 8, 10, 12, 13, 14, 15, 16, 17},
    {1, 2, 3, 5, 9, 10, 13, 14, 15, 17},
    {0, 1, 4, 5, 6, 7, 9, 15, 16, 17},
    {1, 2, 3, 5, 7, 12, 16},
    {2, 3, 4, 13},
    {4, 6, 15}>>

LEMMA SquaresX ==
  \A k \in 1 .. 17 : Reduced({2 * e : e \in PowersX[k]}, {0, 7}) = PowersX[k + 1]
<1> DEFINE Square(k) == Reduced({2 * e : e \in PowersX[k]}, {0, 7}) = PowersX[k + 1]
<1>1. Square(1)
  <2> DEFINE T == {1}
             S == {2}
             A == {2}
             B == {2}
             U == {2}
  <2>1. DoublesX(T, S, A, B, U)
    BY DEF DoublesX, PassX, Odd
  <2>2. PowersX[1] = T /\ PowersX[1 + 1] = U
    BY DEF PowersX
  <2> HIDE DEF T, S, A, B, U
  <2> QED BY <2>1, <2>2, SquaredX
<1>2. Square(2)
  <2> DEFINE T == {2}
             S == {4}
             A == {4}
             B == {4}
             U == {4}
  <2>1. DoublesX(T, S, A, B, U)
    BY DEF DoublesX, PassX, Odd
  <2>2. PowersX[2] = T /\ PowersX[2 + 1] = U
    BY DEF PowersX
  <2> HIDE DEF T, S, A, B, U
  <2> QED BY <2>1, <2>2, SquaredX
<1>3. Square(3)
  <2> DEFINE T == {4}
             S == {8}
             A == {8}
             B == {8}
             U == {8}
  <2>1. DoublesX(T, S, A, B, U)
    BY DEF DoublesX, PassX, Odd
  <2>2. PowersX[3] = T /\ PowersX[3 + 1] = U
    BY DEF PowersX
  <2> HIDE DEF T, S, A, B, U
  <2> QED BY <2>1, <2>2, SquaredX
<1>4. Square(4)
  <2> DEFINE T == {8}
             S == {16}
             A == {16}
             B == {16}
             U == {16}
  <2>1. DoublesX(T, S, A, B, U)
    BY DEF DoublesX, PassX, Odd
  <2>2. PowersX[4] = T /\ PowersX[4 + 1] = U
    BY DEF PowersX
  <2> HIDE DEF T, S, A, B, U
  <2> QED BY <2>1, <2>2, SquaredX
<1>5. Square(5)
  <2> DEFINE T == {16}
             S == {32}
             A == {14, 21}
             B == {3, 10, 14}
             U == {3, 10, 14}
  <2>1. DoublesX(T, S, A, B, U)
    BY DEF DoublesX, PassX, Odd
  <2>2. PowersX[5] = T /\ PowersX[5 + 1] = U
    BY DEF PowersX
  <2> HIDE DEF T, S, A, B, U
  <2> QED BY <2>1, <2>2, SquaredX
<1>6. Square(6)
  <2> DEFINE T == {3, 10, 14}
             S == {6, 20, 28}
             A == {2, 6, 9, 10, 17}
             B == {2, 6, 9, 10, 17}
             U == {2, 6, 9, 10, 17}
  <2>1. DoublesX(T, S, A, B, U)
    BY DEF DoublesX, PassX, Odd
  <2>2. PowersX[6] = T /\ PowersX[6 + 1] = U
    BY DEF PowersX
  <2> HIDE DEF T, S, A, B, U
  <2> QED BY <2>1, <2>2, SquaredX
<1>7. Square(7)
  <2> DEFINE T == {2, 6, 9, 10, 17}
             S == {4, 12, 18, 20, 34}
             A == {0, 2, 4, 7, 9, 12, 16, 23}
             B == {0, 2, 4, 5, 7, 9, 16}
             U == {0, 2, 4, 5, 7, 9, 16}
  <2>1. DoublesX(T, S, A, B, U)
    BY DEF DoublesX, PassX, Odd
  <2>2. PowersX[7] = T /\ PowersX[7 + 1] = U
    BY DEF PowersX
  <2> HIDE DEF T, S, A, B, U
  <2> QED BY <2>1, <2>2, SquaredX
<1>8. Square(8)
  <2> DEFINE T == {0, 2, 4, 5, 7, 9, 16}
             S == {0, 4, 8, 10, 14, 18, 32}
             A == {4, 7, 8, 10, 21}
             B == {3, 4, 7, 8}
             U == {3, 4, 7, 8}
  <2>1. DoublesX(T, S, A, B, U)
    BY DEF DoublesX, PassX, Odd
  <2>2. PowersX[8] = T /\ PowersX[8 + 1] = U
    BY DEF PowersX
  <2> HIDE DEF T, S, A, B, U
  <2> QED BY <2>1, <2>2, SquaredX
<1>9. Square(9)
  <2> DEFINE T == {3, 4, 7, 8}
             S == {6, 8, 14, 16}
             A == {6, 8, 14, 16}
             B == {6, 8, 14, 16}
             U == {6, 8, 14, 16}
  <2>1. DoublesX(T, S, A, B, U)
    BY DEF DoublesX, PassX, Odd
  <2>2. PowersX[9] = T /\ PowersX[9 + 1] = U
    BY DEF PowersX
  <2> HIDE DEF T, S, A, B, U
  <2> QED BY <2>1, <2>2, SquaredX
<1>10. Square(10)
  <2> DEFINE T == {6, 8, 14, 16}
             S == {12, 16, 28, 32}
             A == {10, 12, 14, 16, 17, 21}
             B == {3, 12, 14, 16, 17}
             U == {3, 12, 14, 16, 17}
  <2>1. DoublesX(T, S, A, B, U)
    BY DEF DoublesX, PassX, Odd
  <2>2. PowersX[10] = T /\ PowersX[10 + 1] = U
    BY DEF PowersX
  <2> HIDE DEF T, S, A, B, U
  <2> QED BY <2>1, <2>2, SquaredX
<1>11. Square(11)
  <2> DEFINE T == {3, 12, 14, 16, 17}
             S == {6, 24, 28, 32, 34}
             A == {10, 13, 14, 16, 17, 21, 23}
             B == {3, 5, 12, 13, 14, 16, 17}
             U == {3, 5, 12, 13, 14, 16, 17}
  <2>1. DoublesX(T, S, A, B, U)
    BY DEF DoublesX, PassX, Odd
  <2>2. PowersX[11] = T /\ PowersX[11 + 1] = U
    BY DEF PowersX
  <2> HIDE DEF T, S, A, B, U
  <2> QED BY <2>1, <2>2, SquaredX
<1>12. Square(12)
  <2> DEFINE T == {3, 5, 12, 13, 14, 16, 17}
             S == {6, 10, 24, 26, 28, 32, 34}
             A == {8, 13, 14, 15, 16, 17, 21, 23}
             B == {3, 5, 8, 10, 12, 13, 14, 15, 16, 17}
             U == {3, 5, 8, 10, 12, 13, 14, 15, 16, 17}
  <2>1. DoublesX(T, S, A, B, U)
    BY DEF DoublesX, PassX, Odd
  <2>2. PowersX[12] = T /\ PowersX[12 + 1] = U
    BY DEF PowersX
  <2> HIDE DEF T, S, A, B, U
  <2> QED BY <2>1, <2>2, SquaredX
<1>13. Square(13)
  <2> DEFINE T == {3, 5, 8, 10, 12, 13, 14, 15, 16, 17}
             S == {6, 10, 16, 20, 24, 26, 28, 30, 32, 34}
             A == {2, 8, 9, 12, 13, 14, 15, 17, 19, 21, 23}
             B == {1, 2, 3, 5, 9, 10, 13, 14, 15, 17}
             U == {1, 2, 3, 5, 9, 10, 13, 14, 15, 17}
  <2>1. DoublesX(T, S, A, B, U)
    BY DEF DoublesX, PassX, Odd
  <2>2. PowersX[13] = T /\ PowersX[13 + 1] = U
    BY DEF PowersX
  <2> HIDE DEF T, S, A, B, U
  <2> QED BY <2>1, <2>2, SquaredX
<1>14. Square(14)
  <2> DEFINE T == {1, 2, 3, 5, 9, 10, 13, 14, 15, 17}
             S == {2, 4, 6, 10, 18, 20, 26, 28, 30, 34}
             A == {0, 4, 6, 7, 8, 9, 12, 15, 16, 17, 19, 23}
             B == {0, 1, 4, 5, 6, 7, 9, 15, 16, 17}
             U == {0, 1, 4, 5, 6, 7, 9, 15, 16, 17}
  <2>1. DoublesX(T, S, A, B, U)
    BY DEF DoublesX, PassX, Odd
  <2>2. PowersX[14] = T /\ PowersX[14 + 1] = U
    BY DEF PowersX
  <2> HIDE DEF T, S, A, B, U
  <2> QED BY <2>1, <2>2, SquaredX
<1>15. Square(15)
  <2> DEFINE T == {0, 1, 4, 5, 6, 7, 9, 15, 16, 17}
             S == {0, 2, 8, 10, 12, 14, 18, 30, 32, 34}
             A == {2, 7, 8, 10, 16, 19, 21, 23}
             B == {1, 2, 3, 5, 7, 12, 16}
             U == {1, 2, 3, 5, 7, 12, 16}
  <2>1. DoublesX(T, S, A, B, U)
    BY DEF DoublesX, PassX, Odd
  <2>2. PowersX[15] = T /\ PowersX[15 + 1] = U
    BY DEF PowersX
  <2> HIDE DEF T, S, A, B, U
  <2> QED BY <2>1, <2>2, SquaredX
<1>16. Square(16)
  <2> DEFINE T == {1, 2, 3, 5, 7, 12, 16}
             S == {2, 4, 6, 10, 14, 24, 32}
             A == {2, 4, 10, 13, 21}
             B == {2, 3, 4, 13}
             U == {2, 3, 4, 13}
  <2>1. DoublesX(T, S, A, B, U)
    BY DEF DoublesX, PassX, Odd
  <2>2. PowersX[16] = T /\ PowersX[16 + 1] = U
    BY DEF PowersX
  <2> HIDE DEF T, S, A, B, U
  <2> QED BY <2>1, <2>2, SquaredX
<1>17. Square(17)
  <2> DEFINE T == {2, 3, 4, 13}
             S == {4, 6, 8, 26}
             A == {4, 6, 15}
             B == {4, 6, 15}
             U == {4, 6, 15}
  <2>1. DoublesX(T, S, A, B, U)
    BY DEF DoublesX, PassX, Odd
  <2>2. PowersX[17] = T /\ PowersX[17 + 1] = U
    BY DEF PowersX
  <2> HIDE DEF T, S, A, B, U
  <2> QED BY <2>1, <2>2, SquaredX
<1> HIDE DEF Square
<1>18. \A k \in 1 .. 17 : Square(k)
  BY <1>1, <1>2, <1>3, <1>4, <1>5, <1>6, <1>7, <1>8, <1>9, <1>10, <1>11, <1>12, <1>13, <1>14, <1>15, <1>16, <1>17
<1> QED BY <1>18 DEF Square

LEMMA PassedY ==
  ASSUME NEW S, NEW T, \A e \in T : e \in 0 .. 34, \A e \in 0 .. 34 : e \in T <=> PassY(S, e)
  PROVE  Replaced(S, {0, 5, 7, 10}) = T
<1>1. \A e \in 0 .. 34 : PassY(S, e) \in BOOLEAN
  BY DEF PassY, Odd
<1>2. \A e \in 0 .. 34 : e \in Replaced(S, {0, 5, 7, 10}) <=> e \in T
  BY <1>1, InReplacedY
<1>3. \A e \in Replaced(S, {0, 5, 7, 10}) : e \in 0 .. 34
  BY DEF Replaced
<1> QED BY <1>2, <1>3

\* What squaring the polynomial T passes through on its way to U.
DoublesY(T, S, A, B, U) ==
  /\ (\A e \in T : 2 * e \in S) /\ (\A e \in S : e \div 2 \in T /\ e = 2 * (e \div 2))
  /\ (\A e \in A : e \in 0 .. 34) /\ (\A e \in B : e \in 0 .. 34) /\ (\A e \in U : e \in 0 .. 34)
  /\ \A e \in 0 .. 34 : e \in A <=> PassY(S, e)
  /\ \A e \in 0 .. 34 : e \in B <=> PassY(A, e)
  /\ \A e \in 0 .. 34 : e \in U <=> PassY(B, e)

\* Squaring: the exponents double, and three passes lead below 18 again.
LEMMA SquaredY ==
  ASSUME NEW T, NEW S, NEW A, NEW B, NEW U, DoublesY(T, S, A, B, U)
  PROVE  Reduced({2 * e : e \in T}, {0, 5, 7, 10}) = U
<1>1. {2 * e : e \in T} = S
  BY DEF DoublesY
<1>2. Replaced(S, {0, 5, 7, 10}) = A /\ Replaced(A, {0, 5, 7, 10}) = B /\ Replaced(B, {0, 5, 7, 10}) = U
  BY PassedY DEF DoublesY
<1> QED BY <1>1, <1>2 DEF Reduced

PowersY ==
  <<{1},
    {2},
    {4},
    {8},
    {16},
    {1, 3, 10, 14, 16},
    {1, 2, 3, 6, 14, 15, 16, 17},
    {0, 8, 10, 15},
    {0, 1, 2, 4, 6, 7, 8, 14, 16, 17},
    {1, 4, 8, 9, 10, 12, 15, 16, 17},
    {4, 5, 7, 10, 11, 12, 13, 17},
    {2, 3, 4, 5, 6, 7, 10, 15},
    {1, 2, 7, 10, 12, 17},
    {0, 3, 4, 6, 9, 10, 11, 13, 14},
    {0, 4, 6, 9, 10, 11, 12, 13, 14, 17},
    {3, 4, 6, 7, 9, 14, 17},
    {2, 3, 5, 6, 7, 8, 9, 10, 12, 14, 15, 16, 17},
    {5, 6, 8, 9, 10, 11, 12, 13, 14, 15}>>

LEMMA SquaresY ==
  \A k \in 1 .. 17 : Reduced({2 * e : e \in PowersY[k]}, {0, 5, 7, 10}) = PowersY[k + 1]
<1> DEFINE Square(k) == Reduced({2 * e : e \in PowersY[k]}, {0, 5, 7, 10}) = PowersY[k + 1]
<1>1. Square(1)
  <2> DEFINE T == {1}
             S == {2}
             A == {2}
             B == {2}
             U == {2}
  <2>1. DoublesY(T, S, A, B, U)
    BY DEF DoublesY, PassY, Odd
  <2>2. PowersY[1] = T /\ PowersY[1 + 1] = U
    BY DEF PowersY
  <2> HIDE DEF T, S, A, B, U
  <2> QED BY <2>1, <2>2, SquaredY
<1>2. Square(2)
  <2> DEFINE T == {2}
             S == {4}
             A == {4}
             B == {4}
             U == {4}
  <2>1. DoublesY(T, S, A, B, U)
    BY DEF DoublesY, PassY, Odd
  <2>2. PowersY[2] = T /\ PowersY[2 + 1] = U
    BY DEF PowersY
  <2> HIDE DEF T, S, A, B, U
  <2> QED BY <2>1, <2>2, SquaredY
<1>3. Square(3)
  <2> DEFINE T == {4}
             S == {8}
             A == {8}
             B == {8}
             U == {8}
  <2>1. DoublesY(T, S, A, B, U)
    BY DEF DoublesY, PassY, Odd
  <2>2. PowersY[3] = T /\ PowersY[3 + 1] = U
    BY DEF PowersY
  <2> HIDE DEF T, S, A, B, U
  <2> QED BY <2>1, <2>2, SquaredY
<1>4. Square(4)
  <2> DEFINE T == {8}
             S == {16}
             A == {16}
             B == {16}
             U == {16}
  <2>1. DoublesY(T, S, A, B, U)
    BY DEF DoublesY, PassY, Odd
  <2>2. PowersY[4] = T /\ PowersY[4 + 1] = U
    BY DEF PowersY
  <2> HIDE DEF T, S, A, B, U
  <2> QED BY <2>1, <2>2, SquaredY
<1>5. Square(5)
  <2> DEFINE T == {16}
             S == {32}
             A == {14, 19, 21, 24}
             B == {1, 3, 10, 14, 16}
             U == {1, 3, 10, 14, 16}
  <2>1. DoublesY(T, S, A, B, U)
    BY DEF DoublesY, PassY, Odd
  <2>2. PowersY[5] = T /\ PowersY[5 + 1] = U
    BY DEF PowersY
  <2> HIDE DEF T, S, A, B, U
  <2> QED BY <2>1, <2>2, SquaredY
<1>6. Square(6)
  <2> DEFINE T == {1, 3, 10, 14, 16}
             S == {2, 6, 20, 28, 32}
             A == {6, 7, 9, 10, 12, 14, 15, 17, 19, 20, 21, 24}
             B == {1, 2, 3, 6, 14, 15, 16, 17}
             U == {1, 2, 3, 6, 14, 15, 16, 17}
  <2>1. DoublesY(T, S, A, B, U)
    BY DEF DoublesY, PassY, Odd
  <2>2. PowersY[6] = T /\ PowersY[6 + 1] = U
    BY DEF PowersY
  <2> HIDE DEF T, S, A, B, U
  <2> QED BY <2>1, <2>2, SquaredY
<1>7. Square(7)
  <2> DEFINE T == {1, 2, 3, 6, 14, 15, 16, 17}
             S == {2, 4, 6, 12, 28, 30, 32, 34}
             A == {2, 4, 6, 10, 14, 15, 16, 20, 22, 23, 24, 26}
             B == {5, 7, 8, 15, 18}
             U == {0, 8, 10, 15}
  <2>1. DoublesY(T, S, A, B, U)
    BY DEF DoublesY, PassY, Odd
  <2>2. PowersY[7] = T /\ PowersY[7 + 1] = U
    BY DEF PowersY
  <2> HIDE DEF T, S, A, B, U
  <2> QED BY <2>1, <2>2, SquaredY
<1>8. Square(8)
  <2> DEFINE T == {0, 8, 10, 15}
             S == {0, 16, 20, 30}
             A == {0, 2, 7, 9, 16, 17, 19, 22}
             B == {0, 1, 2, 4, 6, 7, 8, 14, 16, 17}
             U == {0, 1, 2, 4, 6, 7, 8, 14, 16, 17}
  <2>1. DoublesY(T, S, A, B, U)
    BY DEF DoublesY, PassY, Odd
  <2>2. PowersY[8] = T /\ PowersY[8 + 1] = U
    BY DEF PowersY
  <2> HIDE DEF T, S, A, B, U
  <2> QED BY <2>1, <2>2, SquaredY
<1>9. Square(9)
  <2> DEFINE T == {0, 1, 2, 4, 6, 7, 8, 14, 16, 17}
             S == {0, 2, 4, 8, 12, 14, 16, 28, 32, 34}
             A == {0, 2, 4, 8, 10, 12, 15, 17, 19, 20, 23, 24, 26}
             B == {0, 1, 4, 5, 7, 8, 9, 12, 15, 16, 17, 18}
             U == {1, 4, 8, 9, 10, 12, 15, 16, 17}
  <2>1. DoublesY(T, S, A, B, U)
    BY DEF DoublesY, PassY, Odd
  <2>2. PowersY[9] = T /\ PowersY[9 + 1] = U
    BY DEF PowersY
  <2> HIDE DEF T, S, A, B, U
  <2> QED BY <2>1, <2>2, SquaredY
<1>10. Square(10)
  <2> DEFINE T == {1, 4, 8, 9, 10, 12, 15, 16, 17}
             S == {2, 8, 16, 18, 20, 24, 30, 32, 34}
             A == {0, 5, 6, 8, 9, 10, 11, 13, 14, 16, 17, 22, 23, 24, 26}
             B == {0, 4, 11, 12, 13, 17, 18}
             U == {4, 5, 7, 10, 11, 12, 13, 17}
  <2>1. DoublesY(T, S, A, B, U)
    BY DEF DoublesY, PassY, Odd
  <2>2. PowersY[10] = T /\ PowersY[10 + 1] = U
    BY DEF PowersY
  <2> HIDE DEF T, S, A, B, U
  <2> QED BY <2>1, <2>2, SquaredY
<1>11. Square(11)
  <2> DEFINE T == {4, 5, 7, 10, 11, 12, 13, 17}
             S == {8, 10, 14, 20, 22, 24, 26, 34}
             A == {2, 4, 6, 7, 10, 12, 15, 18, 21, 23, 26}
             B == {0, 2, 3, 4, 6, 15, 18}
             U == {2, 3, 4, 5, 6, 7, 10, 15}
  <2>1. DoublesY(T, S, A, B, U)
    BY DEF DoublesY, PassY, Odd
  <2>2. PowersY[11] = T /\ PowersY[11 + 1] = U
    BY DEF PowersY
  <2> HIDE DEF T, S, A, B, U
  <2> QED BY <2>1, <2>2, SquaredY
<1>12. Square(12)
  <2> DEFINE T == {2, 3, 4, 5, 6, 7, 10, 15}
             S == {4, 6, 8, 10, 12, 14, 20, 30}
             A == {2, 4, 6, 7, 8, 9, 10, 12, 14, 17, 19, 22}
             B == {1, 2, 7, 10, 12, 17}
             U == {1, 2, 7, 10, 12, 17}
  <2>1. DoublesY(T, S, A, B, U)
    BY DEF DoublesY, PassY, Odd
  <2>2. PowersY[12] = T /\ PowersY[12 + 1] = U
    BY DEF PowersY
  <2> HIDE DEF T, S, A, B, U
  <2> QED BY <2>1, <2>2, SquaredY
<1>13. Square(13)
  <2> DEFINE T == {1, 2, 7, 10, 12, 17}
             S == {2, 4, 14, 20, 24, 34}
             A == {4, 6, 7, 9, 11, 12, 13, 14, 21, 23, 26}
             B == {3, 4, 5, 6, 7, 9, 11, 13, 14, 18}
             U == {0, 3, 4, 6, 9, 10, 11, 13, 14}
  <2>1. DoublesY(T, S, A, B, U)
    BY DEF DoublesY, PassY, Odd
  <2>2. PowersY[13] = T /\ PowersY[13 + 1] = U
    BY DEF PowersY
  <2> HIDE DEF T, S, A, B, U
  <2> QED BY <2>1, <2>2, SquaredY
<1>14. Square(14)
  <2> DEFINE T == {0, 3, 4, 6, 9, 10, 11, 13, 14}
             S == {0, 6, 8, 12, 18, 20, 22, 26, 28}
             A == {2, 4, 5, 6, 11, 13, 14, 17, 18, 20}
             B == {0, 4, 6, 9, 10, 11, 12, 13, 14, 17}
             U == {0, 4, 6, 9, 10, 11, 12, 13, 14, 17}
  <2>1. DoublesY(T, S, A, B, U)
    BY DEF DoublesY, PassY, Odd
  <2>2. PowersY[14] = T /\ PowersY[14 + 1] = U
    BY DEF PowersY
  <2> HIDE DEF T, S, A, B, U
  <2> QED BY <2>1, <2>2, SquaredY
<1>15. Square(15)
  <2> DEFINE T == {0, 4, 6, 9, 10, 11, 12, 13, 14, 17}
             S == {0, 8, 12, 18, 20, 22, 24, 26, 28, 34}
             A == {2, 4, 5, 6, 14, 17, 18, 20, 21, 23, 26}
             B == {0, 3, 4, 5, 6, 9, 10, 14, 17, 18}
             U == {3, 4, 6, 7, 9, 14, 17}
  <2>1. DoublesY(T, S, A, B, U)
    BY DEF DoublesY, PassY, Odd
  <2>2. PowersY[15] = T /\ PowersY[15 + 1] = U
    BY DEF PowersY
  <2> HIDE DEF T, S, A, B, U
  <2> QED BY <2>1, <2>2, SquaredY
<1>16. Square(16)
  <2> DEFINE T == {3, 4, 6, 7, 9, 14, 17}
             S == {6, 8, 12, 14, 18, 28, 34}
             A == {0, 5, 6, 7, 8, 12, 14, 15, 16, 17, 20, 21, 23, 26}
             B == {0, 2, 3, 6, 8, 9, 12, 14, 15, 16, 17, 18}
             U == {2, 3, 5, 6, 7, 8, 9, 10, 12, 14, 15, 16, 17}
  <2>1. DoublesY(T, S, A, B, U)
    BY DEF DoublesY, PassY, Odd
  <2>2. PowersY[16] = T /\ PowersY[16 + 1] = U
    BY DEF PowersY
  <2> HIDE DEF T, S, A, B, U
  <2> QED BY <2>1, <2>2, SquaredY
<1>17. Square(17)
  <2> DEFINE T == {2, 3, 5, 6, 7, 8, 9, 10, 12, 14, 15, 16, 17}
             S == {4, 6, 10, 12, 14, 16, 18, 20, 24, 28, 30, 32, 34}
             A == {0, 2, 4, 5, 9, 10, 11, 12, 13, 15, 16, 20, 22, 23, 24, 26}
             B == {0, 6, 7, 8, 9, 11, 12, 13, 14, 15, 18}
             U == {5, 6, 8, 9, 10, 11, 12, 13, 14, 15}
  <2>1. DoublesY(T, S, A, B, U)
    BY DEF DoublesY, PassY, Odd
  <2>2. PowersY[17] = T /\ PowersY[17 + 1] = U
    BY DEF PowersY
  <2> HIDE DEF T, S, A, B, U
  <2> QED BY <2>1, <2>2, SquaredY
<1> HIDE DEF Square
<1>18. \A k \in 1 .. 17 : Square(k)
  BY <1>1, <1>2, <1>3, <1>4, <1>5, <1>6, <1>7, <1>8, <1>9, <1>10, <1>11, <1>12, <1>13, <1>14, <1>15, <1>16, <1>17
<1> QED BY <1>18 DEF Square

\* Squared seventeen times.
LEMMA Squarings ==
  ASSUME NEW taps, NEW Q, Q[1] = {1},
         \A k \in 1 .. 17 : Reduced({2 * e : e \in Q[k]}, taps) = Q[k + 1]
  PROVE  FarAhead(taps) = Q[18]
<1> DEFINE Body(f) == [k \in 0 .. 17 |-> IF k = 0 THEN {1} ELSE Reduced({2 * e : e \in f[k - 1]}, taps)]
           F == [k \in 0 .. 17 |-> Q[k + 1]]
           square == CHOOSE f : f = Body(f)
<1>1. F = Body(F)
  <2>1. ASSUME NEW k \in 0 .. 17 PROVE F[k] = Body(F)[k]
    <3>1. CASE k = 0
      BY <3>1
    <3>2. CASE k # 0
      <4>1. k \in 1 .. 17 /\ k - 1 \in 0 .. 17 /\ (k - 1) + 1 = k
        BY <3>2
      <4>2. F[k - 1] = Q[k]
        BY <4>1
      <4>3. Body(F)[k] = Reduced({2 * e : e \in Q[k]}, taps)
        BY <3>2, <4>2
      <4> QED BY <4>1, <4>3
    <3> QED BY <3>1, <3>2
  <2> QED BY <2>1
<1>2. square = Body(square)
  BY <1>1
<1>3. FarAhead(taps) = square[17]
  BY DEF FarAhead
<1> HIDE DEF square
<1>4. square[0] = {1} /\ \A k \in 1 .. 17 : square[k] = Reduced({2 * e : e \in square[k - 1]}, taps)
  <2>1. square[0] = Body(square)[0] /\ \A k \in 1 .. 17 : square[k] = Body(square)[k]
    BY <1>2
  <2>2. Body(square)[0] = {1}
    OBVIOUS
  <2>3. ASSUME NEW k \in 1 .. 17 PROVE Body(square)[k] = Reduced({2 * e : e \in square[k - 1]}, taps)
    <3>1. k \in 0 .. 17 /\ k # 0
      OBVIOUS
    <3> QED BY <3>1
  <2> QED BY <2>1, <2>2, <2>3
<1> DEFINE Is(k) == square[k] = Q[k + 1]
<1>5. Is(0)
  BY <1>4
<1>6. ASSUME NEW k \in 1 .. 17, Is(k - 1) PROVE Is(k)
  <2>1. square[k] = Reduced({2 * e : e \in square[k - 1]}, taps)
    BY <1>4
  <2>2. square[k - 1] = Q[k]
    BY <1>6
  <2> QED BY <2>1, <2>2
<1> HIDE DEF Is
<1>7. Is(1) /\ Is(2) /\ Is(3) /\ Is(4) /\ Is(5) /\ Is(6) /\ Is(7) /\ Is(8)
  BY <1>5, <1>6
<1>8. Is(9) /\ Is(10) /\ Is(11) /\ Is(12) /\ Is(13) /\ Is(14) /\ Is(15) /\ Is(16) /\ Is(17)
  BY <1>7, <1>6
<1> QED BY <1>3, <1>8 DEF Is

LEMMA FarTaps == FarX = {4, 6, 15} /\ FarY = {5, 6, 8, 9, 10, 11, 12, 13, 14, 15}
<1>1. PowersX[1] = {1} /\ PowersX[18] = {4, 6, 15}
  BY DEF PowersX
<1>2. PowersY[1] = {1} /\ PowersY[18] = {5, 6, 8, 9, 10, 11, 12, 13, 14, 15}
  BY DEF PowersY
<1>3. FarAhead({0, 7}) = PowersX[18]
  BY <1>1, SquaresX, Squarings
<1>4. FarAhead({0, 5, 7, 10}) = PowersY[18]
  BY <1>2, SquaresY, Squarings
<1> QED BY <1>1, <1>2, <1>3, <1>4 DEF FarX, FarY

\* Both bits the scrambler forms are those of the Gold code, from every state of its
\* registers and so for every code and length of the field.
THEOREM ScramblerIsGold == PlSpec => []GoldSequence
<1>1. GoldSequence
  BY FarTaps DEF GoldSequence, Rn
<1> QED BY <1>1, PTL

-----------------------------------------------------------------------------
(* The chips of the VL-SNR header: a base matrix whose rows have signs *)

\* Bits of words of 8 and 16.
LEMMA PowersOfTwo == \A k \in 0 .. 15 : 2 ^ k \in Nat \ {0}
<1>1. /\ 2 ^ 0 = 1 /\ 2 ^ 1 = 2 /\ 2 ^ 2 = 4 /\ 2 ^ 3 = 8 /\ 2 ^ 4 = 16 /\ 2 ^ 5 = 32
      /\ 2 ^ 6 = 64 /\ 2 ^ 7 = 128 /\ 2 ^ 8 = 256 /\ 2 ^ 9 = 512 /\ 2 ^ 10 = 1024
      /\ 2 ^ 11 = 2048 /\ 2 ^ 12 = 4096 /\ 2 ^ 13 = 8192 /\ 2 ^ 14 = 16384 /\ 2 ^ 15 = 32768
  OBVIOUS
<1> DEFINE p(k) == 2 ^ k
<1>2. /\ p(0) = 1 /\ p(1) = 2 /\ p(2) = 4 /\ p(3) = 8 /\ p(4) = 16 /\ p(5) = 32
      /\ p(6) = 64 /\ p(7) = 128 /\ p(8) = 256 /\ p(9) = 512 /\ p(10) = 1024
      /\ p(11) = 2048 /\ p(12) = 4096 /\ p(13) = 8192 /\ p(14) = 16384 /\ p(15) = 32768
  BY <1>1
<1> HIDE DEF p
<1>3. \A k \in 0 .. 15 : p(k) \in Nat \ {0}
  BY <1>2
<1> QED BY <1>3 DEF p

LEMMA HighBitIsBit ==
  ASSUME NEW word \in Nat, NEW width \in {8, 16}, NEW k \in 0 .. width - 1
  PROVE  HighBit(word, width, k) \in 0 .. 1
<1>1. width - 1 - k \in 0 .. 15
  OBVIOUS
<1>2. PICK p \in Nat \ {0} : p = 2 ^ (width - 1 - k)
  BY <1>1, PowersOfTwo
<1>3. word \div p \in Int
  OBVIOUS
<1> QED BY <1>2, <1>3 DEF HighBit

\* The places of the symbols of both headers, of the VL-SNR header, and of its chips.
Symbols == 0 .. 989
VlSymbols == 0 .. 899
Chips == 0 .. 895

\* The chips: a bit of the base matrix and the sign of its row.
BaseBit(n) == HighBit(vlsnr_base_matrix[n \div 56 + 1][(n % 56) \div 8 + 1], 8, (n % 56) % 8)
RowSign(m, j) == HighBit(vlsnr_wh_signs[m], 16, j)

LEMMA ChipParts == \A m, n : Chip(m, n) = (BaseBit(n) + RowSign(m, n \div 56)) % 2
BY DEF Chip, BaseBit, RowSign

LEMMA MatrixBytes == \A r \in 1 .. 16 : \A c \in 1 .. 7 : vlsnr_base_matrix[r][c] \in Nat
<1>1. \A c \in 1 .. 7 : vlsnr_base_matrix[1][c] \in Nat
  BY DEF vlsnr_base_matrix
<1>2. \A c \in 1 .. 7 : vlsnr_base_matrix[2][c] \in Nat
  BY DEF vlsnr_base_matrix
<1>3. \A c \in 1 .. 7 : vlsnr_base_matrix[3][c] \in Nat
  BY DEF vlsnr_base_matrix
<1>4. \A c \in 1 .. 7 : vlsnr_base_matrix[4][c] \in Nat
  BY DEF vlsnr_base_matrix
<1>5. \A c \in 1 .. 7 : vlsnr_base_matrix[5][c] \in Nat
  BY DEF vlsnr_base_matrix
<1>6. \A c \in 1 .. 7 : vlsnr_base_matrix[6][c] \in Nat
  BY DEF vlsnr_base_matrix
<1>7. \A c \in 1 .. 7 : vlsnr_base_matrix[7][c] \in Nat
  BY DEF vlsnr_base_matrix
<1>8. \A c \in 1 .. 7 : vlsnr_base_matrix[8][c] \in Nat
  BY DEF vlsnr_base_matrix
<1>9. \A c \in 1 .. 7 : vlsnr_base_matrix[9][c] \in Nat
  BY DEF vlsnr_base_matrix
<1>10. \A c \in 1 .. 7 : vlsnr_base_matrix[10][c] \in Nat
  BY DEF vlsnr_base_matrix
<1>11. \A c \in 1 .. 7 : vlsnr_base_matrix[11][c] \in Nat
  BY DEF vlsnr_base_matrix
<1>12. \A c \in 1 .. 7 : vlsnr_base_matrix[12][c] \in Nat
  BY DEF vlsnr_base_matrix
<1>13. \A c \in 1 .. 7 : vlsnr_base_matrix[13][c] \in Nat
  BY DEF vlsnr_base_matrix
<1>14. \A c \in 1 .. 7 : vlsnr_base_matrix[14][c] \in Nat
  BY DEF vlsnr_base_matrix
<1>15. \A c \in 1 .. 7 : vlsnr_base_matrix[15][c] \in Nat
  BY DEF vlsnr_base_matrix
<1>16. \A c \in 1 .. 7 : vlsnr_base_matrix[16][c] \in Nat
  BY DEF vlsnr_base_matrix
<1> QED BY <1>1, <1>2, <1>3, <1>4, <1>5, <1>6, <1>7, <1>8, <1>9, <1>10, <1>11, <1>12, <1>13, <1>14, <1>15, <1>16
LEMMA SignWords == \A m \in 1 .. 9 : vlsnr_wh_signs[m] \in Nat
BY DEF vlsnr_wh_signs

LEMMA BaseBits ==
  ASSUME NEW n \in Chips
  PROVE  n \div 56 \in 0 .. 15 /\ BaseBit(n) \in 0 .. 1
<1>1. n \div 56 \in 0 .. 15 /\ n % 56 \in 0 .. 55
  BY DEF Chips
<1>2. (n % 56) \div 8 \in 0 .. 6 /\ (n % 56) % 8 \in 0 .. 7
  BY <1>1
<1>3. n \div 56 + 1 \in 1 .. 16 /\ (n % 56) \div 8 + 1 \in 1 .. 7
  BY <1>1, <1>2
<1>4. vlsnr_base_matrix[n \div 56 + 1][(n % 56) \div 8 + 1] \in Nat
  BY <1>3, MatrixBytes
<1>5. (n % 56) % 8 \in 0 .. 8 - 1
  BY <1>2
<1> QED BY <1>1, <1>4, <1>5, HighBitIsBit DEF BaseBit

LEMMA SignBits ==
  ASSUME NEW m \in 1 .. 9, NEW j \in 0 .. 15
  PROVE  RowSign(m, j) \in 0 .. 1
<1>1. vlsnr_wh_signs[m] \in Nat /\ j \in 0 .. 16 - 1
  BY SignWords
<1> QED BY <1>1, HighBitIsBit DEF RowSign

LEMMA ChipBits ==
  ASSUME NEW m \in 1 .. 9, NEW n \in Chips
  PROVE  Chip(m, n) \in 0 .. 1
<1>1. BaseBit(n) \in 0 .. 1 /\ RowSign(m, n \div 56) \in 0 .. 1
  BY BaseBits, SignBits
<1> QED BY <1>1, ChipParts

\* The bits of the first byte.
LEMMA FirstChips ==
  /\ BaseBit(0) = 1 /\ BaseBit(1) = 1 /\ BaseBit(2) = 1 /\ BaseBit(3) = 1 /\ BaseBit(4) = 1
  /\ BaseBit(5) = 0
<1>1. vlsnr_base_matrix[1][1] = 251
  BY DEF vlsnr_base_matrix
<1>2. \A n \in 0 .. 5 : BaseBit(n) = HighBit(251, 8, n)
  <2> SUFFICES ASSUME NEW n \in 0 .. 5 PROVE BaseBit(n) = HighBit(251, 8, n)
    OBVIOUS
  <2>1. n \div 56 + 1 = 1 /\ n % 56 = n /\ n \div 8 + 1 = 1 /\ n % 8 = n
    OBVIOUS
  <2> QED BY <2>1, <1>1 DEF BaseBit
<1>3. 2 ^ (8 - 1 - 0) = 128 /\ 2 ^ (8 - 1 - 1) = 64 /\ 2 ^ (8 - 1 - 2) = 32 /\ 2 ^ (8 - 1 - 3) = 16
      /\ 2 ^ (8 - 1 - 4) = 8 /\ 2 ^ (8 - 1 - 5) = 4
  OBVIOUS
<1>4. HighBit(251, 8, 0) = 1 /\ HighBit(251, 8, 1) = 1 /\ HighBit(251, 8, 2) = 1 /\ HighBit(251, 8, 3) = 1
      /\ HighBit(251, 8, 4) = 1 /\ HighBit(251, 8, 5) = 0
  BY <1>3 DEF HighBit
<1> QED BY <1>2, <1>4

\* Two MODCODs: of two rows that follow each other one has the same sign, the other not.
Changes(m, j) == RowSign(m, j) # RowSign(m, j + 1)

LEMMA SignChanges ==
  \A m \in 1 .. 9 :
    /\ Changes(m, 0) <=> m \in {2, 4, 6, 8}
    /\ Changes(m, 1) <=> m \in {2, 3, 7, 8}
    /\ Changes(m, 3) <=> m \in {2, 3, 5, 6}
    /\ Changes(m, 7) <=> m \in {2, 3, 5, 6, 9}
<1>1. 2 ^ (16 - 1 - 0) = 32768 /\ 2 ^ (16 - 1 - 1) = 16384 /\ 2 ^ (16 - 1 - 2) = 8192 /\ 2 ^ (16 - 1 - 3) = 4096
      /\ 2 ^ (16 - 1 - 4) = 2048 /\ 2 ^ (16 - 1 - 7) = 256 /\ 2 ^ (16 - 1 - 8) = 128
  OBVIOUS
<1>2. \A w \in Nat : /\ HighBit(w, 16, 0) = (w \div 32768) % 2
                     /\ HighBit(w, 16, 1) = (w \div 16384) % 2
                     /\ HighBit(w, 16, 2) = (w \div 8192) % 2
                     /\ HighBit(w, 16, 3) = (w \div 4096) % 2
                     /\ HighBit(w, 16, 4) = (w \div 2048) % 2
                     /\ HighBit(w, 16, 7) = (w \div 256) % 2
                     /\ HighBit(w, 16, 8) = (w \div 128) % 2
  BY <1>1 DEF HighBit
<1> DEFINE Right(m) == /\ Changes(m, 0) <=> m \in {2, 4, 6, 8}
                       /\ Changes(m, 1) <=> m \in {2, 3, 7, 8}
                       /\ Changes(m, 3) <=> m \in {2, 3, 5, 6}
                       /\ Changes(m, 7) <=> m \in {2, 3, 5, 6, 9}
<1>3. Right(1)
  <2>1. vlsnr_wh_signs[1] = 0
    BY DEF vlsnr_wh_signs
  <2>2. /\ RowSign(1, 0) = 0 /\ RowSign(1, 1) = 0 /\ RowSign(1, 2) = 0 /\ RowSign(1, 3) = 0
        /\ RowSign(1, 4) = 0 /\ RowSign(1, 7) = 0 /\ RowSign(1, 8) = 0
    BY <2>1, <1>2 DEF RowSign
  <2> QED BY <2>2 DEF Changes
<1>4. Right(2)
  <2>1. vlsnr_wh_signs[2] = 21845
    BY DEF vlsnr_wh_signs
  <2>2. /\ RowSign(2, 0) = 0 /\ RowSign(2, 1) = 1 /\ RowSign(2, 2) = 0 /\ RowSign(2, 3) = 1
        /\ RowSign(2, 4) = 0 /\ RowSign(2, 7) = 1 /\ RowSign(2, 8) = 0
    BY <2>1, <1>2 DEF RowSign
  <2> QED BY <2>2 DEF Changes
<1>5. Right(3)
  <2>1. vlsnr_wh_signs[3] = 13107
    BY DEF vlsnr_wh_signs
  <2>2. /\ RowSign(3, 0) = 0 /\ RowSign(3, 1) = 0 /\ RowSign(3, 2) = 1 /\ RowSign(3, 3) = 1
        /\ RowSign(3, 4) = 0 /\ RowSign(3, 7) = 1 /\ RowSign(3, 8) = 0
    BY <2>1, <1>2 DEF RowSign
  <2> QED BY <2>2 DEF Changes
<1>6. Right(4)
  <2>1. vlsnr_wh_signs[4] = 26214
    BY DEF vlsnr_wh_signs
  <2>2. /\ RowSign(4, 0) = 0 /\ RowSign(4, 1) = 1 /\ RowSign(4, 2) = 1 /\ RowSign(4, 3) = 0
        /\ RowSign(4, 4) = 0 /\ RowSign(4, 7) = 0 /\ RowSign(4, 8) = 0
    BY <2>1, <1>2 DEF RowSign
  <2> QED BY <2>2 DEF Changes
<1>7. Right(5)
  <2>1. vlsnr_wh_signs[5] = 3855
    BY DEF vlsnr_wh_signs
  <2>2. /\ RowSign(5, 0) = 0 /\ RowSign(5, 1) = 0 /\ RowSign(5, 2) = 0 /\ RowSign(5, 3) = 0
        /\ RowSign(5, 4) = 1 /\ RowSign(5, 7) = 1 /\ RowSign(5, 8) = 0
    BY <2>1, <1>2 DEF RowSign
  <2> QED BY <2>2 DEF Changes
<1>8. Right(6)
  <2>1. vlsnr_wh_signs[6] = 26985
    BY DEF vlsnr_wh_signs
  <2>2. /\ RowSign(6, 0) = 0 /\ RowSign(6, 1) = 1 /\ RowSign(6, 2) = 1 /\ RowSign(6, 3) = 0
        /\ RowSign(6, 4) = 1 /\ RowSign(6, 7) = 1 /\ RowSign(6, 8) = 0
    BY <2>1, <1>2 DEF RowSign
  <2> QED BY <2>2 DEF Changes
<1>9. Right(7)
  <2>1. vlsnr_wh_signs[7] = 15420
    BY DEF vlsnr_wh_signs
  <2>2. /\ RowSign(7, 0) = 0 /\ RowSign(7, 1) = 0 /\ RowSign(7, 2) = 1 /\ RowSign(7, 3) = 1
        /\ RowSign(7, 4) = 1 /\ RowSign(7, 7) = 0 /\ RowSign(7, 8) = 0
    BY <2>1, <1>2 DEF RowSign
  <2> QED BY <2>2 DEF Changes
<1>10. Right(8)
  <2>1. vlsnr_wh_signs[8] = 23130
    BY DEF vlsnr_wh_signs
  <2>2. /\ RowSign(8, 0) = 0 /\ RowSign(8, 1) = 1 /\ RowSign(8, 2) = 0 /\ RowSign(8, 3) = 1
        /\ RowSign(8, 4) = 1 /\ RowSign(8, 7) = 0 /\ RowSign(8, 8) = 0
    BY <2>1, <1>2 DEF RowSign
  <2> QED BY <2>2 DEF Changes
<1>11. Right(9)
  <2>1. vlsnr_wh_signs[9] = 65280
    BY DEF vlsnr_wh_signs
  <2>2. /\ RowSign(9, 0) = 1 /\ RowSign(9, 1) = 1 /\ RowSign(9, 2) = 1 /\ RowSign(9, 3) = 1
        /\ RowSign(9, 4) = 1 /\ RowSign(9, 7) = 1 /\ RowSign(9, 8) = 0
    BY <2>1, <1>2 DEF RowSign
  <2> QED BY <2>2 DEF Changes
<1> HIDE DEF Right
<1>12. \A m \in 1 .. 9 : Right(m)
  BY <1>3, <1>4, <1>5, <1>6, <1>7, <1>8, <1>9, <1>10, <1>11
<1> QED BY <1>12 DEF Right

LEMMA SignsApart ==
  ASSUME NEW m \in 1 .. 9, NEW k \in 1 .. 9, m # k
  PROVE  \E j \in {0, 1, 3, 7} : Changes(m, j) # Changes(k, j)
<1> DEFINE C(n, j) == Changes(n, j)
<1>1. \A n \in 1 .. 9 : \A j \in {0, 1, 3, 7} : C(n, j) \in BOOLEAN
  BY DEF Changes
<1>2. \A n \in 1 .. 9 :
        /\ C(n, 0) <=> n \in {2, 4, 6, 8}
        /\ C(n, 1) <=> n \in {2, 3, 7, 8}
        /\ C(n, 3) <=> n \in {2, 3, 5, 6}
        /\ C(n, 7) <=> n \in {2, 3, 5, 6, 9}
  BY SignChanges
<1> HIDE DEF C
<1>3. \/ ~ (C(m, 0) <=> C(k, 0))
      \/ ~ (C(m, 1) <=> C(k, 1))
      \/ ~ (C(m, 3) <=> C(k, 3))
      \/ ~ (C(m, 7) <=> C(k, 7))
  BY <1>2
<1>4. \E j \in {0, 1, 3, 7} : C(m, j) # C(k, j)
  BY <1>1, <1>3
<1> QED BY <1>4 DEF C

-----------------------------------------------------------------------------
(* The headers on the air *)

\* By how much the air turned them, and the VL-SNR header behind the PL header.
LEMMA TurnedEach ==
  ASSUME NEW s, NEW r, NEW k \in DOMAIN s
  PROVE  DOMAIN Turned(s, r) = DOMAIN s /\ Turned(s, r)[k] = (s[k] + r) % 4
<1> DEFINE V(n) == (s[n] + r) % 4
<1>1. Turned(s, r) = [n \in DOMAIN s |-> V(n)]
  BY DEF Turned
<1> HIDE DEF V
<1>2. DOMAIN Turned(s, r) = DOMAIN s /\ Turned(s, r)[k] = V(k)
  BY <1>1, Zenon
<1> QED BY <1>2 DEF V

LEMMA HeaderPlaces ==
  ASSUME NEW r, NEW k \in Symbols
  PROVE  /\ DOMAIN Headers0 = Symbols
         /\ k < 90 => Headers0[k] = plheader_generate(pls_code)[k]
         /\ ~ (k < 90) => Headers0[k] = vlsnr_header_generate(mc)[k - 90]
<1> DEFINE pl == plheader_generate(pls_code)
           vl == vlsnr_header_generate(mc)
           V(n) == IF n < 90 THEN pl[n] ELSE vl[n - 90]
<1>1. Headers0 = [n \in Symbols |-> V(n)]
  BY DEF Symbols, Headers0, DVBS2X_PLHEADER_LEN, DVBS2X_VLSNR_HDR_LEN, DVBS2X_SOF_LEN, DVBS2X_PLSC_LEN
<1> HIDE DEF V
<1>2. DOMAIN Headers0 = Symbols /\ Headers0[k] = V(k)
  BY <1>1, Zenon
<1> QED BY <1>2 DEF V

LEMMA ReferenceChip ==
  ASSUME NEW m \in 1 .. 9, NEW n \in Chips
  PROVE  vlsnr_ref[m][n] = PiHalfBpsk(n, Chip(m, n))
<1>1. vlsnr_ref = [l \in 1 .. 9 |-> [k \in Chips |-> PiHalfBpsk(k, Chip(l, k))]]
  BY DEF Chips, vlsnr_ref, NumModcods, DVBS2X_VLSNR_WH_LEN
<1>2. vlsnr_ref[m] = [k \in Chips |-> PiHalfBpsk(k, Chip(m, k))]
  BY <1>1, Zenon
<1> QED BY <1>2, Zenon

LEMMA HeaderChip ==
  ASSUME NEW m, NEW n \in Chips, NEW p \in VlSymbols, p = n + 2
  PROVE  vlsnr_header_generate(m)[p] = PiHalfBpsk(p, Chip(m, n))
<1> DEFINE V(k) == PiHalfBpsk(k, IF k - 2 \in Chips THEN Chip(m, k - 2) ELSE 0)
<1>1. vlsnr_header_generate(m) = [k \in VlSymbols |-> V(k)]
  BY DEF VlSymbols, Chips, vlsnr_header_generate, DVBS2X_VLSNR_HDR_LEN, DVBS2X_VLSNR_WH_LEN
<1> HIDE DEF V
<1>2. vlsnr_header_generate(m)[p] = V(p)
  BY <1>1, Zenon
<1>3. p - 2 = n
  BY DEF Chips
<1>4. (IF p - 2 \in Chips THEN Chip(m, p - 2) ELSE 0) = Chip(m, n)
  BY <1>3
<1> QED BY <1>2, <1>4 DEF V

LEMMA Places == WhStart = 92 /\ DVBS2X_PLHEADER_LEN = 90
BY DEF WhStart, DVBS2X_PLHEADER_LEN, DVBS2X_SOF_LEN, DVBS2X_PLSC_LEN

\* Bits, quarters and the MODCODs, as sets of which only a step that needs them knows
\* the elements.
Bin == 0 .. 1
Phases == 0 .. 3
Modcods == 1 .. 9

\* By how much a symbol is ahead: turned by r, at an odd place or not, a chip of one or not.
Lead(r, u, v, a, b) == (((((u + 2 * a) % 4) + r) % 4) - ((v + 2 * b) % 4)) % 4

LEMMA LeadOf ==
  ASSUME NEW r \in Phases, NEW u \in Bin, NEW v \in Bin, NEW a \in Bin, NEW b \in Bin
  PROVE  Lead(r, u, v, a, b) = (r + u - v + 2 * (a - b)) % 4
<1> USE DEF Bin, Phases
<1>1. (u + 2 * a) % 4 = u + 2 * a /\ (v + 2 * b) % 4 = v + 2 * b
  OBVIOUS
<1>2. \A x \in 0 .. 6, y \in 0 .. 3 : ((x % 4) - y) % 4 = (x - y) % 4
  OBVIOUS
<1>3. u + 2 * a + r \in 0 .. 6 /\ v + 2 * b \in 0 .. 3
  OBVIOUS
<1>4. (((u + 2 * a + r) % 4) - (v + 2 * b)) % 4 = ((u + 2 * a + r) - (v + 2 * b)) % 4
  BY <1>2, <1>3
<1>5. (u + 2 * a + r) - (v + 2 * b) = r + u - v + 2 * (a - b)
  OBVIOUS
<1> QED BY <1>1, <1>4, <1>5 DEF Lead

\* The sum of bits modulo two, and what two of them differ by.
Flip(x, s) == (x + s) % 2

LEMMA FlipBit == \A x, s \in Bin : Flip(x, s) \in Bin
BY DEF Flip, Bin

\* The lead when chips of two headers are apart by e.
LeadBy(c, e) == (c + 2 * e) % 4

LEMMA LeadBys ==
  ASSUME NEW c \in Int, c \in -1 .. 4
  PROVE  /\ LeadBy(c, -1) = LeadBy(c, 1) /\ LeadBy(c, 0) # LeadBy(c, 1)
         /\ LeadBy(c, 0) \in Phases /\ LeadBy(c, 1) \in Phases
BY DEF LeadBy, Phases

\* Chips that differ in one place and not in the other.
LEMMA LeadsApart ==
  ASSUME NEW r \in Phases, NEW u \in Bin, NEW v \in Bin,
         NEW a \in Bin, NEW b \in Bin, NEW c \in Bin, NEW d \in Bin, ~ (a = b <=> c = d)
  PROVE  /\ Lead(r, u, v, a, b) \in Phases /\ Lead(r, u, v, c, d) \in Phases
         /\ Lead(r, u, v, a, b) # Lead(r, u, v, c, d)
<1> DEFINE q == r + u - v
           e == a - b
           f == c - d
<1>1. /\ e \in {-1, 0, 1} /\ f \in {-1, 0, 1}
      /\ (e = 0 \/ f = 0) /\ ~ (e = 0 /\ f = 0)
  BY DEF Bin
<1>2. q \in Int /\ q \in -1 .. 4
  BY DEF Bin, Phases
<1>3. Lead(r, u, v, a, b) = LeadBy(q, e) /\ Lead(r, u, v, c, d) = LeadBy(q, f)
  BY LeadOf DEF LeadBy
<1> HIDE DEF q, e, f
<1>4. /\ LeadBy(q, -1) = LeadBy(q, 1) /\ LeadBy(q, 0) # LeadBy(q, 1)
      /\ LeadBy(q, 0) \in Phases /\ LeadBy(q, 1) \in Phases
  BY <1>2, LeadBys, Zenon
<1> QED BY <1>1, <1>3, <1>4

\* Symbol n of a reference against the symbol that is chip k of the header.
LEMMA AheadAt ==
  ASSUME mc \in Modcods, NEW r \in Phases, NEW m \in Modcods,
         NEW n \in Chips, NEW k \in Chips, NEW pos \in Int, pos + n = WhStart + k
  PROVE  Ahead(Turned(Headers0, r), pos, m, n) = Lead(r, k % 2, n % 2, Chip(mc, k), Chip(m, n))
<1> DEFINE h == Turned(Headers0, r)
<1>1. PICK p \in VlSymbols : p = k + 2
  BY DEF VlSymbols, Chips
<1>2. PICK a \in Bin : a = Chip(mc, k)
  BY ChipBits DEF Modcods, Bin
<1>3. PICK b \in Bin : b = Chip(m, n)
  BY ChipBits DEF Modcods, Bin
<1>4. PICK u \in Bin, v \in Bin : u = k % 2 /\ v = n % 2
  BY DEF Chips, Bin
<1>5. vlsnr_header_generate(mc)[p] = PiHalfBpsk(p, a)
  BY <1>1, <1>2, HeaderChip
<1>6. PICK q \in Symbols : q = pos + n /\ ~ (q < 90) /\ q - 90 = p
  <2>1. pos + n = 92 + k
    BY Places
  <2>2. k \in Int /\ k >= 0 /\ k <= 895 /\ n \in Int
    BY DEF Chips
  <2>3. pos + n \in Symbols
    BY <2>1, <2>2 DEF Symbols
  <2>4. ~ (pos + n < 90) /\ (pos + n) - 90 = p
    BY <2>1, <2>2, <1>1
  <2> QED BY <2>3, <2>4
<1>7. Headers0[q] = PiHalfBpsk(p, a) /\ DOMAIN Headers0 = Symbols
  BY <1>5, <1>6, HeaderPlaces, Zenon
<1>8. h[q] = (PiHalfBpsk(p, a) + r) % 4
  BY <1>7, TurnedEach, Zenon
<1>9. vlsnr_ref[m][n] = PiHalfBpsk(n, b)
  BY <1>3, ReferenceChip DEF Modcods
<1> HIDE DEF h
<1>10. Ahead(h, pos, m, n) = (((PiHalfBpsk(p, a) + r) % 4) - PiHalfBpsk(n, b)) % 4
  BY <1>6, <1>8, <1>9 DEF Ahead
<1>11. p % 2 = u
  BY <1>1, <1>4 DEF Chips
<1>12. PiHalfBpsk(p, a) = (u + 2 * a) % 4 /\ PiHalfBpsk(n, b) = (v + 2 * b) % 4
  BY <1>4, <1>11 DEF PiHalfBpsk
<1>13. Ahead(h, pos, m, n) = Lead(r, u, v, a, b)
  BY <1>10, <1>12 DEF Lead
<1> QED BY <1>2, <1>3, <1>4, <1>13 DEF h

\* With its own MODCOD, at its place, the whole header is ahead by what the air turned it.
LEMMA OwnAhead ==
  ASSUME mc \in Modcods, NEW r \in Phases, NEW n \in Chips
  PROVE  Ahead(Turned(Headers0, r), WhStart, mc, n) = r
<1>1. PICK u \in Bin : u = n % 2
  BY DEF Chips, Bin
<1>2. PICK a \in Bin : a = Chip(mc, n)
  BY ChipBits DEF Modcods, Bin
<1>3. WhStart \in Int
  BY Places
<1>4. Ahead(Turned(Headers0, r), WhStart, mc, n) = Lead(r, u, u, a, a)
  BY <1>1, <1>2, <1>3, AheadAt
<1>5. (r + u - u + 2 * (a - a)) % 4 = r
  BY DEF Bin, Phases
<1>6. Lead(r, u, u, a, a) = (r + u - u + 2 * (a - a)) % 4
  BY LeadOf, Zenon
<1> QED BY <1>4, <1>5, <1>6

\* Two symbols of a segment that do not agree.
Disagree(h, pos, m, from, to) ==
  \E n, k \in from .. to :
    Ahead(h, pos, m, n) \in Phases /\ Ahead(h, pos, m, k) \in Phases /\ Ahead(h, pos, m, n) # Ahead(h, pos, m, k)

\* The bits of a row, with its sign or without, agree alike.
LEMMA FlipAlike == \A x, y, s, t \in Bin : Flip(x, s) = Flip(y, t) <=> (x = y <=> s = t)
BY DEF Flip, Bin

\* Next to its place two symbols of the first row disagree, where the sign of the row
\* makes no difference, whatever the MODCOD.
LEMMA NearDisagree ==
  ASSUME mc \in Modcods, NEW r \in Phases, NEW m \in Modcods, NEW d \in {-2, -1, 1, 2},
         NEW pos \in Int, pos = WhStart + d
  PROVE  Disagree(Turned(Headers0, r), pos, m, 0, 127)
<1> DEFINE h == Turned(Headers0, r)
<1>1. PICK s \in Bin, t \in Bin : s = RowSign(mc, 0) /\ t = RowSign(m, 0)
  BY SignBits DEF Modcods, Bin
<1>2. \A n \in 0 .. 5 : n \in Chips /\ n \div 56 = 0 /\ BaseBit(n) \in Bin
  <2>1. \A n \in 0 .. 5 : n \in Chips /\ n \div 56 = 0
    BY DEF Chips
  <2> QED BY <2>1, BaseBits DEF Bin
<1>3. ASSUME NEW n \in Int, n \in 0 .. 5
      PROVE  Chip(mc, n) = Flip(BaseBit(n), s) /\ Chip(m, n) = Flip(BaseBit(n), t)
  BY <1>1, <1>2, <1>3, ChipParts DEF Flip
<1> DEFINE A(n) == Ahead(h, pos, m, n)
<1>4. ASSUME NEW n \in Int, NEW k \in Int, n \in 0 .. 5, k \in 0 .. 5, k = n + d
      PROVE  A(n) = Lead(r, k % 2, n % 2, Flip(BaseBit(k), s), Flip(BaseBit(n), t))
  <2>1. n \in Chips /\ k \in Chips
    BY <1>2, <1>4
  <2>2. pos + n = WhStart + k
    BY <1>4, Places
  <2>3. A(n) = Lead(r, k % 2, n % 2, Chip(mc, k), Chip(m, n))
    BY <2>1, <2>2, AheadAt, Zenon
  <2> QED BY <2>3, <1>3, <1>4
<1>5. ASSUME NEW n \in Int, NEW k \in Int, NEW n1 \in Int, NEW k1 \in Int,
             n \in 0 .. 5, k \in 0 .. 5, n1 \in 0 .. 5, k1 \in 0 .. 5,
             k = n + d, k1 = n1 + d, n % 2 = n1 % 2, k % 2 = k1 % 2,
             ~ (BaseBit(k) = BaseBit(n) <=> BaseBit(k1) = BaseBit(n1))
      PROVE  Disagree(h, pos, m, 0, 127)
  <2>1. PICK u \in Bin, v \in Bin : u = k % 2 /\ v = n % 2
    BY DEF Bin
  <2>2. PICK x \in Bin, y \in Bin, z \in Bin, w \in Bin :
           x = BaseBit(k) /\ y = BaseBit(n) /\ z = BaseBit(k1) /\ w = BaseBit(n1)
    BY <1>2, <1>5
  <2>3. A(n) = Lead(r, k % 2, n % 2, Flip(BaseBit(k), s), Flip(BaseBit(n), t))
    BY <1>4, <1>5
  <2>4. A(n1) = Lead(r, k1 % 2, n1 % 2, Flip(BaseBit(k1), s), Flip(BaseBit(n1), t))
    BY <1>4, <1>5
  <2>5. PICK a \in Bin, b \in Bin, c \in Bin, e \in Bin :
          a = Flip(x, s) /\ b = Flip(y, t) /\ c = Flip(z, s) /\ e = Flip(w, t)
    BY FlipBit
  <2>6. A(n) = Lead(r, u, v, a, b) /\ A(n1) = Lead(r, u, v, c, e)
    BY <1>5, <2>1, <2>2, <2>3, <2>4, <2>5
  <2>7. ~ (x = y <=> z = w)
    BY <1>5, <2>2
  <2>8. ~ (a = b <=> c = e)
    BY <2>5, <2>7, FlipAlike
  <2>9. A(n) \in Phases /\ A(n1) \in Phases /\ A(n) # A(n1)
    <3>1. /\ Lead(r, u, v, a, b) \in Phases /\ Lead(r, u, v, c, e) \in Phases
          /\ Lead(r, u, v, a, b) # Lead(r, u, v, c, e)
      BY <2>8, LeadsApart, Zenon
    <3> QED BY <2>6, <3>1, Zenon
  <2>10. n \in 0 .. 127 /\ n1 \in 0 .. 127
    BY <1>5
  <2> QED BY <2>9, <2>10 DEF Disagree
<1>6. CASE d = 1
  <2>1. 1 = 0 + d /\ 5 = 4 + d /\ 0 % 2 = 4 % 2 /\ 1 % 2 = 5 % 2
    BY <1>6
  <2>2. ~ (BaseBit(1) = BaseBit(0) <=> BaseBit(5) = BaseBit(4))
    BY FirstChips
  <2> QED BY <2>1, <2>2, <1>5
<1>7. CASE d = 2
  <2>1. 3 = 1 + d /\ 5 = 3 + d /\ 1 % 2 = 3 % 2 /\ 3 % 2 = 5 % 2
    BY <1>7
  <2>2. ~ (BaseBit(3) = BaseBit(1) <=> BaseBit(5) = BaseBit(3))
    BY FirstChips
  <2> QED BY <2>1, <2>2, <1>5
<1>8. CASE d = -1
  <2>1. 0 = 1 + d /\ 4 = 5 + d /\ 1 % 2 = 5 % 2 /\ 0 % 2 = 4 % 2
    BY <1>8
  <2>2. ~ (BaseBit(0) = BaseBit(1) <=> BaseBit(4) = BaseBit(5))
    BY FirstChips
  <2> QED BY <2>1, <2>2, <1>5
<1>9. CASE d = -2
  <2>1. 1 = 3 + d /\ 3 = 5 + d /\ 3 % 2 = 5 % 2 /\ 1 % 2 = 3 % 2
    BY <1>9
  <2>2. ~ (BaseBit(1) = BaseBit(3) <=> BaseBit(3) = BaseBit(5))
    BY FirstChips
  <2> QED BY <2>1, <2>2, <1>5
<1> QED BY <1>6, <1>7, <1>8, <1>9

\* The segments are of 128 chips, the rows of 56: one that both a row and the next
\* reach into.
SegmentOf(j) == IF j \in {0, 1} THEN 1 ELSE IF j = 3 THEN 2 ELSE 4

\* At its place two symbols of some segment disagree with another MODCOD.
LEMMA OtherDisagrees ==
  ASSUME mc \in Modcods, NEW r \in Phases, NEW m \in Modcods, m # mc
  PROVE  \E g \in 1 .. 7 : Disagree(Turned(Headers0, r), WhStart, m, (g - 1) * 128, g * 128 - 1)
<1> DEFINE h == Turned(Headers0, r)
<1>1. PICK j \in {0, 1, 3, 7} : Changes(mc, j) # Changes(m, j)
  BY SignsApart DEF Modcods
<1>2. j \in 0 .. 15 /\ j + 1 \in 0 .. 15
  BY <1>1
<1>3. PICK g \in 1 .. 7 : g = SegmentOf(j)
  BY DEF SegmentOf
<1>4. PICK n \in Chips : n = 56 * j + 54
  BY <1>1 DEF Chips
<1>5. PICK k \in Chips : k = n + 2
  BY <1>1, <1>4 DEF Chips
<1>6. n \div 56 = j /\ k \div 56 = j + 1 /\ n % 2 = 0 /\ k % 2 = 0
  BY <1>1, <1>4, <1>5
<1>7. n \in (g - 1) * 128 .. g * 128 - 1 /\ k \in (g - 1) * 128 .. g * 128 - 1
  BY <1>1, <1>3, <1>4, <1>5 DEF SegmentOf
<1>8. PICK x \in Bin, y \in Bin : x = BaseBit(n) /\ y = BaseBit(k)
  BY BaseBits DEF Bin
<1>9. PICK s \in Bin, s1 \in Bin, t \in Bin, t1 \in Bin :
         s = RowSign(mc, j) /\ s1 = RowSign(mc, j + 1) /\ t = RowSign(m, j) /\ t1 = RowSign(m, j + 1)
  BY <1>2, SignBits DEF Modcods, Bin
<1>10. ~ (s = s1 <=> t = t1)
  BY <1>1, <1>9 DEF Changes
<1>11. /\ Chip(mc, n) = Flip(x, s) /\ Chip(m, n) = Flip(x, t)
       /\ Chip(mc, k) = Flip(y, s1) /\ Chip(m, k) = Flip(y, t1)
  BY <1>6, <1>8, <1>9, ChipParts DEF Flip
<1>12. WhStart \in Int
  BY Places
<1>13. /\ Ahead(h, WhStart, m, n) = Lead(r, 0, 0, Flip(x, s), Flip(x, t))
       /\ Ahead(h, WhStart, m, k) = Lead(r, 0, 0, Flip(y, s1), Flip(y, t1))
  BY <1>6, <1>11, <1>12, AheadAt
<1>14. PICK a \in Bin, b \in Bin, c \in Bin, e \in Bin :
          a = Flip(x, s) /\ b = Flip(x, t) /\ c = Flip(y, s1) /\ e = Flip(y, t1)
  BY FlipBit
<1>15. ~ (a = b <=> c = e)
  <2>1. ~ (s = t <=> s1 = t1)
    BY <1>10 DEF Bin
  <2> QED BY <2>1, <1>14, FlipAlike
<1>16. 0 \in Bin
  BY DEF Bin
<1>17. /\ Ahead(h, WhStart, m, n) \in Phases /\ Ahead(h, WhStart, m, k) \in Phases
       /\ Ahead(h, WhStart, m, n) # Ahead(h, WhStart, m, k)
  <2>1. /\ Lead(r, 0, 0, a, b) \in Phases /\ Lead(r, 0, 0, c, e) \in Phases
        /\ Lead(r, 0, 0, a, b) # Lead(r, 0, 0, c, e)
    BY <1>15, <1>16, LeadsApart, Zenon
  <2> QED BY <1>13, <1>14, <2>1, Zenon
<1> HIDE DEF h
<1>18. Disagree(h, WhStart, m, (g - 1) * 128, g * 128 - 1)
  BY <1>7, <1>17 DEF Disagree
<1> QED BY <1>18 DEF h

-----------------------------------------------------------------------------
(* Correlations *)

\* The larger of two numbers has the larger square.
LEMMA SquareGrows ==
  ASSUME NEW a \in Nat, NEW b \in Nat, a <= b
  PROVE  a * a <= b * b /\ (a < b => a * a < b * b)
<1>1. PICK d \in Nat : b = a + d
  <2>1. b - a \in Nat /\ b = a + (b - a)
    OBVIOUS
  <2> QED BY <2>1
<1>2. b * b = a * a + 2 * (a * d) + d * d
  BY <1>1
<1>3. a * d \in Nat /\ d * d \in Nat /\ (d >= 1 => d * d >= 1)
  OBVIOUS
<1> QED BY <1>1, <1>2, <1>3

\* The difference of two counts squares to no more than their sum does, and to less
\* when there is some of both.
LEMMA DifferenceSquare ==
  ASSUME NEW a \in Nat, NEW c \in Nat
  PROVE  /\ (a - c) * (a - c) \in Nat
         /\ (a - c) * (a - c) <= (a + c) * (a + c)
         /\ a > 0 /\ c > 0 => (a - c) * (a - c) < (a + c) * (a + c)
<1>1. PICK p \in Nat : p <= a + c /\ (p = a - c \/ p = c - a) /\ (a > 0 /\ c > 0 => p < a + c)
  <2>1. CASE a >= c
    <3>1. a - c \in Nat /\ a - c <= a + c /\ (a > 0 /\ c > 0 => a - c < a + c)
      BY <2>1
    <3> QED BY <3>1
  <2>2. CASE c >= a
    <3>1. c - a \in Nat /\ c - a <= a + c /\ (a > 0 /\ c > 0 => c - a < a + c)
      BY <2>2
    <3> QED BY <3>1
  <2> QED BY <2>1, <2>2
<1>2. (a - c) * (a - c) = p * p
  <2>1. (a - c) * (a - c) = (c - a) * (c - a)
    OBVIOUS
  <2> QED BY <1>1, <2>1
<1>3. p * p \in Nat
  OBVIOUS
<1>4. a + c \in Nat
  OBVIOUS
<1> QED BY <1>1, <1>2, <1>3, <1>4, SquareGrows

\* The square of a correlation of symbols all of which count once: at most the square of
\* their number, and less when two differ.
LEMMA FourCounts ==
  ASSUME NEW a \in Nat, NEW b \in Nat, NEW c \in Nat, NEW d \in Nat, NEW L \in Nat, a + b + c + d <= L
  PROVE  LET corr == (a - c) * (a - c) + (b - d) * (b - d)
             two == \/ a > 0 /\ (b > 0 \/ c > 0 \/ d > 0)
                    \/ b > 0 /\ (c > 0 \/ d > 0)
                    \/ c > 0 /\ d > 0
         IN corr \in Nat /\ corr <= L * L /\ (two => corr < L * L)
<1> DEFINE u == a + c
           v == b + d
           re2 == (a - c) * (a - c)
           im2 == (b - d) * (b - d)
<1>1. u \in Nat /\ v \in Nat /\ u + v <= L
  OBVIOUS
<1>2. re2 \in Nat /\ re2 <= u * u /\ (a > 0 /\ c > 0 => re2 < u * u)
  BY DifferenceSquare
<1>3. im2 \in Nat /\ im2 <= v * v /\ (b > 0 /\ d > 0 => im2 < v * v)
  BY DifferenceSquare
<1>4. (u + v) * (u + v) <= L * L
  BY <1>1, SquareGrows
<1>5. (u > 0 /\ v > 0 => u * v > 0) /\ u * v \in Nat /\ u * u \in Nat /\ v * v \in Nat
  BY <1>1
<1> DEFINE two == \/ a > 0 /\ (b > 0 \/ c > 0 \/ d > 0)
                  \/ b > 0 /\ (c > 0 \/ d > 0)
                  \/ c > 0 /\ d > 0
<1>6. two => \/ a > 0 /\ c > 0
             \/ b > 0 /\ d > 0
             \/ u > 0 /\ v > 0
  OBVIOUS
<1> HIDE DEF u, v, re2, im2, two
<1>7. (u + v) * (u + v) = u * u + v * v + 2 * (u * v)
  BY <1>1
<1> DEFINE uu == u * u
           vv == v * v
           uv == u * v
           LL == L * L
<1>8. LL \in Nat
  OBVIOUS
<1>9. /\ uu \in Nat /\ vv \in Nat /\ uv \in Nat /\ (u > 0 /\ v > 0 => uv > 0)
      /\ uu + vv + 2 * uv <= LL
      /\ re2 <= uu /\ (a > 0 /\ c > 0 => re2 < uu)
      /\ im2 <= vv /\ (b > 0 /\ d > 0 => im2 < vv)
  BY <1>2, <1>3, <1>4, <1>5, <1>7
<1> HIDE DEF uu, vv, uv, LL
<1>10. re2 + im2 \in Nat /\ re2 + im2 <= LL /\ (two => re2 + im2 < LL)
  BY <1>2, <1>3, <1>6, <1>8, <1>9
<1> QED BY <1>10 DEF re2, im2, two, LL

\* How often a function takes each of four values.
Taken(S, f, t) == {n \in S : f[n] = t}

LEMMA CountBoth ==
  ASSUME NEW A, NEW B, IsFiniteSet(A), IsFiniteSet(B), A \cap B = {}
  PROVE  IsFiniteSet(A \cup B) /\ Cardinality(A \cup B) = Cardinality(A) + Cardinality(B)
<1>1. IsFiniteSet(A \cup B) /\ Cardinality(A \cup B) = Cardinality(A) + Cardinality(B) - Cardinality(A \cap B)
  BY FS_Union
<1>2. Cardinality({}) = 0 /\ Cardinality(A) \in Nat /\ Cardinality(B) \in Nat
  BY FS_EmptySet, FS_CardinalityType
<1>3. Cardinality(A \cap B) = 0
  BY <1>2, Zenon
<1> QED BY <1>1, <1>2, <1>3

LEMMA FourSets ==
  ASSUME NEW S, IsFiniteSet(S), NEW f
  PROVE  /\ \A t \in Phases : IsFiniteSet(Taken(S, f, t)) /\ Cardinality(Taken(S, f, t)) \in Nat
                              /\ \A n \in Taken(S, f, t) : Cardinality(Taken(S, f, t)) > 0
         /\ Cardinality(Taken(S, f, 0)) + Cardinality(Taken(S, f, 1)) + Cardinality(Taken(S, f, 2))
            + Cardinality(Taken(S, f, 3)) <= Cardinality(S)
<1> DEFINE T(t) == Taken(S, f, t)
<1>1. \A t : T(t) \subseteq S
  BY DEF Taken
<1>2. \A t : IsFiniteSet(T(t)) /\ Cardinality(T(t)) \in Nat
  BY <1>1, FS_Subset, FS_CardinalityType
<1>3. \A t, u : t # u => T(t) \cap T(u) = {}
  BY DEF Taken
<1>4. \A t, n : n \in T(t) => Cardinality(T(t)) > 0
  <2> TAKE t, n
  <2>1. Cardinality(T(t)) = 0 <=> T(t) = {}
    BY <1>2, FS_EmptySet
  <2> HIDE DEF T
  <2> QED BY <2>1, <1>2
<1>5. /\ IsFiniteSet(T(0) \cup T(1))
      /\ Cardinality(T(0) \cup T(1)) = Cardinality(T(0)) + Cardinality(T(1))
  BY <1>2, <1>3, CountBoth
<1>6. /\ IsFiniteSet(T(2) \cup T(3))
      /\ Cardinality(T(2) \cup T(3)) = Cardinality(T(2)) + Cardinality(T(3))
  BY <1>2, <1>3, CountBoth
<1>7. (T(0) \cup T(1)) \cap (T(2) \cup T(3)) = {} /\ (T(0) \cup T(1)) \cup (T(2) \cup T(3)) \subseteq S
  <2>1. T(0) \cap T(2) = {} /\ T(0) \cap T(3) = {} /\ T(1) \cap T(2) = {} /\ T(1) \cap T(3) = {}
    BY <1>3
  <2>2. T(0) \subseteq S /\ T(1) \subseteq S /\ T(2) \subseteq S /\ T(3) \subseteq S
    BY <1>1
  <2> HIDE DEF T
  <2> QED BY <2>1, <2>2, Zenon
<1> HIDE DEF T
<1>8. Cardinality((T(0) \cup T(1)) \cup (T(2) \cup T(3))) = Cardinality(T(0) \cup T(1)) + Cardinality(T(2) \cup T(3))
  BY <1>5, <1>6, <1>7, CountBoth
<1>9. Cardinality((T(0) \cup T(1)) \cup (T(2) \cup T(3))) <= Cardinality(S)
  BY <1>7, FS_Subset
<1>10. Cardinality(T(0)) + Cardinality(T(1)) + Cardinality(T(2)) + Cardinality(T(3)) <= Cardinality(S)
  BY <1>2, <1>5, <1>6, <1>8, <1>9
<1> QED BY <1>2, <1>4, <1>10 DEF T

\* Two symbols of the segment that disagree cost some of its correlation; when all agree
\* there is the whole of it.
Correlates(h, pos, m, from, to, whole) ==
  /\ Corr2(h, pos, m, from, to) \in Nat
  /\ Corr2(h, pos, m, from, to) <= whole
  /\ Disagree(h, pos, m, from, to) => Corr2(h, pos, m, from, to) < whole
  /\ \A r \in Phases :
       (\A n \in from .. to : Ahead(h, pos, m, n) = r) => Corr2(h, pos, m, from, to) = whole

LEMMA Correlation ==
  ASSUME NEW h, NEW pos, NEW m, NEW from \in Int, NEW to \in Int, NEW L \in Nat, L = to - from + 1
  PROVE  Correlates(h, pos, m, from, to, L * L)
<1> DEFINE S == from .. to
           f == [n \in S |-> Ahead(h, pos, m, n)]
           N(t) == Cardinality(Taken(S, f, t))
           corr == (N(0) - N(2)) * (N(0) - N(2)) + (N(1) - N(3)) * (N(1) - N(3))
<1>1. IsFiniteSet(S) /\ Cardinality(S) = L
  BY FS_Interval
<1>2. \A t : {n \in S : Ahead(h, pos, m, n) = t} = Taken(S, f, t)
  BY DEF Taken
<1>3. Corr2(h, pos, m, from, to) = corr
  BY <1>2 DEF Corr2
<1> HIDE DEF S
<1>4. /\ \A t \in Phases : N(t) \in Nat /\ \A n \in Taken(S, f, t) : N(t) > 0
      /\ N(0) + N(1) + N(2) + N(3) <= L
  BY <1>1, FourSets
<1>5. 0 \in Phases /\ 1 \in Phases /\ 2 \in Phases /\ 3 \in Phases
  BY DEF Phases
<1>6. N(0) \in Nat /\ N(1) \in Nat /\ N(2) \in Nat /\ N(3) \in Nat
  BY <1>4, <1>5
<1> HIDE DEF N
<1> DEFINE two == \/ N(0) > 0 /\ (N(1) > 0 \/ N(2) > 0 \/ N(3) > 0)
                  \/ N(1) > 0 /\ (N(2) > 0 \/ N(3) > 0)
                  \/ N(2) > 0 /\ N(3) > 0
<1>7. corr \in Nat /\ corr <= L * L /\ (two => corr < L * L)
  BY <1>4, <1>6, FourCounts
<1>8. ASSUME Disagree(h, pos, m, from, to) PROVE two
  <2>1. PICK n \in S, k \in S : f[n] \in Phases /\ f[k] \in Phases /\ f[n] # f[k]
    BY <1>8 DEF Disagree, S
  <2>2. PICK t \in Phases, u \in Phases : t = f[n] /\ u = f[k]
    BY <2>1
  <2>3. n \in Taken(S, f, t) /\ k \in Taken(S, f, u)
    BY <2>2 DEF Taken
  <2>4. N(t) > 0 /\ N(u) > 0 /\ t # u
    BY <2>1, <2>2, <2>3, <1>4
  <2> HIDE DEF f
  <2> QED BY <2>4 DEF Phases
<1>9. ASSUME NEW r \in Phases, \A n \in S : Ahead(h, pos, m, n) = r PROVE corr = L * L
  <2>1. Taken(S, f, r) = S /\ \A t : t # r => Taken(S, f, t) = {}
    BY <1>9 DEF Taken
  <2>2. N(r) = L /\ \A t : t # r => N(t) = 0
    BY <2>1, <1>1, FS_EmptySet DEF N
  <2>3. r = 0 \/ r = 1 \/ r = 2 \/ r = 3
    BY DEF Phases
  <2>4. \/ N(0) = L /\ N(1) = 0 /\ N(2) = 0 /\ N(3) = 0
        \/ N(0) = 0 /\ N(1) = L /\ N(2) = 0 /\ N(3) = 0
        \/ N(0) = 0 /\ N(1) = 0 /\ N(2) = L /\ N(3) = 0
        \/ N(0) = 0 /\ N(1) = 0 /\ N(2) = 0 /\ N(3) = L
    BY <2>2, <2>3
  <2>5. (L - 0) * (L - 0) = L * L /\ (0 - L) * (0 - L) = L * L /\ (0 - 0) * (0 - 0) = 0 /\ L * L \in Nat
    OBVIOUS
  <2>6. (0 - L) * (0 - L) + (0 - 0) * (0 - 0) = L * L /\ (L - 0) * (L - 0) + (0 - 0) * (0 - 0) = L * L
        /\ (0 - 0) * (0 - 0) + (L - 0) * (L - 0) = L * L /\ (0 - 0) * (0 - 0) + (0 - L) * (0 - L) = L * L
    BY <2>5
  <2> QED BY <2>4, <2>6
<1> HIDE DEF corr, two
<1> QED BY <1>3, <1>7, <1>8, <1>9 DEF S, Correlates

\* The root of a square that is at most that of a whole segment.
LEMMA Root ==
  ASSUME NEW c \in Nat, c <= 16384
  PROVE  /\ Magnitude(c) \in 0 .. 128
         /\ c = 16384 => Magnitude(c) = 128
         /\ c < 16384 => Magnitude(c) <= 127
<1> DEFINE Below == {n \in Nat : n * n > c}
<1>1. 129 \in Below
  OBVIOUS
<1>2. PICK n \in Below : \A k \in Below : n <= k
  <2>1. Below \in SUBSET Nat /\ Below # {}
    BY <1>1
  <2> HIDE DEF Below
  <2> QED BY <2>1, Least
<1>3. n # 0 /\ n \in Nat /\ n * n > c
  <2>1. 0 * 0 = 0
    OBVIOUS
  <2> QED BY <2>1, <1>2
<1>4. PICK k \in Nat : n = k + 1
  <2>1. n - 1 \in Nat /\ n = (n - 1) + 1
    BY <1>3
  <2> QED BY <2>1
<1>5. k * k \in Nat
  OBVIOUS
<1>6. k * k <= c /\ c < (k + 1) * (k + 1)
  <2>1. ~ (k \in Below)
    BY <1>2, <1>4
  <2> QED BY <2>1, <1>3, <1>4, <1>5
<1>7. n <= 129
  BY <1>1, <1>2
<1>8. k \in 0 .. 128
  BY <1>4, <1>7
<1>9. Magnitude(c) \in 0 .. 128 /\ Magnitude(c) * Magnitude(c) <= c /\ c < (Magnitude(c) + 1) * (Magnitude(c) + 1)
  <2> DEFINE P(j) == j * j <= c /\ c < (j + 1) * (j + 1)
             R == 0 .. SYNC_SEG_LEN
  <2>1. Magnitude(c) = CHOOSE j \in R : P(j)
    BY DEF Magnitude
  <2>2. R = 0 .. 128
    BY DEF SYNC_SEG_LEN
  <2>3. P(k) /\ k \in R
    BY <1>6, <1>8, <2>2
  <2> HIDE DEF P, R
  <2>4. Magnitude(c) \in R /\ P(Magnitude(c))
    <3>1. \E j \in R : P(j)
      BY <2>3
    <3> QED BY <2>1, <3>1
  <2> QED BY <2>2, <2>4 DEF P
<1> DEFINE g == Magnitude(c)
<1>10. g \in Nat /\ g <= 128 /\ g * g <= c /\ c < (g + 1) * (g + 1)
  BY <1>9
<1> HIDE DEF g
<1>11. ASSUME c < 16384 PROVE g <= 127
  <2>1. g = 128 => g * g = 16384
    OBVIOUS
  <2> QED BY <2>1, <1>10, <1>11
<1>12. ASSUME c = 16384 PROVE g = 128
  <2>1. ASSUME g < 128 PROVE FALSE
    <3>1. g + 1 \in Nat /\ g + 1 <= 128
      BY <1>10, <2>1
    <3>2. (g + 1) * (g + 1) <= 128 * 128
      BY <3>1, SquareGrows
    <3> QED BY <3>2, <1>10, <1>12
  <2> QED BY <2>1, <1>10
<1> QED BY <1>10, <1>11, <1>12 DEF g

\* The magnitudes of the seven segments together.
LEMMA SegmentSum ==
  ASSUME NEW h, NEW pos, NEW m, NEW g,
         \A k \in 1 .. 7 : /\ g[k] \in Int
                           /\ g[k] = Magnitude(Corr2(h, pos, m, (k - 1) * 128, k * 128 - 1))
  PROVE  SegMag(h, pos, m) = g[1] + g[2] + g[3] + g[4] + g[5] + g[6] + g[7]
<1> DEFINE G(k) == Magnitude(Corr2(h, pos, m, (k - 1) * 128, k * 128 - 1))
           K == 0 .. 7
           Body(f) == [k \in K |-> IF k = 0 THEN 0 ELSE f[k - 1] + G(k)]
           iter == CHOOSE f : f = Body(f)
           V(k) == IF k = 0 THEN 0 ELSE IF k = 1 THEN g[1] ELSE IF k = 2 THEN g[1] + g[2]
                   ELSE IF k = 3 THEN g[1] + g[2] + g[3] ELSE IF k = 4 THEN g[1] + g[2] + g[3] + g[4]
                   ELSE IF k = 5 THEN g[1] + g[2] + g[3] + g[4] + g[5]
                   ELSE IF k = 6 THEN g[1] + g[2] + g[3] + g[4] + g[5] + g[6]
                   ELSE g[1] + g[2] + g[3] + g[4] + g[5] + g[6] + g[7]
           F == [k \in K |-> V(k)]
<1>1. \A k \in K : k = 0 \/ k = 1 \/ k = 2 \/ k = 3 \/ k = 4 \/ k = 5 \/ k = 6 \/ k = 7
  OBVIOUS
<1>2. \A k \in K : k # 0 => k - 1 \in K /\ k \in 1 .. 7
  OBVIOUS
<1>3. SegMag(h, pos, m) = iter[7]
  BY DEF SegMag, DVBS2X_VLSNR_WH_LEN, SYNC_SEG_LEN
<1>4. \A k \in 1 .. 7 : G(k) = g[k] /\ g[k] \in Int
  OBVIOUS
<1> HIDE DEF G
<1>5. ASSUME NEW k \in K, k # 0 PROVE V(k) = V(k - 1) + G(k)
  <2>1. G(1) = g[1] /\ G(2) = g[2] /\ G(3) = g[3] /\ G(4) = g[4] /\ G(5) = g[5] /\ G(6) = g[6] /\ G(7) = g[7]
    BY <1>4
  <2>2. g[1] \in Int /\ g[2] \in Int /\ g[3] \in Int /\ g[4] \in Int /\ g[5] \in Int /\ g[6] \in Int /\ g[7] \in Int
    BY <1>4
  <2>3. k = 1 \/ k = 2 \/ k = 3 \/ k = 4 \/ k = 5 \/ k = 6 \/ k = 7
    BY <1>1, <1>5
  <2> QED BY <2>1, <2>2, <2>3
<1>6. V(0) = 0
  OBVIOUS
<1>7. 7 \in K /\ V(7) = g[1] + g[2] + g[3] + g[4] + g[5] + g[6] + g[7]
  OBVIOUS
<1> HIDE DEF V, K
<1>8. F = Body(F)
  <2>1. ASSUME NEW k \in K PROVE F[k] = Body(F)[k]
    <3>1. CASE k = 0
      BY <3>1, <1>6
    <3>2. CASE k # 0
      <4>1. k - 1 \in K
        BY <1>2, <3>2
      <4>2. F[k] = F[k - 1] + G(k)
        BY <1>5, <3>2, <4>1
      <4> QED BY <3>2, <4>2
    <3> QED BY <3>1, <3>2
  <2> QED BY <2>1
<1> HIDE DEF F
<1>9. iter = Body(iter)
  BY <1>8
<1> HIDE DEF iter
<1>10. iter[0] = 0 /\ \A k \in K : k # 0 => iter[k] = iter[k - 1] + G(k)
  <2>1. DOMAIN iter = K /\ \A k \in K : iter[k] = IF k = 0 THEN 0 ELSE iter[k - 1] + G(k)
    BY <1>9
  <2>2. 0 \in K
    BY DEF K
  <2> QED BY <2>1, <2>2
<1>11. iter[7] = g[1] + g[2] + g[3] + g[4] + g[5] + g[6] + g[7]
  <2>1. G(1) = g[1] /\ G(2) = g[2] /\ G(3) = g[3] /\ G(4) = g[4] /\ G(5) = g[5] /\ G(6) = g[6] /\ G(7) = g[7]
    BY <1>4
  <2>2. g[1] \in Int /\ g[2] \in Int /\ g[3] \in Int /\ g[4] \in Int /\ g[5] \in Int /\ g[6] \in Int /\ g[7] \in Int
    BY <1>4
  <2>3. /\ iter[1] = iter[0] + G(1) /\ iter[2] = iter[1] + G(2) /\ iter[3] = iter[2] + G(3)
        /\ iter[4] = iter[3] + G(4) /\ iter[5] = iter[4] + G(5) /\ iter[6] = iter[5] + G(6)
        /\ iter[7] = iter[6] + G(7)
    BY <1>10 DEF K
  <2> QED BY <1>10, <2>1, <2>2, <2>3
<1> QED BY <1>3, <1>11

\* The whole of each segment makes 896, and a disagreement in one of them less.
LEMMA SegmentMagnitudes ==
  ASSUME NEW h, NEW pos, NEW m
  PROVE  /\ SegMag(h, pos, m) \in Nat /\ SegMag(h, pos, m) <= 896
         /\ (\E g \in 1 .. 7 : Disagree(h, pos, m, (g - 1) * 128, g * 128 - 1)) => SegMag(h, pos, m) <= 895
         /\ \A r \in Phases : (\A n \in Chips : Ahead(h, pos, m, n) = r) => SegMag(h, pos, m) = 896
<1> DEFINE C(k) == Corr2(h, pos, m, (k - 1) * 128, k * 128 - 1)
           Lost(k) == Disagree(h, pos, m, (k - 1) * 128, k * 128 - 1)
           g == [k \in 1 .. 7 |-> Magnitude(C(k))]
<1>1. ASSUME NEW k \in Int, k \in 1 .. 7
      PROVE  /\ g[k] \in Nat /\ g[k] <= 128 /\ (Lost(k) => g[k] <= 127)
             /\ \A r \in Phases : (\A n \in Chips : Ahead(h, pos, m, n) = r) => g[k] = 128
  <2>1. g[k] = Magnitude(C(k))
    BY <1>1
  <2>2. PICK from \in Int, to \in Int : from = (k - 1) * 128 /\ to = k * 128 - 1
    BY <1>1
  <2>3. 128 = to - from + 1
    BY <2>2
  <2>4. \A n \in from .. to : n \in Chips
    BY <2>2, <1>1 DEF Chips
  <2>5. C(k) = Corr2(h, pos, m, from, to) /\ (Lost(k) <=> Disagree(h, pos, m, from, to))
    BY <2>2
  <2>6. 128 \in Nat /\ 128 * 128 = 16384
    OBVIOUS
  <2> HIDE DEF C, Lost, g
  <2>7. PICK c \in Nat : c = C(k) /\ c <= 16384 /\ (Lost(k) => c < 16384)
        /\ \A r \in Phases : (\A n \in from .. to : Ahead(h, pos, m, n) = r) => c = 16384
    <3>1. PICK L \in Nat : L = 128 /\ L * L = 16384
      BY <2>6
    <3>2. Correlates(h, pos, m, from, to, 16384)
      <4>1. L = to - from + 1
        BY <2>3, <3>1
      <4>2. Correlates(h, pos, m, from, to, L * L)
        BY <4>1, Correlation, Zenon
      <4> QED BY <3>1, <4>2
    <3>3. PICK c \in Nat : c = Corr2(h, pos, m, from, to)
      BY <3>2 DEF Correlates
    <3> QED BY <2>5, <3>2, <3>3 DEF Correlates
  <2>8. Magnitude(c) \in 0 .. 128 /\ (c = 16384 => Magnitude(c) = 128) /\ (c < 16384 => Magnitude(c) <= 127)
    BY <2>7, Root
  <2>9. \A r \in Phases : (\A n \in Chips : Ahead(h, pos, m, n) = r) => c = 16384
    BY <2>4, <2>7
  <2> QED BY <2>1, <2>7, <2>8, <2>9
<1>2. SegMag(h, pos, m) = g[1] + g[2] + g[3] + g[4] + g[5] + g[6] + g[7]
  <2>1. \A k \in 1 .. 7 : g[k] \in Int /\ g[k] = Magnitude(C(k))
    <3> SUFFICES ASSUME NEW k \in 1 .. 7 PROVE g[k] \in Int /\ g[k] = Magnitude(C(k))
      OBVIOUS
    <3>1. g[k] = Magnitude(C(k))
      OBVIOUS
    <3> HIDE DEF g
    <3> QED BY <1>1, <3>1
  <2> HIDE DEF g
  <2> QED BY <2>1, SegmentSum
<1> HIDE DEF g, Lost
<1>3. /\ g[1] \in Nat /\ g[2] \in Nat /\ g[3] \in Nat /\ g[4] \in Nat /\ g[5] \in Nat /\ g[6] \in Nat /\ g[7] \in Nat
      /\ g[1] <= 128 /\ g[2] <= 128 /\ g[3] <= 128 /\ g[4] <= 128 /\ g[5] <= 128 /\ g[6] <= 128 /\ g[7] <= 128
  BY <1>1
<1>4. ASSUME NEW k \in 1 .. 7, Lost(k) PROVE SegMag(h, pos, m) <= 895
  <2>1. g[k] <= 127
    BY <1>1, <1>4
  <2>2. k = 1 \/ k = 2 \/ k = 3 \/ k = 4 \/ k = 5 \/ k = 6 \/ k = 7
    OBVIOUS
  <2>3. \/ g[1] <= 127 \/ g[2] <= 127 \/ g[3] <= 127 \/ g[4] <= 127 \/ g[5] <= 127 \/ g[6] <= 127 \/ g[7] <= 127
    BY <2>1, <2>2, Zenon
  <2> QED BY <1>2, <1>3, <2>3
<1>5. ASSUME NEW r \in Phases, \A n \in Chips : Ahead(h, pos, m, n) = r PROVE SegMag(h, pos, m) = 896
  <2>1. \A k \in 1 .. 7 : g[k] = 128
    BY <1>1, <1>5
  <2>2. g[1] = 128 /\ g[2] = 128 /\ g[3] = 128 /\ g[4] = 128 /\ g[5] = 128 /\ g[6] = 128 /\ g[7] = 128
    BY <2>1
  <2> QED BY <1>2, <2>2
<1>6. SegMag(h, pos, m) \in Nat /\ SegMag(h, pos, m) <= 896
  BY <1>2, <1>3
<1> QED BY <1>4, <1>5, <1>6 DEF Lost

-----------------------------------------------------------------------------
(* The best of several *)

\* What FirstBest chooses, for a function.
Scored(S, f) == {<<f[x], x>> : x \in S}
Before(c, d) == d[1] < c[1] \/ (d[1] = c[1] /\ c[2] <= d[2])
BestOf(S, f) == (CHOOSE c \in Scored(S, f) : \A d \in Scored(S, f) : Before(c, d))[2]

\* One with more than all others is chosen.
LEMMA OnlyBest ==
  ASSUME NEW S, S \subseteq Int, NEW f, NEW x \in S, \A y \in S : f[y] \in Int, \A y \in S : y # x => f[y] < f[x]
  PROVE  BestOf(S, f) = x
<1> DEFINE T == Scored(S, f)
           c == <<f[x], x>>
           P(e) == \A d \in T : Before(e, d)
<1>1. c \in T
  BY DEF Scored
<1>2. P(c)
  <2>1. ASSUME NEW y \in S PROVE Before(c, <<f[y], y>>)
    <3>1. CASE y = x
      <4>1. f[y] = f[x] /\ x <= y
        BY <3>1
      <4> QED BY <4>1 DEF Before
    <3>2. CASE y # x
      BY <3>2 DEF Before
    <3> QED BY <3>1, <3>2
  <2> QED BY <2>1 DEF Scored
<1>3. ASSUME NEW e \in T, P(e) PROVE e = c
  <2>1. PICK y \in S : e = <<f[y], y>>
    BY DEF Scored
  <2>2. Before(e, c)
    BY <1>1, <1>3
  <2>3. f[x] < f[y] \/ f[x] = f[y]
    BY <2>1, <2>2 DEF Before
  <2>4. f[x] \in Int /\ f[y] \in Int
    OBVIOUS
  <2>5. y = x
    BY <2>3, <2>4
  <2> QED BY <2>1, <2>5
<1>4. BestOf(S, f) = (CHOOSE e \in T : P(e))[2]
  BY DEF BestOf
<1> HIDE DEF P, T, c
<1>5. (CHOOSE e \in T : P(e)) = c
  BY <1>1, <1>2, <1>3
<1>6. BestOf(S, f) = c[2]
  BY <1>4, <1>5
<1> QED BY <1>6 DEF c

\* And of an interval one is.
LEMMA SomeBest ==
  ASSUME NEW a \in Int, NEW b \in Nat, NEW f, \A x \in a .. a + b : f[x] \in Int
  PROVE  BestOf(a .. a + b, f) \in a .. a + b
<1> DEFINE First(x, n) == \A y \in a .. a + n : f[y] < f[x] \/ (f[y] = f[x] /\ x <= y)
           I == {n \in Nat : n <= b => \E x \in a .. a + n : First(x, n)}
<1>1. 0 \in I
  <2>1. a \in a .. a + 0 /\ \A y \in a .. a + 0 : y = a
    OBVIOUS
  <2>2. First(a, 0)
    BY <2>1
  <2> QED BY <2>1, <2>2
<1>2. ASSUME NEW n \in Nat, n \in I PROVE n + 1 \in I
  <2> SUFFICES ASSUME n + 1 <= b PROVE \E x \in a .. a + (n + 1) : First(x, n + 1)
    OBVIOUS
  <2>1. PICK x \in a .. a + n : First(x, n)
    BY <1>2
  <2> DEFINE z == a + (n + 1)
  <2>2. z \in Int /\ z \in a .. a + b /\ x \in a .. a + b /\ x < z
    OBVIOUS
  <2>3. \A y \in a .. a + (n + 1) : y = z \/ y \in a .. a + n
    OBVIOUS
  <2>4. \A y \in a .. a + n : y \in a .. a + b
    OBVIOUS
  <2>5. f[z] \in Int /\ f[x] \in Int /\ \A y \in a .. a + n : f[y] \in Int
    BY <2>2, <2>4
  <2>6. z \in a .. a + (n + 1) /\ x \in a .. a + (n + 1)
    OBVIOUS
  <2> HIDE DEF z
  <2>7. CASE f[z] <= f[x]
    <3>1. f[z] < f[x] \/ (f[z] = f[x] /\ x <= z)
      BY <2>2, <2>5, <2>7
    <3>2. First(x, n + 1)
      BY <2>1, <2>3, <3>1
    <3> QED BY <2>6, <3>2
  <2>8. CASE f[x] < f[z]
    <3>1. \A y \in a .. a + n : f[y] < f[z]
      BY <2>1, <2>5, <2>8
    <3>2. f[z] = f[z] /\ z <= z
      BY <2>2
    <3>3. First(z, n + 1)
      BY <2>3, <3>1, <3>2
    <3> QED BY <2>6, <3>3
  <2> QED BY <2>5, <2>7, <2>8
<1>3. b \in I
  <2> HIDE DEF I
  <2>1. \A n \in Nat : n \in I
    BY <1>1, <1>2, SetInduction
  <2> QED BY <2>1
<1>4. PICK x \in a .. a + b : First(x, b)
  BY <1>3
<1> DEFINE S == a .. a + b
           T == Scored(S, f)
           P(e) == \A d \in T : Before(e, d)
           best == CHOOSE e \in T : P(e)
<1>5. <<f[x], x>> \in T /\ P(<<f[x], x>>)
  BY <1>4 DEF Scored, Before
<1>6. BestOf(S, f) = best[2]
  BY DEF BestOf
<1> HIDE DEF P
<1>7. best \in T
  BY <1>5
<1> HIDE DEF best
<1>8. PICK y \in S : best = <<f[y], y>>
  BY <1>7 DEF Scored
<1>9. best[2] = y
  BY <1>8
<1> QED BY <1>6, <1>9, Zenon

\* Where each MODCOD would be.
SearchedAt == WhStart - Reach .. WhStart + Reach

LEMMA CandidateIs ==
  ASSUME NEW h, NEW P, NEW m
  PROVE  Candidate(h, P, m) = BestOf(P, [pos \in P |-> Corr2(h, pos, m, 0, 895)])
<1> DEFINE f == [pos \in P |-> Corr2(h, pos, m, 0, 895)]
           T == {<<Corr2(h, pos, m, 0, 895), pos>> : pos \in P}
<1>1. T = Scored(P, f)
  BY DEF Scored
<1>2. Candidate(h, P, m) = (CHOOSE c \in T : \A d \in T : d[1] < c[1] \/ (d[1] = c[1] /\ c[2] <= d[2]))[2]
  BY DEF Candidate, FirstBest, DVBS2X_VLSNR_WH_LEN
<1> DEFINE Q(R) == (CHOOSE c \in R : \A d \in R : d[1] < c[1] \/ (d[1] = c[1] /\ c[2] <= d[2]))[2]
<1>3. BestOf(P, f) = Q(Scored(P, f)) /\ Candidate(h, P, m) = Q(T)
  BY <1>2 DEF BestOf, Before
<1> HIDE DEF T, f, Q
<1>4. Candidate(h, P, m) = BestOf(P, f)
  BY <1>1, <1>3, Zenon
<1> QED BY <1>4, Zenon DEF f

\* The places of the search other than its own.
LEMMA OtherPlaces ==
  ASSUME Reach \in 0 .. 2, NEW pos \in SearchedAt, pos # WhStart
  PROVE  pos \in Int /\ \E d \in {-2, -1, 1, 2} : pos = WhStart + d
<1>1. WhStart = 92
  BY Places
<1>2. pos \in Int /\ 92 - Reach <= pos /\ pos <= 92 + Reach
  BY <1>1 DEF SearchedAt
<1>3. Reach = 0 \/ Reach = 1 \/ Reach = 2
  OBVIOUS
<1>4. pos - 92 \in {-2, -1, 1, 2} /\ pos = 92 + (pos - 92)
  BY <1>1, <1>2, <1>3
<1> QED BY <1>1, <1>2, <1>4

LEMMA WholeCorrelation ==
  ASSUME NEW h, NEW pos, NEW m
  PROVE  Correlates(h, pos, m, 0, 895, 802816)
<1>1. PICK L \in Nat : L = 896 /\ L * L = 802816 /\ L = 895 - 0 + 1
  OBVIOUS
<1>2. Correlates(h, pos, m, 0, 895, L * L)
  <2>1. \A from \in Int, to \in Int : L = to - from + 1 => Correlates(h, pos, m, from, to, L * L)
    BY Correlation
  <2> QED BY <2>1, <1>1
<1> QED BY <1>1, <1>2

\* Those that disagree do so among more.
LEMMA DisagreeWider ==
  ASSUME NEW h, NEW pos, NEW m, NEW to \in Int, NEW far \in Int, to <= far, Disagree(h, pos, m, 0, to)
  PROVE  Disagree(h, pos, m, 0, far)
<1>1. 0 .. to \subseteq 0 .. far
  OBVIOUS
<1> DEFINE N == 0 .. to
           W == 0 .. far
<1>2. \E n, k \in N : /\ Ahead(h, pos, m, n) \in Phases /\ Ahead(h, pos, m, k) \in Phases
                     /\ Ahead(h, pos, m, n) # Ahead(h, pos, m, k)
  BY DEF Disagree
<1>3. N \subseteq W
  BY <1>1
<1>4. Disagree(h, pos, m, 0, far)
     <=> \E n, k \in W : /\ Ahead(h, pos, m, n) \in Phases /\ Ahead(h, pos, m, k) \in Phases
                        /\ Ahead(h, pos, m, n) # Ahead(h, pos, m, k)
  BY DEF Disagree
<1> HIDE DEF N, W
<1> QED BY <1>2, <1>3, <1>4

\* Its own MODCOD is looked for at its place.
LEMMA OwnCandidate ==
  ASSUME mc \in Modcods, NEW r \in Phases, Reach \in 0 .. 2
  PROVE  Candidate(Turned(Headers0, r), SearchedAt, mc) = WhStart
<1> DEFINE h == Turned(Headers0, r)
           f == [pos \in SearchedAt |-> Corr2(h, pos, mc, 0, 895)]
<1>1. SearchedAt \subseteq Int /\ WhStart \in SearchedAt
  BY Places DEF SearchedAt
<1>2. Chips = 0 .. 895
  BY DEF Chips
<1>3. f[WhStart] = 802816
  <2>1. \A n \in Chips : Ahead(h, WhStart, mc, n) = r
    BY OwnAhead
  <2>2. Corr2(h, WhStart, mc, 0, 895) = 802816
    <3> HIDE DEF h
    <3>1. Correlates(h, WhStart, mc, 0, 895, 802816)
      BY WholeCorrelation
    <3> QED BY <2>1, <3>1 DEF Correlates, Chips
  <2> QED BY <2>2, <1>1
<1>4. ASSUME NEW pos \in SearchedAt PROVE f[pos] \in Int /\ (pos # WhStart => f[pos] < 802816)
  <2>1. Correlates(h, pos, mc, 0, 895, 802816)
    BY WholeCorrelation
  <2>2. ASSUME pos # WhStart PROVE Disagree(h, pos, mc, 0, 895)
    <3>1. PICK d \in {-2, -1, 1, 2} : pos = WhStart + d /\ pos \in Int
      BY <2>2, OtherPlaces
    <3>2. Disagree(h, pos, mc, 0, 127)
      BY <3>1, NearDisagree
    <3> QED BY <3>2, DisagreeWider
  <2> HIDE DEF h
  <2>3. f[pos] = Corr2(h, pos, mc, 0, 895)
    OBVIOUS
  <2> QED BY <2>1, <2>2, <2>3 DEF Correlates
<1>5. Candidate(h, SearchedAt, mc) = BestOf(SearchedAt, f)
  BY CandidateIs
<1> HIDE DEF f, h
<1>6. BestOf(SearchedAt, f) = WhStart
  <2>1. \A y \in SearchedAt : f[y] \in Int
    BY <1>4
  <2>2. \A y \in SearchedAt : y # WhStart => f[y] < f[WhStart]
    BY <1>3, <1>4
  <2> QED BY <1>1, <2>1, <2>2, OnlyBest
<1>7. Candidate(h, SearchedAt, mc) = WhStart
  BY <1>5, <1>6, Zenon
<1> QED BY <1>7 DEF h

\* Any other at one of the places searched.
LEMMA AnyCandidate ==
  ASSUME Reach \in 0 .. 2, NEW h, NEW m
  PROVE  Candidate(h, SearchedAt, m) \in SearchedAt
<1> DEFINE f == [pos \in SearchedAt |-> Corr2(h, pos, m, 0, 895)]
<1>1. Candidate(h, SearchedAt, m) = BestOf(SearchedAt, f)
  BY CandidateIs
<1>2. PICK a \in Int, b \in Nat : a = WhStart - Reach /\ b = Reach + Reach /\ a + b = WhStart + Reach
  <2>1. WhStart \in Int
    BY Places
  <2>2. /\ WhStart - Reach \in Int /\ Reach + Reach \in Nat
        /\ (WhStart - Reach) + (Reach + Reach) = WhStart + Reach
    BY <2>1
  <2> QED BY <2>2
<1>3. SearchedAt = a .. a + b
  BY <1>2 DEF SearchedAt
<1>4. ASSUME NEW pos \in SearchedAt PROVE f[pos] \in Int
  <2>1. Correlates(h, pos, m, 0, 895, 802816)
    BY WholeCorrelation
  <2> QED BY <2>1 DEF Correlates
<1> HIDE DEF f
<1>5. \A x \in a .. a + b : f[x] \in Int
  BY <1>3, <1>4
<1>6. BestOf(a .. a + b, f) \in a .. a + b
  BY <1>5, SomeBest
<1> QED BY <1>1, <1>3, <1>6, Zenon

\* And there it has less than the whole of one segment.
LEMMA OtherMagnitude ==
  ASSUME mc \in Modcods, NEW r \in Phases, Reach \in 0 .. 2, NEW m \in Modcods, m # mc, NEW pos \in SearchedAt
  PROVE  SegMag(Turned(Headers0, r), pos, m) <= 895
<1> DEFINE h == Turned(Headers0, r)
<1>1. \E g \in 1 .. 7 : Disagree(h, pos, m, (g - 1) * 128, g * 128 - 1)
  <2>1. CASE pos = WhStart
    BY <2>1, OtherDisagrees
  <2>2. CASE pos # WhStart
    <3>1. PICK d \in {-2, -1, 1, 2} : pos = WhStart + d /\ pos \in Int
      BY <2>2, OtherPlaces
    <3>2. Disagree(h, pos, m, 0, 127)
      BY <3>1, NearDisagree
    <3>3. (1 - 1) * 128 = 0 /\ 1 * 128 - 1 = 127 /\ 1 \in 1 .. 7
      OBVIOUS
    <3> HIDE DEF h
    <3> QED BY <3>2, <3>3
  <2> QED BY <2>1, <2>2
<1> HIDE DEF h
<1>2. SegMag(h, pos, m) <= 895
  BY <1>1, SegmentMagnitudes
<1> QED BY <1>2 DEF h

\* The search finds the header where it is and for what it is.
LEMMA SearchFinds ==
  ASSUME mc \in Modcods, NEW r \in Phases, Reach \in 0 .. 2
  PROVE  header_sync(Turned(Headers0, r), SearchedAt) = [conf |-> 100, wh_start |-> WhStart, modcod_idx |-> mc]
<1> DEFINE h == Turned(Headers0, r)
           at == [m \in 1 .. NumModcods |-> Candidate(h, SearchedAt, m)]
           mag(m) == SegMag(h, at[m], m)
           f == [m \in 1 .. NumModcods |-> mag(m)]
           T == {<<mag(m), m>> : m \in 1 .. NumModcods}
           Q(R) == (CHOOSE c \in R : \A d \in R : d[1] < c[1] \/ (d[1] = c[1] /\ c[2] <= d[2]))[2]
<1>1. 1 .. NumModcods = Modcods
  BY DEF Modcods, NumModcods
<1>2. \A m \in Modcods : at[m] = Candidate(h, SearchedAt, m)
  BY <1>1
<1>3. mag(mc) = 896
  <2>1. at[mc] = WhStart
    BY <1>2, OwnCandidate
  <2>2. \A n \in Chips : Ahead(h, WhStart, mc, n) = r
    BY OwnAhead
  <2> HIDE DEF h, at
  <2> QED BY <2>1, <2>2, SegmentMagnitudes
<1>4. ASSUME NEW m \in Modcods PROVE mag(m) \in Int /\ (m # mc => mag(m) < 896)
  <2>1. at[m] \in SearchedAt
    BY <1>2, AnyCandidate
  <2>2. m # mc => SegMag(h, at[m], m) <= 895
    BY <2>1, OtherMagnitude
  <2>3. SegMag(h, at[m], m) \in Nat
    BY SegmentMagnitudes
  <2> HIDE DEF h, at
  <2> QED BY <2>2, <2>3
<1>5. header_sync(h, SearchedAt)
        = [conf |-> (100 * mag(Q(T))) \div 896, wh_start |-> at[Q(T)], modcod_idx |-> Q(T)]
  BY DEF header_sync, FirstBest, DVBS2X_VLSNR_WH_LEN
<1>6. Q(T) = mc
  <2>1. T = Scored(Modcods, f)
    BY <1>1 DEF Scored
  <2>2. BestOf(Modcods, f) = Q(Scored(Modcods, f))
    BY DEF BestOf, Before
  <2>3. \A m \in Modcods : f[m] = mag(m)
    BY <1>1
  <2> HIDE DEF f, mag, T, Q
  <2>4. Modcods \subseteq Int
    BY DEF Modcods
  <2>5. \A m \in Modcods : f[m] \in Int
    BY <2>3, <1>4
  <2>6. \A m \in Modcods : m # mc => f[m] < f[mc]
    BY <2>3, <1>3, <1>4
  <2>7. BestOf(Modcods, f) = mc
    BY <2>4, <2>5, <2>6, OnlyBest
  <2> QED BY <2>1, <2>2, <2>7, Zenon
<1>7. at[mc] = WhStart
  BY <1>2, OwnCandidate
<1> HIDE DEF T, Q, mag, at
<1>8. (100 * mag(mc)) \div 896 = 100
  <2>1. 100 * 896 = 89600 /\ 89600 \div 896 = 100
    OBVIOUS
  <2> QED BY <1>3, <2>1
<1> QED BY <1>5, <1>6, <1>7, <1>8

-----------------------------------------------------------------------------
(* The code of the PL header *)

Codes == 0 .. 255
CodePlaces == 0 .. 63

\* The rows a code chooses, and those that have a one in column m.
Rows(code) == {r \in 0 .. 6 : HighBit(code, 8, r) = 1}
Ones(code, m) == {r \in Rows(code) : pls_gen(r, m) = 1}

LEMMA EncodedPlace ==
  ASSUME NEW code, NEW n \in CodePlaces
  PROVE  pls_encode(code)[n] = (Cardinality(Ones(code, n \div 2)) + (n % 2) * (code % 2) + pls_scram[n + 1]) % 2
<1> DEFINE V(k) == (Cardinality(Ones(code, k \div 2)) + (k % 2) * (code % 2) + pls_scram[k + 1]) % 2
<1>1. pls_encode(code) = [k \in CodePlaces |-> V(k)]
  BY DEF pls_encode, CodePlaces, DVBS2X_PLSC_LEN, Ones, Rows
<1> HIDE DEF V
<1>2. pls_encode(code)[n] = V(n)
  BY <1>1, Zenon
<1> QED BY <1>2 DEF V

LEMMA OnesFinite ==
  ASSUME NEW code, NEW m
  PROVE  IsFiniteSet(Ones(code, m)) /\ Cardinality(Ones(code, m)) \in Nat
<1>1. IsFiniteSet(0 .. 6)
  <2>1. PICK a \in Int, b \in Int : a = 0 /\ b = 6
    OBVIOUS
  <2>2. IsFiniteSet(a .. b)
    BY FS_Interval
  <2> QED BY <2>1, <2>2
<1>2. Ones(code, m) \subseteq 0 .. 6
  BY DEF Ones, Rows
<1> QED BY <1>1, <1>2, FS_Subset, FS_CardinalityType

LEMMA ScramBits == \A n \in CodePlaces : pls_scram[n + 1] \in Bin
<1>1. \A n \in 1 .. 64 : pls_scram[n] \in Bin
  BY DEF pls_scram, Bin
<1>2. \A n \in CodePlaces : n + 1 \in 1 .. 64
  BY DEF CodePlaces
<1> QED BY <1>1, <1>2

\* The rows with a one in the columns that tell the rows apart.
LEMMA Columns ==
  \A r \in 0 .. 6 :
    /\ pls_gen(r, 0) = 1 <=> r \in {0, 6}
    /\ pls_gen(r, 1) = 1 <=> r \in {1, 6}
    /\ pls_gen(r, 2) = 1 <=> r \in {2, 6}
    /\ pls_gen(r, 4) = 1 <=> r \in {3, 6}
    /\ pls_gen(r, 5) = 1 <=> r \in {1, 3, 6}
    /\ pls_gen(r, 8) = 1 <=> r \in {0, 4, 6}
    /\ pls_gen(r, 16) = 1 <=> r \in {5, 6}
<1>1. /\ 2 ^ (1 - 1) = 1 /\ 2 ^ (2 - 1) = 2 /\ 2 ^ (3 - 1) = 4 /\ 2 ^ (4 - 1) = 8 /\ 2 ^ (5 - 1) = 16
      /\ 2 ^ (16 - 1 - 0) = 32768 /\ 2 ^ (16 - 1 - 1) = 16384 /\ 2 ^ (16 - 1 - 2) = 8192
      /\ 2 ^ (16 - 1 - 4) = 2048 /\ 2 ^ (16 - 1 - 5) = 1024 /\ 2 ^ (16 - 1 - 8) = 128
  OBVIOUS
<1>2. \A m \in Nat : /\ pls_gen(0, m) = HighBit(IF m < 16 THEN 37036 ELSE 11741, 16, m % 16)
                     /\ pls_gen(1, m) = (m \div 1) % 2
                     /\ pls_gen(2, m) = (m \div 2) % 2
                     /\ pls_gen(3, m) = (m \div 4) % 2
                     /\ pls_gen(4, m) = (m \div 8) % 2
                     /\ pls_gen(5, m) = (m \div 16) % 2
                     /\ pls_gen(6, m) = 1
  BY <1>1 DEF pls_gen
<1>3. /\ HighBit(37036, 16, 0) = 1 /\ HighBit(37036, 16, 1) = 0 /\ HighBit(37036, 16, 2) = 0
      /\ HighBit(37036, 16, 4) = 0 /\ HighBit(37036, 16, 5) = 0 /\ HighBit(37036, 16, 8) = 1
      /\ HighBit(11741, 16, 0) = 0
  BY <1>1 DEF HighBit
<1>4. /\ pls_gen(0, 0) = 1 /\ pls_gen(0, 1) = 0 /\ pls_gen(0, 2) = 0 /\ pls_gen(0, 4) = 0
      /\ pls_gen(0, 5) = 0 /\ pls_gen(0, 8) = 1 /\ pls_gen(0, 16) = 0
  BY <1>2, <1>3
<1> DEFINE Col(r) ==
             /\ pls_gen(r, 0) = 1 <=> r \in {0, 6}
             /\ pls_gen(r, 1) = 1 <=> r \in {1, 6}
             /\ pls_gen(r, 2) = 1 <=> r \in {2, 6}
             /\ pls_gen(r, 4) = 1 <=> r \in {3, 6}
             /\ pls_gen(r, 5) = 1 <=> r \in {1, 3, 6}
             /\ pls_gen(r, 8) = 1 <=> r \in {0, 4, 6}
             /\ pls_gen(r, 16) = 1 <=> r \in {5, 6}
<1>5. Col(0)
  BY <1>4
<1>6. Col(1)
  BY <1>2
<1>7. Col(2)
  BY <1>2
<1>8. Col(3)
  BY <1>2
<1>9. Col(4)
  BY <1>2
<1>10. Col(5)
  BY <1>2
<1>11. Col(6)
  BY <1>2
<1> HIDE DEF Col
<1>12. \A r \in 0 .. 6 : Col(r)
  BY <1>5, <1>6, <1>7, <1>8, <1>9, <1>10, <1>11
<1> QED BY <1>12 DEF Col

\* The parity of two or three rows.
LEMMA ParityPair ==
  ASSUME NEW X, NEW a, NEW b, a # b
  PROVE  /\ IsFiniteSet({r \in {a, b} : r \in X}) /\ Parity2({r \in {a, b} : r \in X}) \in 0 .. 1
         /\ Parity2({r \in {a, b} : r \in X}) = 1 <=> Odd(a \in X, b \in X)
<1> DEFINE T == {r \in {a, b} : r \in X}
           T0 == {r \in {a} : r \in X}
<1>1. T0 = {} \/ T0 = {} \cup {a}
  OBVIOUS
<1>2. T = T0 \/ T = T0 \cup {b}
  OBVIOUS
<1>3. (a \in T0 <=> a \in X) /\ (b \in T <=> b \in X) /\ b \notin T0
  OBVIOUS
<1> HIDE DEF T, T0
<1>4. IsFiniteSet(T0) /\ (Parity2(T0) = 1 <=> a \in X)
  BY <1>1, <1>3, ParityAdds, ParityNone DEF Odd
<1>5. IsFiniteSet(T) /\ Parity2(T) \in 0 .. 1 /\ (Parity2(T) = 1 <=> Odd(Parity2(T0) = 1, b \in T))
  BY <1>2, <1>3, <1>4, ParityAdds
<1>6. IsFiniteSet(T) /\ Parity2(T) \in 0 .. 1 /\ (Parity2(T) = 1 <=> Odd(a \in X, b \in X))
  BY <1>3, <1>4, <1>5 DEF Odd
<1> QED BY <1>6 DEF T

LEMMA ParityTriple ==
  ASSUME NEW X, NEW a, NEW b, NEW c, a # b, a # c, b # c
  PROVE  Parity2({r \in {a, b, c} : r \in X}) = 1 <=> Odd(Odd(a \in X, b \in X), c \in X)
<1> DEFINE T == {r \in {a, b, c} : r \in X}
           T0 == {r \in {a, b} : r \in X}
<1>1. T = T0 \/ T = T0 \cup {c}
  OBVIOUS
<1>2. (c \in T <=> c \in X) /\ c \notin T0
  OBVIOUS
<1>3. IsFiniteSet(T0) /\ (Parity2(T0) = 1 <=> Odd(a \in X, b \in X))
  BY ParityPair
<1> HIDE DEF T, T0
<1>4. Parity2(T) = 1 <=> Odd(Parity2(T0) = 1, c \in T)
  BY <1>1, <1>2, <1>3, ParityAdds
<1>5. Parity2(T) = 1 <=> Odd(Odd(a \in X, b \in X), c \in X)
  BY <1>2, <1>3, <1>4 DEF Odd
<1> QED BY <1>5 DEF T

\* The parities of the columns in terms of the rows a code chooses.
LEMMA ColumnParities ==
  ASSUME NEW code
  PROVE  LET X == Rows(code)
         IN /\ Parity2(Ones(code, 0)) = 1 <=> Odd(0 \in X, 6 \in X)
            /\ Parity2(Ones(code, 1)) = 1 <=> Odd(1 \in X, 6 \in X)
            /\ Parity2(Ones(code, 2)) = 1 <=> Odd(2 \in X, 6 \in X)
            /\ Parity2(Ones(code, 4)) = 1 <=> Odd(3 \in X, 6 \in X)
            /\ Parity2(Ones(code, 5)) = 1 <=> Odd(Odd(1 \in X, 3 \in X), 6 \in X)
            /\ Parity2(Ones(code, 8)) = 1 <=> Odd(Odd(0 \in X, 4 \in X), 6 \in X)
            /\ Parity2(Ones(code, 16)) = 1 <=> Odd(5 \in X, 6 \in X)
<1> DEFINE X == Rows(code)
<1>1. \A r \in X : r \in 0 .. 6
  BY DEF Rows
<1>2. /\ 0 \in 0 .. 6 /\ 1 \in 0 .. 6 /\ 2 \in 0 .. 6 /\ 3 \in 0 .. 6 /\ 4 \in 0 .. 6 /\ 5 \in 0 .. 6 /\ 6 \in 0 .. 6
  OBVIOUS
<1>3. ASSUME NEW m, NEW D, \A r \in 0 .. 6 : pls_gen(r, m) = 1 <=> r \in D, D \subseteq 0 .. 6
      PROVE  Ones(code, m) = {r \in D : r \in X}
  BY <1>1, <1>3 DEF Ones
<1> HIDE DEF X
<1>4. /\ Ones(code, 0) = {r \in {0, 6} : r \in X}
      /\ Ones(code, 1) = {r \in {1, 6} : r \in X}
      /\ Ones(code, 2) = {r \in {2, 6} : r \in X}
      /\ Ones(code, 4) = {r \in {3, 6} : r \in X}
      /\ Ones(code, 5) = {r \in {1, 3, 6} : r \in X}
      /\ Ones(code, 8) = {r \in {0, 4, 6} : r \in X}
      /\ Ones(code, 16) = {r \in {5, 6} : r \in X}
  <2>1. Ones(code, 0) = {r \in {0, 6} : r \in X}
    <3>1. (\A r \in 0 .. 6 : pls_gen(r, 0) = 1 <=> r \in {0, 6}) /\ {0, 6} \subseteq 0 .. 6
      BY Columns
    <3> QED BY <3>1, <1>3
  <2>2. Ones(code, 1) = {r \in {1, 6} : r \in X}
    <3>1. (\A r \in 0 .. 6 : pls_gen(r, 1) = 1 <=> r \in {1, 6}) /\ {1, 6} \subseteq 0 .. 6
      BY Columns
    <3> QED BY <3>1, <1>3
  <2>3. Ones(code, 2) = {r \in {2, 6} : r \in X}
    <3>1. (\A r \in 0 .. 6 : pls_gen(r, 2) = 1 <=> r \in {2, 6}) /\ {2, 6} \subseteq 0 .. 6
      BY Columns
    <3> QED BY <3>1, <1>3
  <2>4. Ones(code, 4) = {r \in {3, 6} : r \in X}
    <3>1. (\A r \in 0 .. 6 : pls_gen(r, 4) = 1 <=> r \in {3, 6}) /\ {3, 6} \subseteq 0 .. 6
      BY Columns
    <3> QED BY <3>1, <1>3
  <2>5. Ones(code, 5) = {r \in {1, 3, 6} : r \in X}
    <3>1. (\A r \in 0 .. 6 : pls_gen(r, 5) = 1 <=> r \in {1, 3, 6}) /\ {1, 3, 6} \subseteq 0 .. 6
      BY Columns
    <3> QED BY <3>1, <1>3
  <2>6. Ones(code, 8) = {r \in {0, 4, 6} : r \in X}
    <3>1. (\A r \in 0 .. 6 : pls_gen(r, 8) = 1 <=> r \in {0, 4, 6}) /\ {0, 4, 6} \subseteq 0 .. 6
      BY Columns
    <3> QED BY <3>1, <1>3
  <2>7. Ones(code, 16) = {r \in {5, 6} : r \in X}
    <3>1. (\A r \in 0 .. 6 : pls_gen(r, 16) = 1 <=> r \in {5, 6}) /\ {5, 6} \subseteq 0 .. 6
      BY Columns
    <3> QED BY <3>1, <1>3
  <2> QED BY <2>1, <2>2, <2>3, <2>4, <2>5, <2>6, <2>7
<1>5. /\ Parity2({r \in {0, 6} : r \in X}) = 1 <=> Odd(0 \in X, 6 \in X)
      /\ Parity2({r \in {1, 6} : r \in X}) = 1 <=> Odd(1 \in X, 6 \in X)
      /\ Parity2({r \in {2, 6} : r \in X}) = 1 <=> Odd(2 \in X, 6 \in X)
      /\ Parity2({r \in {3, 6} : r \in X}) = 1 <=> Odd(3 \in X, 6 \in X)
      /\ Parity2({r \in {5, 6} : r \in X}) = 1 <=> Odd(5 \in X, 6 \in X)
  BY ParityPair
<1>6. /\ Parity2({r \in {1, 3, 6} : r \in X}) = 1 <=> Odd(Odd(1 \in X, 3 \in X), 6 \in X)
      /\ Parity2({r \in {0, 4, 6} : r \in X}) = 1 <=> Odd(Odd(0 \in X, 4 \in X), 6 \in X)
  BY ParityTriple
<1> QED BY <1>4, <1>5, <1>6 DEF X

LEMMA RowBits ==
  ASSUME NEW code
  PROVE  LET X == Rows(code)
         IN /\ 0 \in X <=> (code \div 128) % 2 = 1
            /\ 1 \in X <=> (code \div 64) % 2 = 1
            /\ 2 \in X <=> (code \div 32) % 2 = 1
            /\ 3 \in X <=> (code \div 16) % 2 = 1
            /\ 4 \in X <=> (code \div 8) % 2 = 1
            /\ 5 \in X <=> (code \div 4) % 2 = 1
            /\ 6 \in X <=> (code \div 2) % 2 = 1
<1>1. /\ 2 ^ (8 - 1 - 0) = 128 /\ 2 ^ (8 - 1 - 1) = 64 /\ 2 ^ (8 - 1 - 2) = 32 /\ 2 ^ (8 - 1 - 3) = 16
      /\ 2 ^ (8 - 1 - 4) = 8 /\ 2 ^ (8 - 1 - 5) = 4 /\ 2 ^ (8 - 1 - 6) = 2
  OBVIOUS
<1>2. /\ HighBit(code, 8, 0) = (code \div 128) % 2
      /\ HighBit(code, 8, 1) = (code \div 64) % 2
      /\ HighBit(code, 8, 2) = (code \div 32) % 2
      /\ HighBit(code, 8, 3) = (code \div 16) % 2
      /\ HighBit(code, 8, 4) = (code \div 8) % 2
      /\ HighBit(code, 8, 5) = (code \div 4) % 2
      /\ HighBit(code, 8, 6) = (code \div 2) % 2
  BY <1>1 DEF HighBit
<1>3. \A r : r \in Rows(code) <=> r \in 0 .. 6 /\ HighBit(code, 8, r) = 1
  BY DEF Rows
<1>4. /\ 0 \in 0 .. 6 /\ 1 \in 0 .. 6 /\ 2 \in 0 .. 6 /\ 3 \in 0 .. 6 /\ 4 \in 0 .. 6 /\ 5 \in 0 .. 6 /\ 6 \in 0 .. 6
  OBVIOUS
<1> QED BY <1>2, <1>3, <1>4

\* A byte is the sum of its bits.
LEMMA Expansion ==
  ASSUME NEW c \in Int, 0 <= c, c <= 255
  PROVE  c = 128 * ((c \div 128) % 2) + 64 * ((c \div 64) % 2) + 32 * ((c \div 32) % 2) + 16 * ((c \div 16) % 2)
             + 8 * ((c \div 8) % 2) + 4 * ((c \div 4) % 2) + 2 * ((c \div 2) % 2) + (c % 2)
<1>1. c = 2 * (c \div 2) + (c % 2)
  OBVIOUS
<1>2. c \div 2 = 2 * (c \div 4) + ((c \div 2) % 2)
  OBVIOUS
<1>3. c \div 4 = 2 * (c \div 8) + ((c \div 4) % 2)
  OBVIOUS
<1>4. c \div 8 = 2 * (c \div 16) + ((c \div 8) % 2)
  OBVIOUS
<1>5. c \div 16 = 2 * (c \div 32) + ((c \div 16) % 2)
  OBVIOUS
<1>6. c \div 32 = 2 * (c \div 64) + ((c \div 32) % 2)
  OBVIOUS
<1>7. c \div 64 = 2 * (c \div 128) + ((c \div 64) % 2)
  OBVIOUS
<1>8. c \div 128 = (c \div 128) % 2
  OBVIOUS
<1> QED BY <1>1, <1>2, <1>3, <1>4, <1>5, <1>6, <1>7, <1>8

\* Codes that choose the same rows and have the same last bit are the same.
LEMMA RowsTell ==
  ASSUME NEW c \in Codes, NEW d \in Codes, \A r \in 0 .. 6 : r \in Rows(c) <=> r \in Rows(d), c % 2 = d % 2
  PROVE  c = d
<1> DEFINE C(p) == (c \div p) % 2
           D(p) == (d \div p) % 2
<1>1. \A p \in {2, 4, 8, 16, 32, 64, 128} : C(p) \in {0, 1} /\ D(p) \in {0, 1}
  BY DEF Codes
<1>2. /\ (C(128) = 1 <=> D(128) = 1) /\ (C(64) = 1 <=> D(64) = 1) /\ (C(32) = 1 <=> D(32) = 1)
      /\ (C(16) = 1 <=> D(16) = 1) /\ (C(8) = 1 <=> D(8) = 1) /\ (C(4) = 1 <=> D(4) = 1) /\ (C(2) = 1 <=> D(2) = 1)
  <2>1. /\ 0 \in Rows(c) <=> 0 \in Rows(d)
        /\ 1 \in Rows(c) <=> 1 \in Rows(d)
        /\ 2 \in Rows(c) <=> 2 \in Rows(d)
        /\ 3 \in Rows(c) <=> 3 \in Rows(d)
        /\ 4 \in Rows(c) <=> 4 \in Rows(d)
        /\ 5 \in Rows(c) <=> 5 \in Rows(d)
        /\ 6 \in Rows(c) <=> 6 \in Rows(d)
    OBVIOUS
  <2> QED BY <2>1, RowBits
<1>3. c = 128 * C(128) + 64 * C(64) + 32 * C(32) + 16 * C(16) + 8 * C(8) + 4 * C(4) + 2 * C(2) + (c % 2)
  BY Expansion DEF Codes
<1>4. d = 128 * D(128) + 64 * D(64) + 32 * D(32) + 16 * D(16) + 8 * D(8) + 4 * D(4) + 2 * D(2) + (d % 2)
  BY Expansion DEF Codes
<1> HIDE DEF C, D
<1>5. C(128) = D(128) /\ C(64) = D(64) /\ C(32) = D(32) /\ C(16) = D(16) /\ C(8) = D(8) /\ C(4) = D(4) /\ C(2) = D(2)
  BY <1>1, <1>2
<1>6. c \in Int /\ d \in Int
  BY DEF Codes
<1> QED BY <1>1, <1>3, <1>4, <1>5, <1>6

\* Equal bits at an even place come from columns of equal parity, and then equal bits
\* behind it from the same last bit.
LEMMA SameParity ==
  ASSUME NEW c \in Codes, NEW d \in Codes, NEW m \in Nat, m + m \in CodePlaces, m + m + 1 \in CodePlaces,
         pls_encode(c)[m + m] = pls_encode(d)[m + m]
  PROVE  /\ Parity2(Ones(c, m)) = 1 <=> Parity2(Ones(d, m)) = 1
         /\ pls_encode(c)[m + m + 1] = pls_encode(d)[m + m + 1] => c % 2 = d % 2
<1>1. PICK a \in Nat, b \in Nat : a = Cardinality(Ones(c, m)) /\ b = Cardinality(Ones(d, m))
  BY OnesFinite
<1>2. PICK s \in Bin, s1 \in Bin : s = pls_scram[m + m + 1] /\ s1 = pls_scram[m + m + 1 + 1]
  BY ScramBits
<1>3. (m + m) \div 2 = m /\ (m + m) % 2 = 0 /\ (m + m + 1) \div 2 = m /\ (m + m + 1) % 2 = 1
  OBVIOUS
<1>4. /\ pls_encode(c)[m + m] = (a + 0 * (c % 2) + s) % 2
      /\ pls_encode(d)[m + m] = (b + 0 * (d % 2) + s) % 2
      /\ pls_encode(c)[m + m + 1] = (a + 1 * (c % 2) + s1) % 2
      /\ pls_encode(d)[m + m + 1] = (b + 1 * (d % 2) + s1) % 2
  <2>1. PICK n \in CodePlaces, n1 \in CodePlaces : n = m + m /\ n1 = m + m + 1
    OBVIOUS
  <2>2. /\ pls_encode(c)[n] = (Cardinality(Ones(c, n \div 2)) + (n % 2) * (c % 2) + pls_scram[n + 1]) % 2
        /\ pls_encode(d)[n] = (Cardinality(Ones(d, n \div 2)) + (n % 2) * (d % 2) + pls_scram[n + 1]) % 2
        /\ pls_encode(c)[n1] = (Cardinality(Ones(c, n1 \div 2)) + (n1 % 2) * (c % 2) + pls_scram[n1 + 1]) % 2
        /\ pls_encode(d)[n1] = (Cardinality(Ones(d, n1 \div 2)) + (n1 % 2) * (d % 2) + pls_scram[n1 + 1]) % 2
    BY EncodedPlace
  <2> QED BY <1>1, <1>2, <1>3, <2>1, <2>2
<1>5. a % 2 = b % 2
  <2>1. 0 * (c % 2) = 0 /\ 0 * (d % 2) = 0
    BY DEF Codes
  <2>2. (a + 0 + s) % 2 = (b + 0 + s) % 2
    BY <1>4, <2>1
  <2> QED BY <2>2 DEF Bin
<1>6. Parity2(Ones(c, m)) = a % 2 /\ Parity2(Ones(d, m)) = b % 2
  BY <1>1 DEF Parity2
<1>7. ASSUME pls_encode(c)[m + m + 1] = pls_encode(d)[m + m + 1] PROVE c % 2 = d % 2
  <2>1. PICK x \in Bin, y \in Bin : x = c % 2 /\ y = d % 2
    BY <1>7 DEF Codes, Bin
  <2>2. (a + x + s1) % 2 = (b + y + s1) % 2
    <3>1. 1 * x = x /\ 1 * y = y
      BY DEF Bin
    <3> QED BY <1>4, <1>7, <2>1, <3>1
  <2>3. x = y
    BY <1>5, <2>2 DEF Bin
  <2> QED BY <2>1, <2>3
<1> QED BY <1>5, <1>6, <1>7

\* The words of two codes differ somewhere.
LEMMA WordsApart ==
  ASSUME NEW c \in Codes, NEW d \in Codes, c # d
  PROVE  \E n \in CodePlaces : pls_encode(c)[n] # pls_encode(d)[n]
<1> SUFFICES ASSUME \A n \in CodePlaces : pls_encode(c)[n] = pls_encode(d)[n] PROVE FALSE
  OBVIOUS
<1> DEFINE X == Rows(c)
           Y == Rows(d)
           Same(m) == Parity2(Ones(c, m)) = 1 <=> Parity2(Ones(d, m)) = 1
<1>1. ASSUME NEW m \in Nat, m <= 31 PROVE Same(m) /\ c % 2 = d % 2
  <2>1. m + m \in CodePlaces /\ m + m + 1 \in CodePlaces
    BY <1>1 DEF CodePlaces
  <2>2. pls_encode(c)[m + m] = pls_encode(d)[m + m] /\ pls_encode(c)[m + m + 1] = pls_encode(d)[m + m + 1]
    BY <2>1
  <2> QED BY <2>1, <2>2, SameParity
<1>2. c % 2 = d % 2 /\ Same(0) /\ Same(1) /\ Same(2) /\ Same(4) /\ Same(5) /\ Same(8) /\ Same(16)
  BY <1>1
<1>3. /\ Odd(0 \in X, 6 \in X) <=> Odd(0 \in Y, 6 \in Y)
      /\ Odd(1 \in X, 6 \in X) <=> Odd(1 \in Y, 6 \in Y)
      /\ Odd(2 \in X, 6 \in X) <=> Odd(2 \in Y, 6 \in Y)
      /\ Odd(3 \in X, 6 \in X) <=> Odd(3 \in Y, 6 \in Y)
      /\ Odd(Odd(1 \in X, 3 \in X), 6 \in X) <=> Odd(Odd(1 \in Y, 3 \in Y), 6 \in Y)
      /\ Odd(Odd(0 \in X, 4 \in X), 6 \in X) <=> Odd(Odd(0 \in Y, 4 \in Y), 6 \in Y)
      /\ Odd(5 \in X, 6 \in X) <=> Odd(5 \in Y, 6 \in Y)
  BY <1>2, ColumnParities
<1> HIDE DEF X, Y
<1>4. /\ 0 \in X <=> 0 \in Y
      /\ 1 \in X <=> 1 \in Y
      /\ 2 \in X <=> 2 \in Y
      /\ 3 \in X <=> 3 \in Y
      /\ 4 \in X <=> 4 \in Y
      /\ 5 \in X <=> 5 \in Y
      /\ 6 \in X <=> 6 \in Y
  BY <1>3 DEF Odd
<1>5. \A r \in 0 .. 6 : r \in X <=> r \in Y
  BY <1>4
<1>6. c = d
  BY <1>2, <1>5, RowsTell DEF X, Y
<1> QED BY <1>6

LEMMA WordBits ==
  ASSUME NEW code \in Codes, NEW n \in CodePlaces
  PROVE  pls_encode(code)[n] \in Bin
<1>1. PICK a \in Nat : a = Cardinality(Ones(code, n \div 2))
  BY OnesFinite
<1>2. PICK s \in Bin : s = pls_scram[n + 1]
  BY ScramBits
<1>3. PICK p \in Nat : p = (n % 2) * (code % 2)
  <2>1. PICK x \in Nat, y \in Nat : x = n % 2 /\ y = code % 2
    BY DEF Codes, CodePlaces
  <2>2. x * y \in Nat
    OBVIOUS
  <2> QED BY <2>1, <2>2
<1>4. pls_encode(code)[n] = (a + p + s) % 2
  BY <1>1, <1>2, <1>3, EncodedPlace
<1> QED BY <1>4 DEF Bin

\* Two bits on the diagonal of a place: in phase when they are the same, else opposite.
LEMMA Opposite ==
  ASSUME NEW k \in Int, NEW b \in Bin, NEW c \in Bin
  PROVE  /\ (ShiftedBpsk(k, b) - ShiftedBpsk(k, c)) % 4 = 0 <=> b = c
         /\ (ShiftedBpsk(k, b) - ShiftedBpsk(k, c)) % 4 = 2 <=> b # c
<1>1. PICK u \in Bin : u = k % 2
  BY DEF Bin
<1>2. ShiftedBpsk(k, b) = (u + 1 + 2 * b) % 4 /\ ShiftedBpsk(k, c) = (u + 1 + 2 * c) % 4
  BY <1>1 DEF ShiftedBpsk
<1>3. /\ (((u + 1 + 2 * b) % 4) - ((u + 1 + 2 * c) % 4)) % 4 = 0 <=> b = c
      /\ (((u + 1 + 2 * b) % 4) - ((u + 1 + 2 * c) % 4)) % 4 = 2 <=> b # c
  BY DEF Bin
<1> QED BY <1>2, <1>3

\* The word that was sent agrees at every place, and no other does.
LEMMA CodeRecovered ==
  ASSUME NEW h, NEW d \in Codes,
         \A n \in CodePlaces : h[26 + n] = ShiftedBpsk(26 + n, pls_encode(d)[n])
  PROVE  plheader_recover(h) = d % 128
<1> DEFINE apart(c, n) == (h[26 + n] - ShiftedBpsk(26 + n, Codewords[c][n])) % 4
           At(c, t) == {n \in CodePlaces : apart(c, n) = t}
           corr(c) == Cardinality(At(c, 0)) - Cardinality(At(c, 2))
           T == {<<corr(c), c>> : c \in Codes}
           f == [c \in Codes |-> corr(c)]
           Q(R) == (CHOOSE e \in R : \A g \in R : g[1] < e[1] \/ (g[1] = e[1] /\ e[2] <= g[2]))[2]
<1>1. plheader_recover(h) = Q(T) % 128
  BY DEF plheader_recover, FirstBest, DVBS2X_SOF_LEN, DVBS2X_PLSC_LEN, Codes, CodePlaces
<1>2. \A c \in Codes : Codewords[c] = pls_encode(c)
  BY DEF Codewords, Codes
<1>3. ASSUME NEW c \in Codes, NEW n \in CodePlaces
      PROVE  /\ apart(c, n) = 0 <=> pls_encode(c)[n] = pls_encode(d)[n]
             /\ apart(c, n) = 2 <=> pls_encode(c)[n] # pls_encode(d)[n]
  <2>1. PICK a \in Bin, b \in Bin : a = pls_encode(c)[n] /\ b = pls_encode(d)[n]
    BY WordBits
  <2>2. PICK k \in Int : k = 26 + n
    BY DEF CodePlaces
  <2>3. apart(c, n) = (ShiftedBpsk(k, b) - ShiftedBpsk(k, a)) % 4
    BY <1>2, <2>1, <2>2
  <2> HIDE DEF apart
  <2>4. /\ (ShiftedBpsk(k, b) - ShiftedBpsk(k, a)) % 4 = 0 <=> b = a
        /\ (ShiftedBpsk(k, b) - ShiftedBpsk(k, a)) % 4 = 2 <=> b # a
    BY Opposite
  <2> QED BY <2>1, <2>3, <2>4
<1>4. IsFiniteSet(CodePlaces) /\ Cardinality(CodePlaces) = 64
  <2>1. PICK a \in Int, b \in Int : a = 0 /\ b = 63
    OBVIOUS
  <2>2. IsFiniteSet(a .. b) /\ Cardinality(a .. b) = IF a > b THEN 0 ELSE b - a + 1
    BY FS_Interval
  <2>3. CodePlaces = a .. b
    BY <2>1 DEF CodePlaces
  <2> QED BY <2>1, <2>2, <2>3
<1> HIDE DEF apart
<1>5. \A c, t : At(c, t) \subseteq CodePlaces
  OBVIOUS
<1>6. \A c, t : IsFiniteSet(At(c, t)) /\ Cardinality(At(c, t)) \in Nat
  <2> HIDE DEF At
  <2> QED BY <1>4, <1>5, FS_Subset, FS_CardinalityType
<1>7. corr(d) = 64
  <2>1. At(d, 0) = CodePlaces /\ At(d, 2) = {}
    BY <1>3
  <2> HIDE DEF At
  <2>2. Cardinality(At(d, 0)) = 64 /\ Cardinality(At(d, 2)) = 0
    BY <2>1, <1>4, FS_EmptySet
  <2> QED BY <2>2
<1>8. ASSUME NEW c \in Codes PROVE corr(c) \in Int /\ (c # d => corr(c) < 64)
  <2>1. corr(c) \in Int
    <3> HIDE DEF At
    <3> QED BY <1>6
  <2>2. ASSUME c # d PROVE Cardinality(At(c, 0)) < 64
    <3>1. PICK n \in CodePlaces : pls_encode(c)[n] # pls_encode(d)[n]
      BY <2>2, WordsApart
    <3>2. n \notin At(c, 0)
      BY <1>3, <3>1
    <3>3. At(c, 0) \subseteq CodePlaces /\ At(c, 0) # CodePlaces
      BY <3>1, <3>2, <1>5
    <3> HIDE DEF At
    <3>4. /\ Cardinality(At(c, 0)) <= Cardinality(CodePlaces)
          /\ Cardinality(CodePlaces) = Cardinality(At(c, 0)) => CodePlaces = At(c, 0)
      BY <3>3, <1>4, FS_Subset
    <3>5. Cardinality(At(c, 0)) # Cardinality(CodePlaces)
      BY <3>3, <3>4, Zenon
    <3> QED BY <3>4, <3>5, <1>4, <1>6
  <2>3. Cardinality(At(c, 0)) \in Nat /\ Cardinality(At(c, 2)) \in Nat
    BY <1>6
  <2> HIDE DEF At
  <2> QED BY <2>1, <2>2, <2>3
<1>9. Q(T) = d
  <2>1. T = Scored(Codes, f)
    BY DEF Scored
  <2>2. BestOf(Codes, f) = Q(Scored(Codes, f))
    BY DEF BestOf, Before
  <2>3. \A c \in Codes : f[c] = corr(c)
    OBVIOUS
  <2> HIDE DEF f, corr, T, Q
  <2>4. Codes \subseteq Int
    BY DEF Codes
  <2>5. \A c \in Codes : f[c] \in Int
    BY <2>3, <1>8
  <2>6. \A c \in Codes : c # d => f[c] < f[d]
    BY <2>3, <1>7, <1>8
  <2>7. BestOf(Codes, f) = d
    BY <2>4, <2>5, <2>6, OnlyBest
  <2> QED BY <2>1, <2>2, <2>7, Zenon
<1> QED BY <1>1, <1>9

\* The code in front of the header, turned back by its first symbol.
LEMMA HeaderCode ==
  ASSUME NEW r \in Phases, mc \in Modcods
  PROVE  LET h == Turned(Headers0, r)
         IN /\ h[0] = r
            /\ plheader_recover(Turned(h, -h[0])) = pls_code % 128
<1> DEFINE h == Turned(Headers0, r)
           g == Turned(h, -r)
<1>1. pls_code \in Codes /\ pls_code >= 128
  BY DEF pls_code, Codes
<1>2. \A k \in Symbols : k < 90 => Headers0[k] = plheader_generate(pls_code)[k]
  BY HeaderPlaces
<1>3. DOMAIN Headers0 = Symbols /\ 0 \in Symbols
  <2>1. 0 \in Symbols
    BY DEF Symbols
  <2> QED BY <2>1, HeaderPlaces
<1>4. h[0] = r
  <2>1. plheader_generate(pls_code)[0] = 0
    BY DEF plheader_generate, DVBS2X_PLHEADER_LEN, DVBS2X_SOF_LEN, DVBS2X_PLSC_LEN, PiHalfBpsk, sof_sequence
  <2>2. Headers0[0] = 0
    BY <1>2, <1>3, <2>1
  <2>3. h[0] = (0 + r) % 4
    BY <1>3, <2>2, TurnedEach
  <2> QED BY <2>3 DEF Phases
<1>5. ASSUME NEW n \in CodePlaces PROVE g[26 + n] = ShiftedBpsk(26 + n, pls_encode(pls_code)[n])
  <2>1. PICK k \in Symbols : k = 26 + n /\ k >= 26 /\ k < 90
    BY DEF Symbols, CodePlaces
  <2>2. PICK b \in Bin : b = pls_encode(pls_code)[n]
    BY <1>1, WordBits
  <2>3. plheader_generate(pls_code)[k] = ShiftedBpsk(k, b)
    <3> DEFINE V(j) == IF j < 26 THEN PiHalfBpsk(j, sof_sequence[j + 1])
                       ELSE IF pls_code >= 128 THEN ShiftedBpsk(j, pls_encode(pls_code)[j - 26])
                       ELSE PiHalfBpsk(j, pls_encode(pls_code)[j - 26])
               K == 0 .. 89
    <3>1. plheader_generate(pls_code) = [j \in K |-> V(j)]
      BY DEF plheader_generate, DVBS2X_PLHEADER_LEN, DVBS2X_SOF_LEN, DVBS2X_PLSC_LEN
    <3>2. k \in K /\ k - 26 = n
      BY <2>1 DEF CodePlaces
    <3> HIDE DEF V, K
    <3>3. plheader_generate(pls_code)[k] = V(k)
      BY <3>1, <3>2, Zenon
    <3>4. V(k) = ShiftedBpsk(k, pls_encode(pls_code)[k - 26])
      <4>1. k \in Int /\ ~ (k < 26)
        BY <2>1 DEF Symbols
      <4> QED BY <1>1, <4>1 DEF V
    <3> QED BY <3>2, <3>3, <3>4, <2>2
  <2>4. PICK q \in Phases : q = ShiftedBpsk(k, b)
    <3>1. k \in Int /\ b \in Int
      BY DEF Symbols, Bin
    <3> QED BY <3>1 DEF ShiftedBpsk, Phases
  <2>5. Headers0[k] = q
    BY <1>2, <2>1, <2>3, <2>4
  <2>6. DOMAIN h = DOMAIN Headers0 /\ h[k] = (q + r) % 4
    BY <1>3, <2>5, TurnedEach
  <2>7. g[k] = (((q + r) % 4) + (-r)) % 4
    <3> HIDE DEF h
    <3>1. g[k] = (h[k] + (-r)) % 4
      BY <2>6, <1>3, TurnedEach
    <3> QED BY <3>1, <2>6
  <2>8. (((q + r) % 4) + (-r)) % 4 = q
    BY DEF Phases
  <2> HIDE DEF g
  <2> QED BY <2>1, <2>2, <2>4, <2>7, <2>8
<1> HIDE DEF g
<1>6. plheader_recover(g) = pls_code % 128
  BY <1>1, <1>5, CodeRecovered
<1>7. plheader_recover(Turned(h, -r)) = pls_code % 128
  BY <1>6 DEF g
<1> HIDE DEF h
<1>8. Turned(h, -h[0]) = Turned(h, -r)
  BY <1>4
<1> QED BY <1>4, <1>7, <1>8 DEF h

-----------------------------------------------------------------------------
(* Every header is found *)

Found == [conf |-> 100, wh_start |-> WhStart, modcod_idx |-> mc]

\* Between its sending and the next frame the header is the one of the MODCOD, turned;
\* and a search that found something found it.
HeaderInv ==
  /\ mc \in Modcods
  /\ step # "idle" => \E r \in Phases : header = Turned(Headers0, r)
  /\ found # None => found = Found

LEMMA HeaderInit == PlInit => HeaderInv
BY IndicesAssumption DEF PlInit, Init, FieldInit, HeaderInv, Modcods

\* The MODCOD does not change, and with it neither do the headers.
LEMMA ModcodStays ==
  ASSUME [PlNext]_<<vars, plVars>>
  PROVE  mc' = mc /\ row' = row /\ Headers0' = Headers0 /\ Found' = Found
<1>1. mc' = mc
  BY DEF PlNext, Next, FieldNext, Encode, Punctured, Copied, BeginLayout, Slot, Assemble, vars
<1> QED BY <1>1 DEF row, Headers0, pls_code, Found, WhStart

LEMMA HeaderNext == HeaderInv /\ [PlNext]_<<vars, plVars>> => HeaderInv'
<1> SUFFICES ASSUME HeaderInv, [PlNext]_<<vars, plVars>> PROVE HeaderInv'
  OBVIOUS
<1>1. mc' = mc /\ Headers0' = Headers0 /\ Found' = Found
  BY ModcodStays
<1>2. mc \in Modcods /\ mc' \in Modcods
  BY <1>1 DEF HeaderInv
<1>3. ASSUME UNCHANGED <<step, header, found>> PROVE HeaderInv'
  BY <1>1, <1>2, <1>3 DEF HeaderInv
<1>4. CASE UNCHANGED plVars
  BY <1>3, <1>4 DEF plVars
<1>5. CASE SendHeaders
  <2>1. PICK r \in Turns : header' = Turned(Headers0, r)
    BY <1>5 DEF SendHeaders
  <2>2. r \in Phases
    BY SearchAssumption DEF Phases
  <2>3. header' = Turned(Headers0', r)
    BY <2>1, <1>1
  <2>4. found' = found
    BY <1>5 DEF SendHeaders
  <2> QED BY <1>1, <1>2, <2>2, <2>3, <2>4 DEF HeaderInv
<1>6. CASE Synchronise
  <2>1. step = "headers" /\ header' = header /\ found' = header_sync(header, SearchedAt)
    BY <1>6 DEF Synchronise, SearchedAt
  <2>2. PICK r \in Phases : header = Turned(Headers0, r)
    BY <2>1 DEF HeaderInv
  <2>3. found' = Found
    BY <1>2, <2>1, <2>2, SearchAssumption, SearchFinds DEF Found
  <2>4. header' = Turned(Headers0', r)
    BY <2>1, <2>2, <1>1
  <2> QED BY <1>1, <1>2, <2>2, <2>3, <2>4 DEF HeaderInv
<1>7. ASSUME step # "idle", UNCHANGED <<header, found>> PROVE HeaderInv'
  BY <1>1, <1>2, <1>7 DEF HeaderInv
<1>8. CASE Miss
  BY <1>7, <1>8 DEF Miss
<1>9. CASE \E map \in Maps : SendField(map)
  BY <1>7, <1>9 DEF SendField
<1>10. CASE Descramble
  BY <1>7, <1>10 DEF Descramble
<1>11. CASE Track
  BY <1>7, <1>11 DEF Track
<1>12. CASE Demap
  BY <1>7, <1>12 DEF Demap
<1>13. CASE NextFrame
  <2>1. step' = "idle" /\ found' = None
    BY <1>13 DEF NextFrame
  <2>2. None' = None
    BY DEF None
  <2> QED BY <1>2, <2>1, <2>2 DEF HeaderInv
<1> QED BY <1>4, <1>5, <1>6, <1>8, <1>9, <1>10, <1>11, <1>12, <1>13 DEF PlNext, FieldNext

LEMMA HeaderRight == HeaderInv => HeaderSaysModcod
<1> SUFFICES ASSUME HeaderInv PROVE HeaderSaysModcod
  OBVIOUS
<1>1. ASSUME step = "headers" PROVE plheader_recover(Turned(header, -AirTurn)) = pls_code % 128
  <2>1. PICK r \in Phases : header = Turned(Headers0, r)
    BY <1>1 DEF HeaderInv
  <2>2. mc \in Modcods
    BY DEF HeaderInv
  <2> QED BY <2>1, <2>2, HeaderCode DEF AirTurn
<1>2. ASSUME found # None PROVE found.wh_start = WhStart /\ found.modcod_idx = mc /\ found.conf >= 45
  BY <1>2 DEF HeaderInv, Found
<1> QED BY <1>1, <1>2 DEF HeaderSaysModcod

\* Every header is found where it is and taken for its MODCOD, and the code in front of
\* it for its own, for every MODCOD, turn and place of the search.
THEOREM HeadersAreRecognised == PlSpec => []HeaderSaysModcod
<1>1. PlSpec => []HeaderInv
  BY HeaderInit, HeaderNext, PTL DEF PlSpec
<1> QED BY <1>1, HeaderRight, PTL

-----------------------------------------------------------------------------
(* The data field *)

FieldPlaces == 0 .. FieldLen - 1

\* Counting the data before a place goes up by one with each data symbol.
LEMMA DataBeforeStep ==
  ASSUME NEW map, NEW k \in Nat
  PROVE  /\ DataBefore(map, k) \in Nat /\ DataBefore(map, 0) = 0
         /\ DataBefore(map, k + 1) = IF k \in map THEN DataBefore(map, k) ELSE DataBefore(map, k) + 1
<1> DEFINE S(j) == (0 .. j - 1) \ map
<1>1. \A a \in Int, b \in Int : IsFiniteSet(a .. b)
  BY FS_Interval
<1>2. ASSUME NEW j \in Nat PROVE IsFiniteSet(S(j)) /\ Cardinality(S(j)) \in Nat
  <2>1. IsFiniteSet(0 .. j - 1) /\ S(j) \subseteq 0 .. j - 1
    BY <1>1
  <2> QED BY <2>1, FS_Subset, FS_CardinalityType
<1>3. S(0) = {}
  OBVIOUS
<1>4. CASE k \in map
  <2>1. S(k + 1) = S(k)
    BY <1>4
  <2> HIDE DEF S
  <2>2. Cardinality(S(k + 1)) = Cardinality(S(k))
    BY <2>1, Zenon
  <2>3. Cardinality(S(0)) = 0
    BY <1>3, FS_EmptySet, Zenon
  <2> QED BY <1>2, <1>4, <2>2, <2>3 DEF S, DataBefore
<1>5. CASE k \notin map
  <2>1. S(k + 1) = S(k) \cup {k} /\ k \notin S(k)
    BY <1>5
  <2> HIDE DEF S
  <2>2. Cardinality(S(k) \cup {k}) = Cardinality(S(k)) + 1
    BY <2>1, <1>2, FS_AddElement
  <2>3. Cardinality(S(k + 1)) = Cardinality(S(k)) + 1
    BY <2>1, <2>2, Zenon
  <2>4. Cardinality(S(0)) = 0
    BY <1>3, FS_EmptySet, Zenon
  <2> QED BY <1>2, <1>5, <2>3, <2>4 DEF S, DataBefore
<1> QED BY <1>4, <1>5

\* The whole field has all the data.
LEMMA DataOfField ==
  ASSUME NEW map, map \subseteq FieldPlaces
  PROVE  /\ Cardinality(map) \in Nat
         /\ DataBefore(map, FieldLen) = FieldLen - Cardinality(map)
<1>1. FieldLen \in Nat
  BY FieldAssumption
<1>2. IsFiniteSet(FieldPlaces) /\ Cardinality(FieldPlaces) = FieldLen
  <2>1. PICK a \in Int, b \in Int : a = 0 /\ b = FieldLen - 1
    BY <1>1
  <2>2. IsFiniteSet(a .. b) /\ Cardinality(a .. b) = IF a > b THEN 0 ELSE b - a + 1
    BY FS_Interval
  <2>3. (IF a > b THEN 0 ELSE b - a + 1) = FieldLen
    BY <1>1, <2>1
  <2> QED BY <2>1, <2>2, <2>3 DEF FieldPlaces
<1>3. IsFiniteSet(map) /\ Cardinality(map) \in Nat
  BY <1>2, FS_Subset, FS_CardinalityType
<1>4. Cardinality(FieldPlaces \ map) = Cardinality(FieldPlaces) - Cardinality(FieldPlaces \cap map)
  BY <1>2, FS_Difference
<1>5. FieldPlaces \cap map = map
  OBVIOUS
<1>6. Cardinality(FieldPlaces \cap map) = Cardinality(map)
  BY <1>5, Zenon
<1>7. DataBefore(map, FieldLen) = Cardinality(FieldPlaces \ map)
  BY DEF DataBefore, FieldPlaces
<1> QED BY <1>2, <1>3, <1>4, <1>6, <1>7

\* Each data symbol has a place.
LEMMA DataHasPlace ==
  ASSUME NEW map, map \subseteq FieldPlaces, NEW n \in Nat, n < FieldLen - Cardinality(map)
  PROVE  \E k \in FieldPlaces : k \notin map /\ DataBefore(map, k) = n
<1> DEFINE T == {k \in Nat : DataBefore(map, k) > n}
<1>1. FieldLen \in Nat
  BY FieldAssumption
<1>2. FieldLen \in T
  BY <1>1, DataOfField
<1>3. PICK k \in T : \A j \in T : k <= j
  <2>1. T \in SUBSET Nat /\ T # {}
    BY <1>2
  <2> HIDE DEF T
  <2> QED BY <2>1, Least
<1>4. \A j \in Nat : DataBefore(map, j) \in Nat
  BY DataBeforeStep
<1>5. k \in Nat /\ DataBefore(map, k) > n /\ k <= FieldLen /\ DataBefore(map, 0) = 0
  BY <1>2, <1>3, DataBeforeStep
<1>6. k # 0
  BY <1>5
<1>7. PICK j \in Nat : k = j + 1
  <2>1. k - 1 \in Nat /\ k = (k - 1) + 1
    BY <1>5, <1>6
  <2> QED BY <2>1
<1>8. DataBefore(map, j) <= n
  <2>1. ~ (j \in T)
    BY <1>3, <1>7
  <2> QED BY <2>1, <1>4
<1>9. DataBefore(map, k) = IF j \in map THEN DataBefore(map, j) ELSE DataBefore(map, j) + 1
  BY <1>7, DataBeforeStep
<1>10. j \notin map /\ DataBefore(map, j) = n
  BY <1>4, <1>5, <1>8, <1>9
<1>11. j \in FieldPlaces
  BY <1>1, <1>5, <1>7 DEF FieldPlaces
<1> QED BY <1>10, <1>11

\* The scrambler turns by quarters.
LEMMA QuartersTurn == \A scr, p : Quarters(Rn(scr), p) \in Phases
<1>1. ASSUME NEW S, NEW T, T \subseteq 0 .. 17 PROVE Parity2(S \cap T) \in Bin
  <2>1. \A a \in Int, b \in Int : IsFiniteSet(a .. b)
    BY FS_Interval
  <2>2. PICK a \in Int, b \in Int : a = 0 /\ b = 17
    OBVIOUS
  <2>3. IsFiniteSet(a .. b)
    BY <2>1
  <2>4. S \cap T \subseteq a .. b
    BY <1>1, <2>2
  <2>5. Cardinality(S \cap T) \in Nat
    BY <2>3, <2>4, FS_Subset, FS_CardinalityType
  <2> QED BY <2>5 DEF Parity2, Bin
<1>2. ASSUME NEW scr, NEW p PROVE Quarters(Rn(scr), p) \in Phases
  <2>1. /\ {4, 6, 15} \subseteq 0 .. 17 /\ {0} \subseteq 0 .. 17
        /\ {5, 6, 8, 9, 10, 11, 12, 13, 14, 15} \subseteq 0 .. 17
    OBVIOUS
  <2>2. PICK a \in Bin, b \in Bin, c \in Bin, d \in Bin :
          /\ a = Parity2(scr.x \cap {4, 6, 15})
          /\ b = Parity2(scr.y \cap {5, 6, 8, 9, 10, 11, 12, 13, 14, 15})
          /\ c = Parity2(scr.x \cap {0}) /\ d = Parity2(scr.y \cap {0})
    BY <1>1, <2>1
  <2>3. Rn(scr) = 2 * ((a + b) % 2) + ((c + d) % 2)
    BY <2>2 DEF Rn
  <2>4. 2 * ((a + b) % 2) + ((c + d) % 2) \in Phases
    BY DEF Bin, Phases
  <2> HIDE DEF Rn
  <2>5. PICK q \in Phases : q = Rn(scr)
    BY <2>3, <2>4
  <2>6. 2 * (q % 2) \in Phases
    BY DEF Phases
  <2>7. Quarters(q, p) \in Phases
    BY <2>6 DEF Quarters
  <2> QED BY <2>5, <2>7
<1> QED BY <1>2

LEMMA TurnedBack ==
  ASSUME NEW s \in Phases, NEW q \in Phases, NEW a \in Phases
  PROVE  /\ (((((s + 1 * q) % 4) + a) % 4) + (-1) * q) % 4 = (s + a) % 4
         /\ (((s + a) % 4) + (-a)) % 4 = s
         /\ (((0 + a) % 4) - 0) % 4 = a
BY DEF Phases

\* What is sent at place n of the field, before it is scrambled, and by how much that
\* turns it.
Point(n) == IF n \in is_pilot THEN PilotPoint ELSE Mapped(bits, DataBefore(is_pilot, n))
Scrambling(n) == Quarters(Rn(Seek(AtDataField, n)), n \in is_pilot)

Decided == \A k \in DOMAIN bits : IF bits[k] = 0 THEN llr[k] > 0 ELSE llr[k] < 0

\* Each step takes from the field what one of the sender's put on it.  A spread
\* symbol at the end of a field may be without a bit: nothing is said of it.
FieldInv ==
  /\ step \in {"found", "received", "descrambled", "tracked"} => found = Found
  /\ step \in {"received", "descrambled", "tracked"} =>
       /\ is_pilot \in Maps /\ bits \in [0 .. NumBits(is_pilot) - 1 -> {0, 1}]
       /\ DOMAIN field = FieldPlaces
  /\ step = "received" =>
       \A n \in FieldPlaces :
         Point(n) \in Phases => field[n] = (((Point(n) + 1 * Scrambling(n)) % 4) + AirTurn) % 4
  /\ step = "descrambled" =>
       \A n \in FieldPlaces : Point(n) \in Phases => field[n] = (Point(n) + AirTurn) % 4
  /\ step = "tracked" => \A n \in FieldPlaces : Point(n) \in Phases => field[n] = Point(n)
  /\ step = "done" => Decided
  /\ step # "astray"

\* While the field is worked on, what was sent stays.
LEMMA PointStays ==
  ASSUME [PlNext]_<<vars, plVars>>, UNCHANGED <<is_pilot, bits>>
  PROVE  /\ \A n : Point(n)' = Point(n) /\ Scrambling(n)' = Scrambling(n)
         /\ NumBits(is_pilot)' = NumBits(is_pilot)
<1>1. row' = row
  BY ModcodStays
<1> QED BY <1>1 DEF Point, Scrambling, Mapped, Quarters, NumBits

LEMMA FieldStart == PlInit => FieldInv
BY DEF PlInit, FieldInit, FieldInv

\* The header's phase is what the air turned.
LEMMA PhaseIsTurn ==
  ASSUME HeaderInv, step # "idle", found = Found
  PROVE  /\ AirTurn \in Phases
         /\ (CHOOSE r \in 0 .. 3 : \A n \in 0 .. DVBS2X_VLSNR_WH_LEN - 1 :
               Ahead(header, found.wh_start, found.modcod_idx, n) = r) = AirTurn
<1>1. PICK r \in Phases : header = Turned(Headers0, r)
  BY DEF HeaderInv
<1>2. mc \in Modcods
  BY DEF HeaderInv
<1>3. header[0] = r
  BY <1>1, <1>2, HeaderCode
<1>4. found.wh_start = WhStart /\ found.modcod_idx = mc
  BY DEF Found
<1> DEFINE A(n) == Ahead(header, found.wh_start, found.modcod_idx, n)
           P(q) == \A n \in Chips : A(n) = q
<1>5. P(r)
  BY <1>1, <1>2, <1>4, OwnAhead
<1>6. \A q : P(q) => q = r
  <2>1. 0 \in Chips
    BY DEF Chips
  <2> HIDE DEF A
  <2> QED BY <2>1, <1>5
<1>7. 0 .. 3 = Phases /\ 0 .. DVBS2X_VLSNR_WH_LEN - 1 = Chips
  BY DEF Phases, Chips, DVBS2X_VLSNR_WH_LEN
<1> DEFINE phase == CHOOSE q \in Phases : P(q)
<1>8. (CHOOSE q \in 0 .. 3 : \A n \in 0 .. DVBS2X_VLSNR_WH_LEN - 1 : A(n) = q) = phase
  BY DEF Phases, Chips, DVBS2X_VLSNR_WH_LEN
<1> HIDE DEF P, A
<1>9. phase = r
  BY <1>5, <1>6
<1> HIDE DEF phase
<1> QED BY <1>3, <1>8, <1>9 DEF AirTurn, A

\* The sender puts each point on its place, and scrambles and turns it.
LEMMA FieldSent ==
  ASSUME HeaderInv, FieldInv, NEW map \in Maps, SendField(map), [PlNext]_<<vars, plVars>>
  PROVE  FieldInv'
<1>1. step \in {"found", "missed"}
  BY DEF SendField
<1>2. step' = IF step = "found" THEN "received" ELSE "lost"
  BY DEF SendField
<1>3. CASE step = "missed"
  BY <1>2, <1>3 DEF FieldInv
<1>4. CASE step = "found"
  <2>1. /\ step' = "received" /\ is_pilot' = map /\ bits' \in [0 .. NumBits(map) - 1 -> {0, 1}]
        /\ field' = Turned(Rotated(Inserted(bits', map), map, AtDataField, 1), AirTurn)
        /\ header' = header /\ found' = found
    BY <1>4 DEF SendField
  <2>2. row' = row /\ Found' = Found
    BY ModcodStays
  <2>3. found' = Found'
    BY <1>4, <2>1, <2>2 DEF FieldInv
  <2>4. NumBits(is_pilot)' = NumBits(map)
    BY <2>1, <2>2 DEF NumBits
  <2> DEFINE b == bits'
             R == Rotated(Inserted(b, map), map, AtDataField, 1)
  <2>5. ASSUME NEW n \in FieldPlaces
        PROVE  /\ DOMAIN R = FieldPlaces
               /\ R[n] = (Point(n)' + 1 * Scrambling(n)') % 4
    <3> DEFINE I(k) == IF k \in map THEN PilotPoint ELSE Mapped(b, DataBefore(map, k))
               S(k) == Quarters(Rn(Seek(AtDataField, k)), k \in map)
    <3>1. I(n) = Point(n)' /\ S(n) = Scrambling(n)'
      BY <2>1, <2>2 DEF Point, Scrambling, Mapped, Quarters
    <3>2. Inserted(b, map) = [k \in FieldPlaces |-> I(k)]
      BY DEF Inserted, FieldPlaces
    <3> HIDE DEF I, S
    <3>3. Inserted(b, map)[n] = I(n)
      BY <3>2
    <3> DEFINE V(k) == (Inserted(b, map)[k] + 1 * S(k)) % 4
    <3>4. R = [k \in FieldPlaces |-> V(k)]
      BY DEF Rotated, FieldPlaces, S
    <3> HIDE DEF V, R
    <3>5. DOMAIN R = FieldPlaces /\ R[n] = V(n)
      BY <3>4
    <3> QED BY <3>1, <3>3, <3>5 DEF V
  <2>6. DOMAIN R = FieldPlaces
    BY DEF Rotated, FieldPlaces
  <2>7. field' = Turned(R, AirTurn)
    BY <2>1
  <2> HIDE DEF R
  <2>8. DOMAIN field' = FieldPlaces
    BY <2>6, <2>7 DEF Turned
  <2>9. ASSUME NEW n \in FieldPlaces
        PROVE  field'[n] = (((Point(n)' + 1 * Scrambling(n)') % 4) + AirTurn') % 4
    <3>1. field'[n] = (R[n] + AirTurn) % 4
      BY <2>6, <2>7, TurnedEach
    <3>2. AirTurn' = AirTurn
      BY <2>1 DEF AirTurn
    <3> QED BY <2>5, <3>1, <3>2
  <2> QED BY <2>1, <2>3, <2>4, <2>8, <2>9 DEF FieldInv
<1> QED BY <1>1, <1>3, <1>4

LEMMA RotatedEach ==
  ASSUME NEW symbols, NEW map, NEW scr, NEW sign, NEW n \in FieldPlaces
  PROVE  /\ DOMAIN Rotated(symbols, map, scr, sign) = FieldPlaces
         /\ Rotated(symbols, map, scr, sign)[n]
              = (symbols[n] + sign * Quarters(Rn(Seek(scr, n)), n \in map)) % 4
<1> DEFINE V(k) == (symbols[k] + sign * Quarters(Rn(Seek(scr, k)), k \in map)) % 4
           R == Rotated(symbols, map, scr, sign)
<1>1. R = [k \in FieldPlaces |-> V(k)]
  BY DEF Rotated, FieldPlaces
<1> HIDE DEF V, R
<1>2. DOMAIN R = FieldPlaces /\ R[n] = V(n)
  BY <1>1
<1> QED BY <1>2 DEF V, R

\* The receiver takes the scrambling from each place.
LEMMA FieldDescrambled ==
  ASSUME HeaderInv, FieldInv, Descramble, [PlNext]_<<vars, plVars>>
  PROVE  FieldInv'
<1>1. /\ step = "received" /\ step' = "descrambled"
      /\ field' = Rotated(field, is_pilot, AtDataField, -1)
      /\ is_pilot' = is_pilot /\ bits' = bits /\ header' = header /\ found' = found
  BY DEF Descramble
<1>2. found = Found /\ found' = Found' /\ NumBits(is_pilot)' = NumBits(is_pilot)
  BY <1>1, ModcodStays, PointStays DEF FieldInv
<1>3. AirTurn \in Phases /\ AirTurn' = AirTurn
  BY <1>1, <1>2, PhaseIsTurn DEF AirTurn
<1>4. \A n : Point(n)' = Point(n)
  BY <1>1, PointStays
<1> DEFINE R == Rotated(field, is_pilot, AtDataField, -1)
<1>5. ASSUME NEW n \in FieldPlaces
      PROVE  DOMAIN R = FieldPlaces /\ R[n] = (field[n] + (-1) * Scrambling(n)) % 4
  BY RotatedEach DEF Scrambling
<1>6. DOMAIN R = FieldPlaces
  BY DEF Rotated, FieldPlaces
<1>7. field' = R
  BY <1>1
<1> HIDE DEF R
<1>8. ASSUME NEW n \in FieldPlaces, Point(n) \in Phases
      PROVE  R[n] = (Point(n) + AirTurn) % 4
  <2>1. Scrambling(n) \in Phases
    BY QuartersTurn DEF Scrambling
  <2>2. field[n] = (((Point(n) + 1 * Scrambling(n)) % 4) + AirTurn) % 4
    BY <1>1, <1>8 DEF FieldInv
  <2>3. R[n] = (field[n] + (-1) * Scrambling(n)) % 4
    BY <1>5
  <2> QED BY <1>3, <1>8, <2>1, <2>2, <2>3, TurnedBack
<1>9. \A n \in FieldPlaces : Point(n)' \in Phases => field'[n] = (Point(n)' + AirTurn') % 4
  BY <1>3, <1>4, <1>7, <1>8
<1>10. /\ is_pilot' \in Maps /\ bits' \in [0 .. NumBits(is_pilot)' - 1 -> {0, 1}]
       /\ DOMAIN field' = FieldPlaces
  BY <1>1, <1>2, <1>6, <1>7 DEF FieldInv
<1> QED BY <1>1, <1>2, <1>9, <1>10 DEF FieldInv

\* All pilots agree with the header, and the field is turned back.
LEMMA FieldTracked ==
  ASSUME HeaderInv, FieldInv, Track, [PlNext]_<<vars, plVars>>
  PROVE  FieldInv'
<1>1. /\ step = "descrambled"
      /\ is_pilot' = is_pilot /\ bits' = bits /\ header' = header /\ found' = found
  BY DEF Track
<1>2. found = Found /\ found' = Found' /\ NumBits(is_pilot)' = NumBits(is_pilot)
  BY <1>1, ModcodStays, PointStays DEF FieldInv
<1>3. AirTurn \in Phases
  BY <1>1, <1>2, PhaseIsTurn
<1>4. \A n : Point(n)' = Point(n)
  BY <1>1, PointStays
<1>5. is_pilot \in Maps /\ is_pilot \subseteq FieldPlaces /\ DOMAIN field = FieldPlaces
  BY <1>1, FieldAssumption DEF FieldInv, FieldPlaces
<1>6. ASSUME NEW n \in is_pilot PROVE (field[n] - PilotPoint) % 4 = AirTurn
  <2>1. Point(n) = 0 /\ 0 \in Phases /\ PilotPoint = 0
    BY DEF Point, PilotPoint, Phases
  <2>2. field[n] = (Point(n) + AirTurn) % 4
    BY <1>1, <1>5, <2>1 DEF FieldInv
  <2> QED BY <1>3, <2>1, <2>2, TurnedBack
<1>7. step' = "tracked" /\ field' = Turned(field, -AirTurn)
  <2> DEFINE phase == CHOOSE r \in 0 .. 3 : \A n \in 0 .. DVBS2X_VLSNR_WH_LEN - 1 :
                          Ahead(header, found.wh_start, found.modcod_idx, n) = r
  <2>1. IF \A n \in is_pilot : (field[n] - PilotPoint) % 4 = phase
        THEN step' = "tracked" /\ field' = Turned(field, -phase)
        ELSE step' = "astray" /\ UNCHANGED field
    BY DEF Track
  <2>2. phase = AirTurn
    BY <1>1, <1>2, PhaseIsTurn
  <2> HIDE DEF phase
  <2> QED BY <1>6, <2>1, <2>2
<1>8. DOMAIN field' = FieldPlaces
  BY <1>5, <1>7 DEF Turned
<1>9. ASSUME NEW n \in FieldPlaces, Point(n) \in Phases PROVE field'[n] = Point(n)
  <2>1. field[n] = (Point(n) + AirTurn) % 4
    BY <1>1, <1>9 DEF FieldInv
  <2>2. field'[n] = (field[n] + (-AirTurn)) % 4
    BY <1>5, <1>7, TurnedEach
  <2> QED BY <1>3, <1>9, <2>1, <2>2, TurnedBack
<1>10. \A n \in FieldPlaces : Point(n)' \in Phases => field'[n] = Point(n)'
  BY <1>4, <1>9
<1>11. is_pilot' \in Maps /\ bits' \in [0 .. NumBits(is_pilot)' - 1 -> {0, 1}]
  BY <1>1, <1>2 DEF FieldInv
<1> QED BY <1>1, <1>2, <1>7, <1>8, <1>10, <1>11 DEF FieldInv

\* Data symbol n is found again between the pilots.
LEMMA ExtractedIs ==
  ASSUME FieldInv, step = "tracked", NEW n \in Nat, n < FieldLen - Cardinality(is_pilot),
         Mapped(bits, n) \in Phases
  PROVE  Extracted(n) = Mapped(bits, n)
<1> DEFINE place == CHOOSE k \in FieldPlaces : k \notin is_pilot /\ DataBefore(is_pilot, k) = n
<1>1. is_pilot \subseteq FieldPlaces
  BY FieldAssumption DEF FieldInv, FieldPlaces
<1>2. \E k \in FieldPlaces : k \notin is_pilot /\ DataBefore(is_pilot, k) = n
  BY <1>1, DataHasPlace
<1>3. place \in FieldPlaces /\ place \notin is_pilot /\ DataBefore(is_pilot, place) = n
  BY <1>2
<1>4. Extracted(n) = field[place]
  BY DEF Extracted, FieldPlaces
<1> HIDE DEF place
<1>5. Point(place) = Mapped(bits, n)
  BY <1>3 DEF Point
<1>6. field[place] = Point(place)
  BY <1>3, <1>5 DEF FieldInv
<1> QED BY <1>4, <1>5, <1>6

\* A diagonal, turned back, tells its bit.
LEMMA DiagonalOfBit ==
  ASSUME NEW n \in Nat, NEW b \in {0, 1}
  PROVE  PiHalfBpsk(n, b) \in Phases /\ (PiHalfBpsk(n, b) - (n % 2)) % 4 = 2 * b
<1>1. PICK u \in {0, 1} : u = n % 2
  OBVIOUS
<1>2. PiHalfBpsk(n, b) = (u + 2 * b) % 4
  BY <1>1 DEF PiHalfBpsk
<1>3. (u + 2 * b) % 4 \in Phases /\ (((u + 2 * b) % 4) - u) % 4 = 2 * b
  BY DEF Phases
<1> QED BY <1>1, <1>2, <1>3

LEMMA BpskBack ==
  ASSUME FieldInv, step = "tracked", NEW n \in Nat, n < FieldLen - Cardinality(is_pilot),
         row.mod # "QPSK", NEW b \in {0, 1}, b = bits[IF row.has_spread THEN n \div 2 ELSE n]
  PROVE  DemapPi2bpsk(n) = IF b = 0 THEN 1 ELSE -1
<1>1. Mapped(bits, n) = PiHalfBpsk(n, b)
  BY DEF Mapped
<1>2. PiHalfBpsk(n, b) \in Phases /\ (PiHalfBpsk(n, b) - (n % 2)) % 4 = 2 * b
  BY DiagonalOfBit
<1>3. Extracted(n) = PiHalfBpsk(n, b)
  BY <1>1, <1>2, ExtractedIs
<1>4. (Extracted(n) - (n % 2)) % 4 = 2 * b
  BY <1>2, <1>3
<1> QED BY <1>4 DEF DemapPi2bpsk

LEMMA QpskBack ==
  ASSUME FieldInv, step = "tracked", NEW n \in Nat, n < FieldLen - Cardinality(is_pilot),
         row.mod = "QPSK", bits[2 * n] \in {0, 1}, bits[2 * n + 1] \in {0, 1}
  PROVE  /\ Extracted(n) \in {0, 3} <=> bits[2 * n] = 0
         /\ Extracted(n) \in {0, 1} <=> bits[2 * n + 1] = 0
<1> DEFINE a == bits[2 * n]
           c == bits[2 * n + 1]
           m == CASE a = 0 /\ c = 0 -> 0 [] a = 1 /\ c = 0 -> 1 [] a = 1 /\ c = 1 -> 2 [] a = 0 /\ c = 1 -> 3
<1>1. Mapped(bits, n) = m
  BY DEF Mapped
<1>2. a \in {0, 1} /\ c \in {0, 1}
  OBVIOUS
<1> HIDE DEF a, c
<1>3. m \in Phases /\ (m \in {0, 3} <=> a = 0) /\ (m \in {0, 1} <=> c = 0)
  BY <1>2 DEF Phases
<1> HIDE DEF m
<1>4. Extracted(n) = m
  BY <1>1, <1>3, ExtractedIs
<1> QED BY <1>3, <1>4 DEF a, c

\* Every bit comes out with its sign.
LEMMA FieldDemapped ==
  ASSUME HeaderInv, FieldInv, Demap, [PlNext]_<<vars, plVars>>
  PROVE  FieldInv'
<1> DEFINE D == FieldLen - Cardinality(is_pilot)
           L(k) == IF row.mod = "QPSK"
                   THEN IF Extracted(k \div 2) \in (IF k % 2 = 0 THEN {0, 3} ELSE {0, 1}) THEN 1 ELSE -1
                   ELSE IF row.has_spread THEN DemapPi2bpsk(2 * k) + DemapPi2bpsk(2 * k + 1)
                   ELSE DemapPi2bpsk(k)
<1>1. step = "tracked" /\ step' = "done" /\ bits' = bits
  BY DEF Demap
<1>2. llr' = [k \in 0 .. NumBits(is_pilot) - 1 |-> L(k)]
  BY DEF Demap
<1>3. bits \in [0 .. NumBits(is_pilot) - 1 -> {0, 1}]
  BY <1>1 DEF FieldInv
<1>4. D \in Int
  BY <1>1, FieldAssumption, DataOfField DEF FieldInv, FieldPlaces
<1>5. NumBits(is_pilot) = IF row.mod = "QPSK" THEN 2 * D ELSE IF row.has_spread THEN D \div 2 ELSE D
  BY DEF NumBits
<1> HIDE DEF D, L
<1>6. NumBits(is_pilot) \in Int
  BY <1>4, <1>5
<1>7. ASSUME NEW k \in 0 .. NumBits(is_pilot) - 1
      PROVE  IF bits[k] = 0 THEN L(k) > 0 ELSE L(k) < 0
  <2>1. k \in Nat /\ k < NumBits(is_pilot) /\ bits[k] \in {0, 1}
    BY <1>3, <1>6
  <2>2. CASE row.mod = "QPSK"
    <3>1. PICK n \in Nat, u \in {0, 1} : k = 2 * n + u /\ n = k \div 2 /\ u = k % 2
      BY <2>1
    <3>2. n < D /\ 2 * n \in 0 .. NumBits(is_pilot) - 1 /\ 2 * n + 1 \in 0 .. NumBits(is_pilot) - 1
      BY <1>4, <1>5, <2>1, <2>2, <3>1
    <3>3. bits[2 * n] \in {0, 1} /\ bits[2 * n + 1] \in {0, 1}
      BY <1>3, <3>2
    <3>4. /\ Extracted(n) \in {0, 3} <=> bits[2 * n] = 0
          /\ Extracted(n) \in {0, 1} <=> bits[2 * n + 1] = 0
      BY <1>1, <2>2, <3>2, <3>3, QpskBack DEF D
    <3>5. CASE u = 0
      <4>1. L(k) = IF Extracted(n) \in {0, 3} THEN 1 ELSE -1
        BY <2>2, <3>1, <3>5 DEF L
      <4>2. k = 2 * n
        BY <3>1, <3>5
      <4> QED BY <3>4, <4>1, <4>2
    <3>6. CASE u = 1
      <4>1. L(k) = IF Extracted(n) \in {0, 1} THEN 1 ELSE -1
        BY <2>2, <3>1, <3>6 DEF L
      <4>2. k = 2 * n + 1
        BY <3>1, <3>6
      <4> QED BY <3>4, <4>1, <4>2
    <3> QED BY <3>5, <3>6
  <2>3. CASE row.mod # "QPSK" /\ row.has_spread
    <3>1. /\ 2 * k \in Nat /\ 2 * k < D /\ (2 * k) \div 2 = k
          /\ 2 * k + 1 \in Nat /\ 2 * k + 1 < D /\ (2 * k + 1) \div 2 = k
      BY <1>4, <1>5, <2>1, <2>3
    <3>2. DemapPi2bpsk(2 * k) = IF bits[k] = 0 THEN 1 ELSE -1
      BY <1>1, <2>1, <2>3, <3>1, BpskBack DEF D
    <3>3. DemapPi2bpsk(2 * k + 1) = IF bits[k] = 0 THEN 1 ELSE -1
      BY <1>1, <2>1, <2>3, <3>1, BpskBack DEF D
    <3>4. L(k) = DemapPi2bpsk(2 * k) + DemapPi2bpsk(2 * k + 1)
      BY <2>3 DEF L
    <3> QED BY <3>2, <3>3, <3>4
  <2>4. CASE row.mod # "QPSK" /\ ~row.has_spread
    <3>1. k < D
      BY <1>5, <2>1, <2>4
    <3>2. DemapPi2bpsk(k) = IF bits[k] = 0 THEN 1 ELSE -1
      BY <1>1, <2>1, <2>4, <3>1, BpskBack DEF D
    <3>3. L(k) = DemapPi2bpsk(k)
      BY <2>4 DEF L
    <3> QED BY <3>2, <3>3
  <2> QED BY <2>2, <2>3, <2>4
<1>8. Decided'
  <2>1. DOMAIN bits' = 0 .. NumBits(is_pilot) - 1
    BY <1>1, <1>3
  <2>2. \A k \in 0 .. NumBits(is_pilot) - 1 : llr'[k] = L(k)
    BY <1>2
  <2> QED BY <1>1, <1>7, <2>1, <2>2 DEF Decided
<1> QED BY <1>1, <1>8 DEF FieldInv

LEMMA FieldKept == HeaderInv /\ FieldInv /\ [PlNext]_<<vars, plVars>> => FieldInv'
<1> SUFFICES ASSUME HeaderInv, FieldInv, [PlNext]_<<vars, plVars>> PROVE FieldInv'
  OBVIOUS
<1>1. Found' = Found
  BY ModcodStays
<1>2. CASE UNCHANGED plVars
  <2>1. /\ step' = step /\ is_pilot' = is_pilot /\ bits' = bits /\ header' = header
        /\ field' = field /\ found' = found /\ llr' = llr
    BY <1>2 DEF plVars
  <2>2. /\ \A n : Point(n)' = Point(n) /\ Scrambling(n)' = Scrambling(n)
        /\ NumBits(is_pilot)' = NumBits(is_pilot) /\ AirTurn' = AirTurn
    BY <2>1, PointStays DEF AirTurn
  <2>3. Decided' = Decided
    BY <2>1 DEF Decided
  <2> QED BY <1>1, <2>1, <2>2, <2>3 DEF FieldInv
<1>3. CASE SendHeaders
  BY <1>3 DEF SendHeaders, FieldInv
<1>4. CASE Synchronise
  <2>1. step' = "missed" \/ step' = "found"
    BY <1>4 DEF Synchronise
  <2>2. HeaderInv'
    BY HeaderNext
  <2>3. step' = "found" => found' = Found'
    <3>1. step' = "found" => ~(found'.conf < 45)
      BY <1>4 DEF Synchronise
    <3>2. None'.conf < 45
      BY DEF None
    <3> QED BY <2>2, <3>1, <3>2 DEF HeaderInv
  <2> QED BY <2>1, <2>3 DEF FieldInv
<1>5. CASE Miss
  BY <1>5 DEF Miss, FieldInv
<1>6. CASE \E map \in Maps : SendField(map)
  BY <1>6, FieldSent
<1>7. CASE Descramble
  BY <1>7, FieldDescrambled
<1>8. CASE Track
  BY <1>8, FieldTracked
<1>9. CASE Demap
  BY <1>9, FieldDemapped
<1>10. CASE NextFrame
  BY <1>10 DEF NextFrame, FieldInv
<1> QED BY <1>2, <1>3, <1>4, <1>5, <1>6, <1>7, <1>8, <1>9, <1>10 DEF PlNext, FieldNext

\* Every frame the receiver finds comes out as the bits that were sent, for every
\* MODCOD, field, layout of pilots, scrambling code and turn.
THEOREM FieldsComeBack == PlSpec => []FieldUndone
<1>1. PlInit => HeaderInv /\ FieldInv
  BY HeaderInit, FieldStart
<1>2. HeaderInv /\ FieldInv /\ [PlNext]_<<vars, plVars>> => (HeaderInv /\ FieldInv)'
  BY HeaderNext, FieldKept
<1>3. FieldInv => FieldUndone
  BY DEF FieldInv, FieldUndone, Decided
<1> QED BY <1>1, <1>2, <1>3, PTL DEF PlSpec
=============================================================================
