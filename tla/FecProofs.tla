----------------------------- MODULE FecProofs -----------------------------
(***************************************************************************)
(* Theorems about both codes, for every address table, every length and    *)
(* every limit of iterations:                                              *)
(*                                                                         *)
(*   - the schedule of the LDPC decoder's syndrome check misses no         *)
(*     codeword;                                                           *)
(*   - encoder and decoder have the same inner code;                       *)
(*   - on an erasure channel no message of the decoder is wrong;           *)
(*   - there it finds every bit that can be found, as fast as peeling does.*)
(***************************************************************************)
EXTENDS Fec, Counting, FiniteSetTheorems, TLAPS

(* The schedule *)

\* How long a codeword can have been there, at each place of the loop.
ScheduleInv ==
  /\ limit \in Nat \ {0} /\ iter \in Nat /\ settled \in Nat
  /\ stage \in {"ldpc", "rows"} =>
       /\ settled <= iter % CONV_CHECK_PERIOD
       /\ iter <= EARLY_CHECK_ITERS => settled = 0
  /\ stage = "ldpc" /\ iter = limit => settled = 0
  /\ stage \in {"rows", "check"} => iter < limit
  /\ stage = "check" /\ settled # 0 =>
       /\ Converged(hard)
       /\ settled <= (iter % CONV_CHECK_PERIOD) + 1

\* The two steps of the schedule have a length.
LEMMA Schedule ==
  /\ EARLY_CHECK_ITERS \in Nat \ {0} /\ CONV_CHECK_PERIOD \in Nat \ {0}
  /\ \A k \in Nat : k % CONV_CHECK_PERIOD \in 0 .. CONV_CHECK_PERIOD - 1
<1>1. EARLY_CHECK_ITERS \in Nat \ {0} /\ CONV_CHECK_PERIOD \in Nat \ {0}
  BY FecAssumption
<1> QED BY <1>1, NextModulo

\* Nothing has settled when the decoder begins.
LEMMA ScheduleInit == Init => ScheduleInv
<1> SUFFICES ASSUME Init PROVE ScheduleInv
  OBVIOUS
<1>1. limit \in Nat \ {0}
  BY FecAssumption DEF Init
<1>2. 0 <= iter % CONV_CHECK_PERIOD
  BY Schedule DEF Init
<1> QED BY <1>1, <1>2 DEF Init, ScheduleInv

\* The end of an iteration: what is there is counted, and looked at or not.
LEMMA DecidedInv == ScheduleInv /\ LdpcDecided => ScheduleInv'
<1> SUFFICES ASSUME ScheduleInv, LdpcDecided PROVE ScheduleInv'
  OBVIOUS
<1>1. /\ stage = "rows" /\ stage' = "check"
      /\ iter' = iter /\ limit' = limit
      /\ settled' = IF Converged(hard') THEN settled + 1 ELSE 0
  BY DEF LdpcDecided, sentVars
<1>2. Converged(hard)' <=> Converged(hard')
  BY DEF Converged
<1>3. iter % CONV_CHECK_PERIOD \in Nat
  BY <1>1, Schedule DEF ScheduleInv
<1> QED BY <1>1, <1>2, <1>3 DEF ScheduleInv

\* A check that is left out leaves fewer than a period of iterations behind;
\* one that is made ends the loop, or there was nothing to find.
LEMMA CheckInv == ScheduleInv /\ LdpcCheck => ScheduleInv'
<1> SUFFICES ASSUME ScheduleInv, LdpcCheck PROVE ScheduleInv'
  OBVIOUS
<1> DEFINE P == CONV_CHECK_PERIOD
<1>1. /\ stage = "check"
      /\ iter' = iter + 1 /\ limit' = limit /\ settled' = settled
  BY DEF LdpcCheck, sentVars
<1>2. /\ iter % P \in 0 .. P - 1
      /\ (iter + 1) % P \in Nat
      /\ (iter + 1) % P = 0 \/ (iter + 1) % P = (iter % P) + 1
  <2>1. iter \in Nat /\ P \in Nat \ {0}
    BY Schedule DEF ScheduleInv
  <2>2. /\ iter % P \in 0 .. P - 1
        /\ (iter + 1) % P = 0 \/ (iter + 1) % P = (iter % P) + 1
    BY <2>1, NextModulo
  <2> QED BY <2>1, <2>2
<1>3. /\ limit \in Nat /\ iter \in Nat /\ settled \in Nat /\ iter < limit
      /\ settled # 0 => Converged(hard) /\ settled <= (iter % P) + 1
  BY <1>1 DEF ScheduleInv
<1>4. CASE ~Unchecked(iter) /\ Converged(hard)
  <2>1. stage' = "returned"
    BY <1>4 DEF LdpcCheck
  <2> QED BY <1>1, <1>3, <2>1 DEF ScheduleInv
<1>6. CASE ~(~Unchecked(iter) /\ Converged(hard))
  <2>1. stage' = "ldpc"
    BY <1>6 DEF LdpcCheck
  <2>2. CASE Unchecked(iter)
    <3>1. iter >= EARLY_CHECK_ITERS /\ (iter + 1) % P # 0 /\ iter + 1 < limit
      BY <2>2 DEF Unchecked
    <3>2. settled <= (iter + 1) % P
      BY <3>1, <1>2, <1>3
    <3>3. EARLY_CHECK_ITERS \in Nat
      BY Schedule
    <3> QED BY <1>1, <1>3, <2>1, <3>1, <3>2, <3>3 DEF ScheduleInv
  <2>3. CASE ~Unchecked(iter)
    <3>1. settled = 0
      BY <1>3, <1>6, <2>3
    <3> QED BY <1>1, <1>2, <1>3, <2>1, <3>1 DEF ScheduleInv
  <2> QED BY <2>2, <2>3
<1> QED BY <1>4, <1>6

\* Steps after the decoder has returned.
LEMMA AfterInv ==
  ASSUME ScheduleInv,
         stage' \in {"returned", "bch", "bm", "done"},
         UNCHANGED <<limit, iter, settled>>
  PROVE  ScheduleInv'
BY DEF ScheduleInv

\* Every step keeps the invariant: only the two above touch what it speaks of.
LEMMA ScheduleNext == ScheduleInv /\ [Next]_vars => ScheduleInv'
<1> SUFFICES ASSUME ScheduleInv, [Next]_vars PROVE ScheduleInv'
  OBVIOUS
<1> USE DEF sentVars, ldpcVars, bchVars
<1>1. CASE RequestCancel
  <2>1. UNCHANGED <<limit, iter, settled, stage, hard>>
    BY <1>1 DEF RequestCancel
  <2>2. Converged(hard)' <=> Converged(hard)
    BY <2>1 DEF Converged
  <2> QED BY <2>1, <2>2 DEF ScheduleInv
<1>2. CASE LdpcBegin
  BY <1>2 DEF LdpcBegin, ScheduleInv
<1>3. CASE LdpcRow
  BY <1>3 DEF LdpcRow, ScheduleInv
<1>4. CASE LdpcDecided
  BY <1>4, DecidedInv
<1>6. CASE LdpcCheck
  BY <1>6, CheckInv
<1>7. CASE LdpcCancelled
  BY <1>7, AfterInv DEF LdpcCancelled
<1>5. CASE LdpcExhausted
  BY <1>5, AfterInv DEF LdpcExhausted
<1>8. CASE LdpcReturned
  BY <1>8, AfterInv DEF LdpcReturned
<1>9. CASE BchSyndromes
  BY <1>9, AfterInv DEF BchSyndromes, Finish
<1>10. CASE BchIteration
  BY <1>10, AfterInv DEF BchIteration
<1>11. CASE BchCorrect
  BY <1>11, AfterInv DEF BchCorrect, Finish
<1>12. CASE UNCHANGED vars
  <2>1. UNCHANGED <<limit, iter, settled, stage, hard>>
    BY <1>12 DEF vars
  <2>2. Converged(hard)' <=> Converged(hard)
    BY <2>1 DEF Converged
  <2> QED BY <2>1, <2>2 DEF ScheduleInv
<1> QED BY <1>1, <1>2, <1>3, <1>4, <1>6, <1>7, <1>5, <1>8, <1>9, <1>10,
           <1>11, <1>12 DEF Next

\* Whatever the code, the limit and the schedule: a codeword is noticed at once
\* in the early iterations, within a period later, and before the decoder gives
\* up (ldpc_decode.c:420).
THEOREM CodewordsNoticed == Spec => []ConvergenceNoticed
<1>1. ScheduleInv => ConvergenceNoticed
  BY Schedule DEF ScheduleInv, ConvergenceNoticed
<1> QED BY <1>1, ScheduleInit, ScheduleNext, PTL DEF Spec

----------------------------------------------------------------------------
(* Counting modulo two *)

\* An odd number of elements.
Odd(S) == Cardinality(S) % 2 = 1

\* Two disjoint sets together: odd if one of them is.
LEMMA OddUnion ==
  ASSUME NEW S, NEW T, IsFiniteSet(S), IsFiniteSet(T), S \cap T = {}
  PROVE  /\ IsFiniteSet(S \cup T)
         /\ Odd(S \cup T) <=> (Odd(S) <=> ~Odd(T))
<1>1. /\ IsFiniteSet(S \cup T)
      /\ Cardinality(S \cup T) = Cardinality(S) + Cardinality(T) - Cardinality({})
  BY FS_Union
<1>2. Cardinality(S) \in Nat /\ Cardinality(T) \in Nat /\ Cardinality({}) = 0
  BY FS_CardinalityType, FS_EmptySet
<1>3. Cardinality(S \cup T) = Cardinality(S) + Cardinality(T)
  BY <1>1, <1>2
<1> QED BY <1>1, <1>2, <1>3 DEF Odd

\* Even is not odd.
LEMMA OddNot == ASSUME NEW S, IsFiniteSet(S) PROVE Cardinality(S) % 2 = 0 <=> ~Odd(S)
BY FS_CardinalityType DEF Odd

\* No element is even, one is odd.
LEMMA OddSmall == ~Odd({}) /\ \A x : Odd({x}) /\ IsFiniteSet({x})
<1>1. Cardinality({}) = 0 /\ \A x : Cardinality({x}) = 1 /\ IsFiniteSet({x})
  BY FS_EmptySet, FS_Singleton
<1>2. 0 % 2 # 1 /\ 1 % 2 = 1
  OBVIOUS
<1> QED BY <1>1, <1>2, Zenon DEF Odd

\* A set counts as many as its image under a map that is one to one.
LEMMA OddImage ==
  ASSUME NEW S, NEW T, IsFiniteSet(S), NEW f \in [S -> T],
         \A x, y \in S : f[x] = f[y] => x = y, \A y \in T : \E x \in S : f[x] = y
  PROVE  IsFiniteSet(T) /\ (Odd(T) <=> Odd(S))
<1>1. f \in Bijection(S, T)
  BY DEF Bijection, Injection, Surjection, IsInjective
<1> QED BY <1>1, FS_Bijection DEF ExistsBijection, Odd

\* The numbers of the code are natural numbers.
LEMMA Sizes ==
  /\ parities \in Nat \ {0} /\ q_ldpc \in Nat /\ DVBS2X_LDPC_PARALLEL \in Nat \ {0}
  /\ k_ldpc \in Nat \ {0} /\ fec_len = k_ldpc + parities
  /\ num_groups \in Nat
<1>1. /\ parities \in Nat \ {0} /\ q_ldpc \in Nat /\ DVBS2X_LDPC_PARALLEL \in Nat \ {0}
      /\ k_ldpc \in Nat \ {0} /\ fec_len = k_ldpc + parities
  BY LdpcAssumption DEF parities
<1>2. k_ldpc \div DVBS2X_LDPC_PARALLEL \in Nat
  BY <1>1, SMT
<1> QED BY <1>1, <1>2 DEF num_groups

\* The groups share the information bits out.
LEMMA Groups == k_ldpc = num_groups * DVBS2X_LDPC_PARALLEL
<1>1. k_ldpc = DVBS2X_LDPC_PARALLEL * (k_ldpc \div DVBS2X_LDPC_PARALLEL)
                 + (k_ldpc % DVBS2X_LDPC_PARALLEL)
  BY Sizes, SMT
<1>2. k_ldpc % DVBS2X_LDPC_PARALLEL = 0
  BY LdpcAssumption
<1>3. k_ldpc \div DVBS2X_LDPC_PARALLEL \in Nat
  BY Sizes DEF num_groups
<1> QED BY <1>1, <1>2, <1>3, Sizes DEF num_groups

\* What an entry of the table consists of.
LEMMA EntryType ==
  ASSUME NEW e \in Entries
  PROVE  /\ e = <<e[1], e[2], e[3]>>
         /\ e[1] \in 0 .. num_groups - 1
         /\ e[2] \in 0 .. DVBS2X_LDPC_PARALLEL - 1
         /\ e[3] \in Nat \ {0} /\ e[3] <= Len(addrs[e[1] + 1])
<1> USE Sizes
<1>1. e \in Taps /\ e[3] <= Len(addrs[e[1] + 1])
  BY DEF Entries
<1> QED BY <1>1 DEF Taps

\* No group has more than some number of addresses.
LEMMA Bounded == \E m \in Nat : \A g \in 1 .. num_groups : Len(addrs[g]) <= m
<1> DEFINE S == {k \in Nat : k <= num_groups =>
                               \E m \in Nat : \A g \in 1 .. k : Len(addrs[g]) <= m}
<1>1. 0 \in S
  OBVIOUS
<1>2. ASSUME NEW k \in Nat, k \in S PROVE k + 1 \in S
  <2> SUFFICES ASSUME k + 1 <= num_groups
               PROVE  \E m \in Nat : \A g \in 1 .. k + 1 : Len(addrs[g]) <= m
    OBVIOUS
  <2>1. PICK m \in Nat : \A g \in 1 .. k : Len(addrs[g]) <= m
    BY <1>2, Sizes
  <2>2. Len(addrs[k + 1]) \in Nat
    <3>1. k + 1 \in 1 .. num_groups
      BY Sizes
    <3>2. addrs[k + 1] \in Seq(0 .. parities - 1)
      BY <3>1, LdpcAssumption
    <3> QED BY <3>2
  <2>3. \A g \in 1 .. k + 1 : Len(addrs[g]) <= m + Len(addrs[k + 1])
    <3> TAKE g \in 1 .. k + 1
    <3>1. CASE g = k + 1
      BY <3>1, <2>2
    <3>2. CASE g # k + 1
      <4>1. g \in 1 .. k
        BY <3>2
      <4>2. Len(addrs[g]) <= m
        BY <4>1, <2>1
      <4>3. addrs[g] \in Seq(0 .. parities - 1)
        BY <4>1, LdpcAssumption, Sizes
      <4>4. Len(addrs[g]) \in Nat
        BY <4>3
      <4> QED BY <4>2, <4>4, <2>2
    <3> QED BY <3>1, <3>2
  <2>4. m + Len(addrs[k + 1]) \in Nat
    BY <2>2
  <2> QED BY <2>3, <2>4, Zenon
<1>3. \A k \in Nat : k \in S
  <2> HIDE DEF S
  <2> QED BY <1>1, <1>2, SetInduction
<1>4. num_groups \in S
  BY <1>3, Sizes
<1> QED BY <1>4

\* The table is finite, so its entries can be counted.
LEMMA EntriesFinite == IsFiniteSet(Entries)
<1>1. PICK m \in Nat : \A g \in 1 .. num_groups : Len(addrs[g]) <= m
  BY Bounded
<1> DEFINE A == 0 .. num_groups - 1
           B == 0 .. DVBS2X_LDPC_PARALLEL - 1
           C == 0 .. m
<1>2. IsFiniteSet(A) /\ IsFiniteSet(B) /\ IsFiniteSet(C)
  BY FS_Interval, Sizes
<1>3. IsFiniteSet((A \X B) \X C)
  <2> HIDE DEF A, B, C
  <2> QED BY <1>2, FS_Product
<1>4. \A e \in Entries : e[3] \in C
  <2> TAKE e \in Entries
  <2>1. e[1] + 1 \in 1 .. num_groups /\ e[3] \in Nat /\ e[3] <= Len(addrs[e[1] + 1])
    BY EntryType, Sizes
  <2>2. addrs[e[1] + 1] \in Seq(0 .. parities - 1)
    BY <2>1, LdpcAssumption
  <2>3. Len(addrs[e[1] + 1]) \in Nat /\ Len(addrs[e[1] + 1]) <= m
    BY <2>1, <2>2, <1>1
  <2> QED BY <2>1, <2>3
<1> DEFINE D == {<<<<e[1], e[2]>>, e[3]>> : e \in Entries}
           f == [d \in D |-> <<d[1][1], d[1][2], d[2]>>]
<1>5. D \subseteq (A \X B) \X C
  BY <1>4, EntryType
<1>6. IsFiniteSet(D)
  <2> HIDE DEF D
  <2> QED BY <1>3, <1>5, FS_Subset
<1>7. f \in Surjection(D, Entries)
  <2>1. \A e \in Entries : f[<<<<e[1], e[2]>>, e[3]>>] = e
    BY EntryType
  <2>2. ASSUME NEW d \in D PROVE f[d] \in Entries
    <3>1. PICK e \in Entries : d = <<<<e[1], e[2]>>, e[3]>>
      OBVIOUS
    <3> QED BY <3>1, <2>1
  <2>3. \A e \in Entries : \E d \in D : f[d] = e
    BY <2>1
  <2> QED BY <2>2, <2>3 DEF Surjection
<1> QED
  <2> HIDE DEF D, f
  <2> QED BY <1>6, <1>7, FS_Surjection

----------------------------------------------------------------------------
(* The table and the check matrix *)

\* The encoder reduces an address by one subtraction, build_csr by a remainder
\* (ldpc_encode.c:88, ldpc_decode.c:154): with q * 360 parity bits, as in every
\* MODCOD, they toggle and check the same bit.
THEOREM SameAddress == \A e \in Entries : EncoderAddr(e) = DecoderRow(e)
<1> SUFFICES ASSUME NEW e \in Entries PROVE EncoderAddr(e) = DecoderRow(e)
  OBVIOUS
<1> DEFINE addr == addrs[e[1] + 1][e[3]]
           shift == e[2] * q_ldpc
<1>1. parities \in Nat \ {0} /\ q_ldpc \in Nat /\ DVBS2X_LDPC_PARALLEL \in Nat \ {0}
      /\ q_ldpc * DVBS2X_LDPC_PARALLEL = parities
  BY LdpcAssumption DEF parities
<1>2. /\ e[1] + 1 \in 1 .. num_groups
      /\ e[2] \in 0 .. DVBS2X_LDPC_PARALLEL - 1
      /\ e[3] \in Int /\ e[3] >= 1 /\ e[3] <= Len(addrs[e[1] + 1])
  <2>1. e \in Taps /\ e[3] <= Len(addrs[e[1] + 1])
    BY DEF Entries
  <2>2. /\ e[1] \in 0 .. num_groups - 1 /\ e[2] \in 0 .. DVBS2X_LDPC_PARALLEL - 1
        /\ e[3] \in 1 .. Max({Len(addrs[g]) : g \in 1 .. num_groups})
    BY <2>1 DEF Taps
  <2>3. num_groups \in Int
    BY LdpcAssumption DEF num_groups
  <2> QED BY <2>1, <2>2, <2>3
<1>3. addr \in 0 .. parities - 1
  <2>1. addrs[e[1] + 1] \in Seq(0 .. parities - 1)
    BY <1>2, LdpcAssumption
  <2>2. Len(addrs[e[1] + 1]) \in Nat
    BY <2>1
  <2>3. e[3] \in 1 .. Len(addrs[e[1] + 1])
    BY <1>2, <2>2
  <2>4. ASSUME NEW S, NEW s \in Seq(S), NEW i \in 1 .. Len(s) PROVE s[i] \in S
    OBVIOUS
  <2> QED BY <2>1, <2>3, <2>4, Zenon
<1>4. shift \in 0 .. parities - 1
  <2>1. ASSUME NEW j \in Nat, NEW p \in Nat \ {0}, NEW q \in Nat, j <= p - 1,
               q * p \in Nat \ {0}
        PROVE  j * q \in 0 .. (q * p) - 1
    <3>1. PICK k \in Nat : p = j + 1 + k
      <4>1. p - 1 - j \in Nat /\ p = j + 1 + (p - 1 - j)
        BY <2>1
      <4> QED BY <4>1
    <3>2. q * p = j * q + q + q * k
      BY <3>1, SMT
    <3>3. q # 0
      BY <2>1, SMT
    <3>4. q * k \in Nat /\ j * q \in Nat
      BY SMT
    <3> QED BY <3>2, <3>3, <3>4
  <2>2. /\ e[2] \in Nat /\ e[2] <= DVBS2X_LDPC_PARALLEL - 1
        /\ q_ldpc * DVBS2X_LDPC_PARALLEL \in Nat \ {0}
    BY <1>1, <1>2
  <2>3. e[2] * q_ldpc \in 0 .. (q_ldpc * DVBS2X_LDPC_PARALLEL) - 1
    BY <1>1, <2>1, <2>2, Zenon
  <2> QED BY <1>1, <2>3
<1>5. /\ EncoderAddr(e) = IF addr + shift >= parities THEN (addr + shift) - parities
                            ELSE addr + shift
      /\ DecoderRow(e) = (addr + shift) % parities
  <2>1. EncoderAddr(e) = IF addr + shift >= parities THEN (addr + shift) - parities
                         ELSE addr + shift
    BY Zenon DEF EncoderAddr
  <2>2. DecoderRow(e) = (addr + shift) % parities
    BY DEF DecoderRow
  <2> QED BY <2>1, <2>2
<1>6. CASE addr + shift < parities
  <2>1. (addr + shift) % parities = addr + shift
    BY <1>1, <1>3, <1>4, <1>6
  <2> QED BY <1>1, <1>3, <1>4, <1>5, <1>6, <2>1
<1>7. CASE addr + shift >= parities
  <2>1. /\ addr + shift \in Int /\ 1 \in Int
        /\ addr + shift - parities \in 0 .. parities - 1
        /\ addr + shift = parities * 1 + (addr + shift - parities)
    BY <1>1, <1>3, <1>4, <1>7
  <2>2. (addr + shift) % parities = addr + shift - parities
    BY <2>1, <1>1, Remainder, Zenon
  <2> QED BY <1>1, <1>3, <1>4, <1>5, <1>7, <2>2
<1> QED BY <1>1, <1>3, <1>4, <1>6, <1>7

\* The edge of a table entry.
TableEdge(e) == <<DecoderRow(e), BitOf(e), e[3]>>
\* The entries that bring a one of h to parity bit i.
Tapped(i, h) == {e \in Entries : BitOf(e) \in h /\ EncoderAddr(e) = i}

\* An entry is about an information bit (ldpc_encode.c:85).
LEMMA BitRange == \A e \in Entries : BitOf(e) \in 0 .. k_ldpc - 1
<1> SUFFICES ASSUME NEW e \in Entries PROVE BitOf(e) \in 0 .. k_ldpc - 1
  OBVIOUS
<1> DEFINE p == DVBS2X_LDPC_PARALLEL
<1>1. /\ e[1] \in Nat /\ num_groups \in Int /\ e[1] < num_groups
      /\ e[2] \in 0 .. p - 1 /\ p \in Nat \ {0}
  BY EntryType, Sizes
<1>2. e[1] * p + p <= num_groups * p
  BY <1>1, MultipleApart
<1>3. e[1] * p \in Nat
  BY <1>1, SMT
<1>4. num_groups * p = k_ldpc
  BY Groups
<1> HIDE DEF p
<1>5. BitOf(e) = e[1] * p + e[2]
  BY DEF BitOf, p
<1> QED BY <1>1, <1>2, <1>3, <1>4, <1>5, Sizes

\* Group, bit and place of an entry are known from its bit and place.
LEMMA BitsApart ==
  \A e, f \in Entries : BitOf(e) = BitOf(f) /\ e[3] = f[3] => e = f
<1> SUFFICES ASSUME NEW e \in Entries, NEW f \in Entries, BitOf(e) = BitOf(f), e[3] = f[3]
             PROVE  e = f
  OBVIOUS
<1> DEFINE p == DVBS2X_LDPC_PARALLEL
<1>1. /\ e[1] \in Nat /\ e[2] \in 0 .. p - 1 /\ p \in Nat \ {0}
      /\ f[1] \in Nat /\ f[2] \in 0 .. p - 1
      /\ e = <<e[1], e[2], e[3]>> /\ f = <<f[1], f[2], f[3]>>
  BY EntryType, Sizes
<1>2. e[1] * p + e[2] = f[1] * p + f[2]
  BY DEF BitOf
<1> HIDE DEF p
<1>3. e[1] = f[1]
  <2>1. e[1] * p \in Nat /\ f[1] * p \in Nat
    BY <1>1, SMT
  <2>2. ~(e[1] < f[1])
    <3>1. e[1] < f[1] => e[1] * p + p <= f[1] * p
      BY <1>1, MultipleApart
    <3> QED BY <1>1, <1>2, <2>1, <3>1
  <2>3. ~(f[1] < e[1])
    <3>1. f[1] < e[1] => f[1] * p + p <= e[1] * p
      BY <1>1, MultipleApart
    <3> QED BY <1>1, <1>2, <2>1, <3>1
  <2> QED BY <1>1, <2>2, <2>3
<1>4. e[2] = f[2]
  <2>1. e[1] * p \in Nat
    BY <1>1, SMT
  <2> QED BY <1>1, <1>2, <1>3, <2>1
<1> QED BY <1>1, <1>3, <1>4

\* Encoder and decoder agree on the row of an entry, and there is one.
LEMMA AddrRange ==
  \A e \in Entries : EncoderAddr(e) \in 0 .. parities - 1 /\ DecoderRow(e) = EncoderAddr(e)
<1> SUFFICES ASSUME NEW e \in Entries
             PROVE  EncoderAddr(e) \in 0 .. parities - 1 /\ DecoderRow(e) = EncoderAddr(e)
  OBVIOUS
<1>1. DecoderRow(e) = EncoderAddr(e)
  BY SameAddress
<1>2. DecoderRow(e) \in 0 .. parities - 1
  <2>1. e[1] + 1 \in 1 .. num_groups
    BY EntryType, Sizes
  <2>2. addrs[e[1] + 1] \in Seq(0 .. parities - 1)
    BY <2>1, LdpcAssumption
  <2>3. e[3] \in 1 .. Len(addrs[e[1] + 1])
    <3>1. Len(addrs[e[1] + 1]) \in Nat
      BY <2>2
    <3> QED BY <3>1, EntryType
  <2>4. ASSUME NEW S, NEW s \in Seq(S), NEW i \in 1 .. Len(s) PROVE s[i] \in S
    OBVIOUS
  <2>5. addrs[e[1] + 1][e[3]] \in 0 .. parities - 1
    BY <2>2, <2>3, <2>4, Zenon
  <2>6. e[2] * q_ldpc \in Int
    <3>1. e[2] \in Int /\ q_ldpc \in Int
      BY EntryType, Sizes
    <3> QED BY <3>1, SMT
  <2>7. addrs[e[1] + 1][e[3]] + e[2] * q_ldpc \in Int /\ parities \in Nat \ {0}
    BY <2>5, <2>6, Sizes
  <2>8. ASSUME NEW a \in Int, NEW m \in Nat \ {0} PROVE a % m \in 0 .. m - 1
    BY SMT
  <2> QED BY <2>7, <2>8 DEF DecoderRow
<1> QED BY <1>1, <1>2

\* A bit of the word as a set of edges: at most one.
Stair(i, bit, h) == IF bit \in h THEN {<<i, bit, 0>>} ELSE {}

\* The ones of a row: table entries, its own parity bit, the one before
\* (build_csr, ldpc_decode.c:154).
LEMMA RowSplit ==
  ASSUME NEW i \in 0 .. parities - 1, NEW h
  PROVE  {e \in RowEdges[i] : e[2] \in h}
           = {TableEdge(e) : e \in Tapped(i, h)}
               \cup (Stair(i, k_ldpc + i, h)
                       \cup (IF i > 0 THEN Stair(i, k_ldpc + i - 1, h) ELSE {}))
<1> DEFINE L == {e \in RowEdges[i] : e[2] \in h}
           T == {TableEdge(e) : e \in Tapped(i, h)}
           P == Stair(i, k_ldpc + i, h)
           Q == IF i > 0 THEN Stair(i, k_ldpc + i - 1, h) ELSE {}
<1>1. L = {e \in Edges : e[1] = i /\ e[2] \in h}
  BY DEF RowEdges
<1>2. ASSUME NEW e \in L PROVE e \in T \cup (P \cup Q)
  <2>1. e \in Edges /\ e[1] = i /\ e[2] \in h
    BY <1>1
  <2>2. CASE \E f \in Entries : e = <<DecoderRow(f), BitOf(f), f[3]>>
    <3>1. PICK f \in Entries : e = <<DecoderRow(f), BitOf(f), f[3]>>
      BY <2>2
    <3>2. f \in Tapped(i, h) /\ e = TableEdge(f)
      BY <3>1, <2>1, AddrRange DEF Tapped, TableEdge
    <3> QED BY <3>2
  <2>3. CASE \E j \in 0 .. parities - 1 : e = <<j, k_ldpc + j, 0>>
    BY <2>1, <2>3 DEF Stair
  <2>4. CASE \E j \in 1 .. parities - 1 : e = <<j, k_ldpc + j - 1, 0>>
    <3>1. i > 0 /\ e = <<i, k_ldpc + i - 1, 0>>
      BY <2>1, <2>4
    <3> QED BY <2>1, <3>1 DEF Stair
  <2> QED BY <2>1, <2>2, <2>3, <2>4 DEF Edges
<1>3. ASSUME NEW e \in T PROVE e \in L
  <2>1. PICK f \in Tapped(i, h) : e = TableEdge(f)
    OBVIOUS
  <2>2. f \in Entries /\ BitOf(f) \in h /\ DecoderRow(f) = i
    BY AddrRange DEF Tapped
  <2>3. e \in Edges
    BY <2>1, <2>2 DEF TableEdge, Edges
  <2>4. e[1] = i /\ e[2] \in h
    BY <2>1, <2>2 DEF TableEdge
  <2> QED BY <1>1, <2>3, <2>4
<1>4. ASSUME NEW e \in P PROVE e \in L
  <2>1. e = <<i, k_ldpc + i, 0>> /\ e[2] \in h
    BY DEF Stair
  <2>2. e \in Edges
    BY <2>1 DEF Edges
  <2> QED BY <1>1, <2>1, <2>2
<1>5. ASSUME NEW e \in Q PROVE e \in L
  <2>1. i > 0 /\ e = <<i, k_ldpc + i - 1, 0>> /\ e[2] \in h
    BY DEF Stair
  <2>2. i \in 1 .. parities - 1
    BY <2>1, Sizes
  <2>3. e \in Edges
    BY <2>1, <2>2 DEF Edges
  <2> QED BY <1>1, <2>1, <2>3
<1> QED
  <2> HIDE DEF L, T, P, Q
  <2>1. L = T \cup (P \cup Q)
    BY <1>2, <1>3, <1>4, <1>5
  <2> QED BY <2>1 DEF L, T, P, Q

\* The table entries of a row are the toggles of the encoder.
LEMMA TappedOdd ==
  ASSUME NEW i \in 0 .. parities - 1, NEW h
  PROVE  /\ IsFiniteSet({TableEdge(e) : e \in Tapped(i, h)})
         /\ Odd({TableEdge(e) : e \in Tapped(i, h)})
              <=> i \in Toggled(h \cap (0 .. k_ldpc - 1))
<1> DEFINE S == Tapped(i, h)
           T == {TableEdge(e) : e \in Tapped(i, h)}
           f == [e \in S |-> TableEdge(e)]
<1>1. S \subseteq Entries
  BY DEF Tapped
<1>2. IsFiniteSet(S)
  BY <1>1, EntriesFinite, FS_Subset, Zenon
<1>3. /\ f \in [S -> T]
      /\ \A x, y \in S : f[x] = f[y] => x = y
      /\ \A y \in T : \E x \in S : f[x] = y
  <2>1. \A x \in S : f[x] = TableEdge(x)
    OBVIOUS
  <2>2. \A x, y \in S : TableEdge(x) = TableEdge(y) => x = y
    BY <1>1, BitsApart DEF TableEdge
  <2> QED BY <2>1, <2>2
<1>4. IsFiniteSet(T) /\ (Odd(T) <=> Odd(S))
  <2> HIDE DEF S, T, f
  <2> QED BY <1>2, <1>3, OddImage
<1>5. S = {e \in Entries : BitOf(e) \in h \cap (0 .. k_ldpc - 1) /\ EncoderAddr(e) = i}
  BY BitRange DEF Tapped
<1>6. Odd(S) <=> i \in Toggled(h \cap (0 .. k_ldpc - 1))
  BY <1>5 DEF Toggled, Odd
<1> QED BY <1>4, <1>6

\* The parity of a row: its table entries, its own parity bit and the one before.
LEMMA RowParity ==
  ASSUME NEW i \in 0 .. parities - 1, NEW h
  PROVE  /\ IsFiniteSet({e \in RowEdges[i] : e[2] \in h})
         /\ Cardinality({e \in RowEdges[i] : e[2] \in h}) % 2 = 0
              <=> (k_ldpc + i \in h
                     <=> (i \in Toggled(h \cap (0 .. k_ldpc - 1))
                            <=> ~(i > 0 /\ k_ldpc + i - 1 \in h)))
<1> DEFINE T == {TableEdge(e) : e \in Tapped(i, h)}
           P == Stair(i, k_ldpc + i, h)
           Q == IF i > 0 THEN Stair(i, k_ldpc + i - 1, h) ELSE {}
<1>1. IsFiniteSet(T) /\ (Odd(T) <=> i \in Toggled(h \cap (0 .. k_ldpc - 1)))
  BY TappedOdd
<1>2. IsFiniteSet(P) /\ (Odd(P) <=> k_ldpc + i \in h)
  BY OddSmall, FS_EmptySet, Zenon DEF Stair
<1>3. IsFiniteSet(Q) /\ (Odd(Q) <=> i > 0 /\ k_ldpc + i - 1 \in h)
  BY OddSmall, FS_EmptySet, Zenon DEF Stair
<1>4. P \cap Q = {}
  <2>1. <<i, k_ldpc + i, 0>> # <<i, k_ldpc + i - 1, 0>>
    BY Sizes
  <2> QED BY <2>1 DEF Stair
<1>5. T \cap (P \cup Q) = {}
  <2>1. \A e \in T : e[3] # 0
    BY EntryType DEF TableEdge, Tapped
  <2>2. \A e \in P \cup Q : e[3] = 0
    BY DEF Stair
  <2> QED BY <2>1, <2>2
<1>6. {e \in RowEdges[i] : e[2] \in h} = T \cup (P \cup Q)
  BY RowSplit
<1> HIDE DEF T, P, Q
<1>7. IsFiniteSet(P \cup Q) /\ (Odd(P \cup Q) <=> (Odd(P) <=> ~Odd(Q)))
  BY <1>2, <1>3, <1>4, OddUnion
<1>8. IsFiniteSet(T \cup (P \cup Q)) /\ (Odd(T \cup (P \cup Q)) <=> (Odd(T) <=> ~Odd(P \cup Q)))
  BY <1>1, <1>5, <1>7, OddUnion
<1>9. Cardinality(T \cup (P \cup Q)) % 2 = 0 <=> ~Odd(T \cup (P \cup Q))
  BY <1>8, OddNot
<1> QED BY <1>1, <1>2, <1>3, <1>6, <1>7, <1>8, <1>9, Zenon

----------------------------------------------------------------------------
(* The encoder *)

\* The running parity: one more bit.
LEMMA Accumulate ==
  ASSUME NEW acc \in SUBSET (0 .. parities - 1), NEW i \in 0 .. parities - 1
  PROVE  Odd({j \in acc : j <= i})
           <=> ((i \in acc) <=> ~(i > 0 /\ Odd({j \in acc : j <= i - 1})))
<1> DEFINE U == {j \in acc : j <= i - 1}
           V == IF i \in acc THEN {i} ELSE {}
<1>1. {j \in acc : j <= i} = U \cup V /\ U \cap V = {}
  <2>1. \A j \in acc : j <= i <=> j <= i - 1 \/ j = i
    OBVIOUS
  <2>2. ~(i <= i - 1)
    OBVIOUS
  <2> QED BY <2>1, <2>2, Zenon
<1>2. IsFiniteSet(U)
  <2>1. U \subseteq 0 .. parities - 1
    OBVIOUS
  <2>2. IsFiniteSet(0 .. parities - 1)
    BY FS_Interval, Sizes
  <2> HIDE DEF U
  <2> QED BY <2>1, <2>2, FS_Subset
<1>3. IsFiniteSet(V) /\ (Odd(V) <=> i \in acc)
  BY OddSmall, FS_EmptySet, Zenon
<1>4. i > 0 \/ U = {}
  <2>1. CASE i = 0
    <3>1. \A j \in acc : ~(j <= i - 1)
      BY <2>1
    <3> QED BY <3>1, Zenon
  <2> QED BY <2>1
<1> HIDE DEF U, V
<1>5. i > 0 \/ ~Odd(U)
  BY <1>4, OddSmall
<1>6. Odd(U \cup V) <=> (Odd(U) <=> ~Odd(V))
  BY <1>1, <1>2, <1>3, OddUnion
<1>7. Odd(U) <=> i > 0 /\ Odd(U)
  BY <1>5
<1>8. Odd({j \in acc : j <= i}) <=> Odd(U \cup V)
  BY <1>1
<1>9. Odd({j \in acc : j <= i}) <=> ((i \in acc) <=> ~(i > 0 /\ Odd(U)))
  BY <1>3, <1>6, <1>7, <1>8, Zenon
<1> QED BY <1>9 DEF U

\* The codeword of info: info itself, then the running parities.
LEMMA EncodedBits ==
  ASSUME NEW info \in SUBSET (0 .. k_ldpc - 1)
  PROVE  /\ Toggled(info) \in SUBSET (0 .. parities - 1)
         /\ ldpc_encode(info) \in SUBSET (0 .. fec_len - 1)
         /\ ldpc_encode(info) \cap (0 .. k_ldpc - 1) = info
         /\ \A i \in 0 .. parities - 1 :
              k_ldpc + i \in ldpc_encode(info) <=> Odd({j \in Toggled(info) : j <= i})
<1> DEFINE T == Toggled(info)
           P == {i \in 0 .. parities - 1 : Odd({j \in T : j <= i})}
<1>1. T \in SUBSET (0 .. parities - 1)
  BY DEF Toggled
<1>2. ldpc_encode(info) = info \cup {k_ldpc + p : p \in P}
  BY DEF ldpc_encode, Odd
<1> HIDE DEF T
<1>3. P \subseteq 0 .. parities - 1
  OBVIOUS
<1>4. \A i \in 0 .. parities - 1 : i \in P <=> Odd({j \in T : j <= i})
  OBVIOUS
<1> HIDE DEF P
<1>5. info \cup {k_ldpc + p : p \in P} \in SUBSET (0 .. fec_len - 1)
  <2>1. \A p \in P : k_ldpc + p \in 0 .. fec_len - 1 /\ k_ldpc + p \notin 0 .. k_ldpc - 1
    BY <1>3, Sizes
  <2>2. \A b \in info : b \in 0 .. fec_len - 1
    BY Sizes
  <2> QED BY <2>1, <2>2
<1>6. (info \cup {k_ldpc + p : p \in P}) \cap (0 .. k_ldpc - 1) = info
  <2>1. \A p \in P : k_ldpc + p \notin 0 .. k_ldpc - 1
    BY <1>3, Sizes
  <2> QED BY <2>1
<1>7. \A i \in 0 .. parities - 1 : k_ldpc + i \in info \cup {k_ldpc + p : p \in P} <=> i \in P
  BY <1>3, Sizes
<1> QED BY <1>1, <1>2, <1>4, <1>5, <1>6, <1>7 DEF T

\* The check matrix accepts what the encoder makes.
LEMMA EncodedConverges ==
  ASSUME NEW info \in SUBSET (0 .. k_ldpc - 1)
  PROVE  Converged(ldpc_encode(info))
<1> DEFINE h == ldpc_encode(info)
           T == Toggled(info)
<1> SUFFICES ASSUME NEW i \in 0 .. parities - 1
             PROVE  Cardinality({e \in RowEdges[i] : e[2] \in h}) % 2 = 0
  BY DEF Converged
<1>1. /\ T \in SUBSET (0 .. parities - 1)
      /\ h \cap (0 .. k_ldpc - 1) = info
      /\ \A j \in 0 .. parities - 1 : k_ldpc + j \in h <=> Odd({l \in T : l <= j})
  BY EncodedBits
<1>2. Toggled(h \cap (0 .. k_ldpc - 1)) = T
  BY <1>1
<1> HIDE DEF h, T
<1>3. k_ldpc + i \in h <=> ((i \in T) <=> ~(i > 0 /\ Odd({j \in T : j <= i - 1})))
  BY <1>1, Accumulate
<1>4. i > 0 => (k_ldpc + i - 1 \in h <=> Odd({j \in T : j <= i - 1}))
  <2> SUFFICES ASSUME i > 0 PROVE k_ldpc + i - 1 \in h <=> Odd({j \in T : j <= i - 1})
    OBVIOUS
  <2>1. i - 1 \in 0 .. parities - 1 /\ k_ldpc + (i - 1) = k_ldpc + i - 1
    BY Sizes
  <2> QED BY <1>1, <2>1
<1>5. k_ldpc + i \in h <=> ((i \in T) <=> ~(i > 0 /\ k_ldpc + i - 1 \in h))
  BY <1>3, <1>4, Zenon
<1> QED BY <1>2, <1>5, RowParity

\* The check matrix accepts nothing else.
LEMMA ConvergedEncoded ==
  ASSUME NEW h \in SUBSET (0 .. fec_len - 1), Converged(h)
  PROVE  h = ldpc_encode(h \cap (0 .. k_ldpc - 1))
<1> DEFINE info == h \cap (0 .. k_ldpc - 1)
           T == Toggled(info)
           c == ldpc_encode(info)
           S == {i \in Nat : i < parities => (k_ldpc + i \in h <=> Odd({j \in T : j <= i}))}
<1>1. /\ T \in SUBSET (0 .. parities - 1)
      /\ c \in SUBSET (0 .. fec_len - 1)
      /\ c \cap (0 .. k_ldpc - 1) = info
      /\ \A j \in 0 .. parities - 1 : k_ldpc + j \in c <=> Odd({l \in T : l <= j})
  <2>1. info \in SUBSET (0 .. k_ldpc - 1)
    OBVIOUS
  <2> QED BY <2>1, EncodedBits
<1>2. ASSUME NEW i \in 0 .. parities - 1
      PROVE  k_ldpc + i \in h <=> ((i \in T) <=> ~(i > 0 /\ k_ldpc + i - 1 \in h))
  <2>1. Cardinality({e \in RowEdges[i] : e[2] \in h}) % 2 = 0
    BY DEF Converged
  <2> QED BY <2>1, RowParity
<1> HIDE DEF T, c, info
<1>3. ASSUME NEW i \in 0 .. parities - 1,
             i > 0 => (k_ldpc + i - 1 \in h <=> Odd({j \in T : j <= i - 1}))
      PROVE  k_ldpc + i \in h <=> Odd({j \in T : j <= i})
  <2>1. Odd({j \in T : j <= i})
          <=> ((i \in T) <=> ~(i > 0 /\ Odd({j \in T : j <= i - 1})))
    BY <1>1, Accumulate
  <2> QED BY <1>2, <1>3, <2>1, Zenon
<1>4. 0 \in S
  <2>1. 0 \in 0 .. parities - 1 /\ ~(0 > 0)
    BY Sizes
  <2> QED BY <2>1, <1>3
<1>5. ASSUME NEW i \in Nat, i \in S PROVE i + 1 \in S
  <2> SUFFICES ASSUME i + 1 < parities
               PROVE  k_ldpc + (i + 1) \in h <=> Odd({j \in T : j <= i + 1})
    OBVIOUS
  <2>1. /\ i + 1 \in 0 .. parities - 1 /\ (i + 1) - 1 = i
        /\ k_ldpc + (i + 1) - 1 = k_ldpc + i /\ i < parities
    BY Sizes
  <2>2. k_ldpc + (i + 1) - 1 \in h <=> Odd({j \in T : j <= (i + 1) - 1})
    BY <2>1, <1>5
  <2> HIDE DEF S
  <2> QED BY <1>3, <2>1, <2>2
<1>6. \A i \in Nat : i \in S
  <2> HIDE DEF S
  <2> QED BY <1>4, <1>5, SetInduction
<1>7. \A i \in 0 .. parities - 1 : k_ldpc + i \in h <=> k_ldpc + i \in c
  <2> TAKE i \in 0 .. parities - 1
  <2>1. i \in S /\ i < parities
    BY <1>6, Sizes
  <2> QED BY <2>1, <1>1
<1>8. \A b \in 0 .. fec_len - 1 : b \in h <=> b \in c
  <2> TAKE b \in 0 .. fec_len - 1
  <2>1. CASE b \in 0 .. k_ldpc - 1
    BY <2>1, <1>1 DEF info
  <2>2. CASE b \notin 0 .. k_ldpc - 1
    <3>1. b - k_ldpc \in 0 .. parities - 1 /\ k_ldpc + (b - k_ldpc) = b
      BY <2>2, Sizes
    <3> QED BY <3>1, <1>7
  <2> QED BY <2>1, <2>2
<1>9. h = c
  BY <1>1, <1>8
<1> QED BY <1>9 DEF c, info

\* The contents of the shift register of the outer code.
Stages == SUBSET (0 .. parity_len - 1)

\* The register keeps its length.
LEMMA LfsrRange ==
  ASSUME EncoderInit = 0, NEW lfsr \in Stages, NEW bit \in BOOLEAN
  PROVE  LfsrStep(lfsr, bit) \in Stages
<1>1. parity_len \in Nat \ {0}
  <2>1. k_bch \in Int /\ n_bch \in Int /\ n_bch > k_bch
    BY BchAssumption
  <2> QED BY <2>1 DEF parity_len
<1>2. gen_poly \subseteq 0 .. parity_len
  BY DEF EncoderInit
<1>3. gen_poly \ {parity_len} \in Stages
  BY <1>1, <1>2 DEF Stages
<1>4. {j + 1 : j \in lfsr \ {parity_len - 1}} \in Stages
  BY <1>1 DEF Stages
<1> QED BY <1>3, <1>4, Zenon DEF LfsrStep, gf_add, Stages

\* The registers of bch_encode for this input.
Registers(input, num) ==
  {f \in [0 .. num -> Stages] :
     \A i \in 0 .. num : f[i] = IF i = 0 THEN {} ELSE LfsrStep(f[i - 1], (i - 1) \in input)}

\* There are registers for any length of input.
LEMMA RegistersExist ==
  ASSUME EncoderInit = 0, NEW input
  PROVE  \A num \in Nat : Registers(input, num) # {}
<1> DEFINE S == {num \in Nat : Registers(input, num) # {}}
<1>1. 0 \in S
  <2> DEFINE f == [i \in 0 .. 0 |-> {}]
  <2>1. f \in Registers(input, 0)
    BY DEF Registers, Stages
  <2> QED BY <2>1
<1>2. ASSUME NEW num \in Nat, num \in S PROVE num + 1 \in S
  <2>1. PICK f : f \in Registers(input, num)
    BY <1>2
  <2> DEFINE g == [i \in 0 .. num + 1 |->
                     IF i = num + 1 THEN LfsrStep(f[num], num \in input) ELSE f[i]]
  <2>2. /\ f \in [0 .. num -> Stages]
        /\ \A i \in 0 .. num :
             f[i] = IF i = 0 THEN {} ELSE LfsrStep(f[i - 1], (i - 1) \in input)
    BY <2>1 DEF Registers
  <2>3. LfsrStep(f[num], num \in input) \in Stages
    <3>1. f[num] \in Stages
      BY <2>2
    <3>2. (num \in input) \in BOOLEAN
      OBVIOUS
    <3> QED BY <3>1, <3>2, LfsrRange, Zenon
  <2>4. g \in [0 .. num + 1 -> Stages]
    BY <2>2, <2>3
  <2>5. ASSUME NEW i \in 0 .. num + 1
        PROVE  g[i] = IF i = 0 THEN {} ELSE LfsrStep(g[i - 1], (i - 1) \in input)
    <3>1. CASE i = num + 1
      <4>1. i - 1 = num /\ i # 0 /\ num \in 0 .. num + 1 /\ num # num + 1
        BY <3>1
      <4>2. g[i] = LfsrStep(f[num], num \in input) /\ g[num] = f[num]
        BY <3>1, <4>1
      <4> QED BY <4>1, <4>2
    <3>2. CASE i # num + 1
      <4>1. i \in 0 .. num
        BY <3>2
      <4>2. i # 0 => i - 1 \in 0 .. num /\ i - 1 # num + 1 /\ i - 1 \in 0 .. num + 1
        BY <4>1
      <4>3. g[i] = f[i] /\ (i # 0 => g[i - 1] = f[i - 1])
        BY <3>2, <4>2
      <4> QED BY <2>2, <4>1, <4>3
    <3> QED BY <3>1, <3>2
  <2> HIDE DEF g
  <2>6. g \in Registers(input, num + 1)
    BY <2>4, <2>5 DEF Registers
  <2> QED BY <2>6
<1> HIDE DEF S
<1>3. \A num \in Nat : num \in S
  BY <1>1, <1>2, SetInduction
<1> QED BY <1>3 DEF S

\* A codeword of the outer code has its length (dvbs2x_bch_encode).
LEMMA BchRange ==
  ASSUME EncoderInit = 0, NEW input \in Info
  PROVE  bch_encode(input) \in SUBSET (0 .. n_bch - 1)
<1> DEFINE IsLfsr(f) ==
             f = [i \in 0 .. k_bch |->
                    IF i = 0 THEN {} ELSE LfsrStep(f[i - 1], (i - 1) \in input)]
           lfsr == CHOOSE f : IsLfsr(f)
<1>1. bch_encode(input) = input \cup {k_bch + parity_len - 1 - j : j \in lfsr[k_bch]}
  BY DEF bch_encode
<1>2. k_bch \in Nat /\ n_bch \in Nat /\ parity_len \in Nat /\ n_bch = k_bch + parity_len
  <2>1. k_bch \in Nat \ {0} /\ n_bch \in Int /\ n_bch > k_bch
    BY BchAssumption
  <2> QED BY <2>1 DEF parity_len
<1>3. \E f : IsLfsr(f)
  <2>1. PICK f : f \in Registers(input, k_bch)
    BY <1>2, RegistersExist
  <2>2. f = [i \in 0 .. k_bch |-> f[i]]
    BY <2>1 DEF Registers
  <2>3. IsLfsr(f)
    BY <2>1, <2>2, Zenon DEF Registers
  <2> QED BY <2>3
<1>4. IsLfsr(lfsr)
  <2> HIDE DEF IsLfsr
  <2> QED BY <1>3, Zenon
<1> HIDE DEF lfsr
<1>5. \A i \in 0 .. k_bch :
        lfsr[i] = IF i = 0 THEN {} ELSE LfsrStep(lfsr[i - 1], (i - 1) \in input)
  BY <1>4, Zenon
<1> DEFINE S == {i \in Nat : i <= k_bch => lfsr[i] \in Stages}
<1>6. 0 \in S
  BY <1>5, <1>2 DEF Stages
<1>7. ASSUME NEW i \in Nat, i \in S PROVE i + 1 \in S
  <2> SUFFICES ASSUME i + 1 <= k_bch PROVE lfsr[i + 1] \in Stages
    OBVIOUS
  <2>1. lfsr[i] \in Stages
    BY <1>2, <1>7
  <2>2. i + 1 \in 0 .. k_bch /\ i + 1 # 0 /\ (i + 1) - 1 = i
    BY <1>2
  <2>3. lfsr[i + 1] = LfsrStep(lfsr[i], i \in input)
    <3>1. lfsr[i + 1] = LfsrStep(lfsr[(i + 1) - 1], ((i + 1) - 1) \in input)
      BY <1>5, <2>2, Zenon
    <3> QED BY <2>2, <3>1
  <2>4. (i \in input) \in BOOLEAN
    OBVIOUS
  <2>5. LfsrStep(lfsr[i], i \in input) \in Stages
    BY <2>1, <2>4, LfsrRange, Zenon
  <2> QED BY <2>3, <2>5
<1>8. lfsr[k_bch] \in Stages
  <2>1. \A i \in Nat : i \in S
    <3> HIDE DEF S
    <3> QED BY <1>6, <1>7, SetInduction
  <2>2. k_bch \in S
    BY <2>1, <1>2
  <2> QED BY <2>2, <1>2
<1>9. \A j \in lfsr[k_bch] : k_bch + parity_len - 1 - j \in 0 .. n_bch - 1
  BY <1>2, <1>8 DEF Stages
<1>10. \A b \in input : b \in 0 .. n_bch - 1
  BY <1>2 DEF Info
<1> QED BY <1>1, <1>9, <1>10

----------------------------------------------------------------------------
(* The decoder *)

\* What is decoded is a word of the code's length, a return of 0 a codeword.
CodeInv ==
  /\ EncoderInit = 0 /\ bbframe \in Info
  /\ ldpc_cw = ldpc_encode(LdpcInfo(bbframe))
  /\ noise \in SUBSET (0 .. k_ldpc - 1)
  /\ hard \in SUBSET (0 .. fec_len - 1)
  /\ stage \in {"ldpc", "rows", "check"} => ret = -1
  /\ ret = 0 => Converged(hard)

\* The word the modulator hands to the inner code begins with xs zeros.
LEMMA InfoRange ==
  ASSUME EncoderInit = 0, NEW frame \in Info
  PROVE  LdpcInfo(frame) \in SUBSET (0 .. k_ldpc - 1) /\ \A b \in LdpcInfo(frame) : b >= xs
<1>1. bch_encode(frame) \in SUBSET (0 .. n_bch - 1)
  BY BchRange
<1>2. xs \in Nat /\ n_bch \in Int /\ xs + n_bch = k_ldpc
  BY FecAssumption, BchAssumption
<1> QED BY <1>1, <1>2 DEF LdpcInfo

\* The first state has the invariant.
LEMMA InitCodeInv == Init => CodeInv
<1> SUFFICES ASSUME Init PROVE CodeInv
  OBVIOUS
<1>1. bbframe \in Info
  BY FecAssumption DEF Init
<1>2. noise \in SUBSET (0 .. k_ldpc - 1)
  <2>1. CASE noise = {}
    BY <2>1
  <2>2. CASE noise # {}
    <3>1. \E e \in UNION {kSubset(c, xs .. k_ldpc - 1) : c \in 1 .. MaxFlips} : noise = e
      BY <2>2 DEF Init
    <3>2. noise \in SUBSET (xs .. k_ldpc - 1)
      BY <3>1 DEF kSubset
    <3>3. xs \in Nat
      BY FecAssumption
    <3> QED BY <3>2, <3>3, Sizes
  <2> QED BY <2>1, <2>2
<1> QED BY <1>1, <1>2 DEF Init, CodeInv

\* Every step keeps it.
LEMMA NextCodeInv == CodeInv /\ [Next]_vars => CodeInv'
<1> SUFFICES ASSUME CodeInv, [Next]_vars PROVE CodeInv'
  OBVIOUS
<1> USE DEF sentVars, ldpcVars, bchVars
<1>1. CASE LdpcDecided
  <2>1. /\ stage' = "check" /\ ret' = -1
        /\ UNCHANGED <<bbframe, ldpc_cw, noise>>
    BY <1>1 DEF LdpcDecided, CodeInv
  <2>2. hard' \in SUBSET (0 .. fec_len - 1)
    <3>1. CASE hard' = HardDecision(llr, msg)
      BY <3>1 DEF HardDecision
    <3>2. CASE \E wrong \in {{}, noise, ldpc_encode(noise)} : hard' = gf_add(ldpc_cw, wrong)
      <4>1. PICK wrong \in {{}, noise, ldpc_encode(noise)} : hard' = gf_add(ldpc_cw, wrong)
        BY <3>2
      <4>2. LdpcInfo(bbframe) \in SUBSET (0 .. k_ldpc - 1)
        BY InfoRange DEF CodeInv
      <4>3. /\ ldpc_cw \in SUBSET (0 .. fec_len - 1)
            /\ ldpc_encode(noise) \in SUBSET (0 .. fec_len - 1)
        BY <4>2, EncodedBits DEF CodeInv
      <4>4. noise \in SUBSET (0 .. fec_len - 1)
        BY Sizes DEF CodeInv
      <4>5. wrong \in SUBSET (0 .. fec_len - 1)
        BY <4>1, <4>3, <4>4
      <4> QED BY <4>1, <4>3, <4>5 DEF gf_add
    <3> QED BY <1>1, <3>1, <3>2 DEF LdpcDecided
  <2> QED BY <2>1, <2>2 DEF CodeInv
<1>2. CASE LdpcCheck
  <2>1. UNCHANGED <<bbframe, ldpc_cw, noise, hard>>
    BY <1>2 DEF LdpcCheck
  <2>2. (stage' = "returned" /\ Converged(hard)) \/ (stage' = "ldpc" /\ ret' = ret)
    <3>1. CASE ~Unchecked(iter) /\ Converged(hard)
      BY <1>2, <3>1, Zenon DEF LdpcCheck
    <3>2. CASE ~(~Unchecked(iter) /\ Converged(hard))
      <4>1. stage' = "ldpc" /\ UNCHANGED <<ret, iter_used>>
        BY <1>2, <3>2, Zenon DEF LdpcCheck
      <4> QED BY <4>1
    <3> QED BY <3>1, <3>2
  <2>3. stage = "check"
    BY <1>2 DEF LdpcCheck
  <2>4. Converged(hard)' <=> Converged(hard)
    BY <2>1 DEF Converged
  <2> QED BY <2>1, <2>2, <2>3, <2>4 DEF CodeInv
<1>3. CASE LdpcCancelled
  <2>1. /\ UNCHANGED <<bbframe, ldpc_cw, noise>>
        /\ ret' = -1 /\ hard' = {} /\ stage' = "returned"
    BY <1>3 DEF LdpcCancelled
  <2> QED BY <2>1 DEF CodeInv
<1>4. CASE LdpcExhausted
  <2>1. /\ UNCHANGED <<bbframe, ldpc_cw, noise, hard>>
        /\ ret' = -1 /\ stage' = "returned"
    BY <1>4 DEF LdpcExhausted
  <2> QED BY <2>1 DEF CodeInv
<1>5. CASE /\ UNCHANGED <<bbframe, ldpc_cw, noise, hard, ret>>
           /\ stage' \in {"ldpc", "rows", "check"} => stage \in {"ldpc", "rows", "check"}
  <2>1. Converged(hard)' <=> Converged(hard)
    BY <1>5 DEF Converged
  <2> QED BY <1>5, <2>1 DEF CodeInv
<1>6. CASE LdpcBegin \/ LdpcRow \/ RequestCancel
  BY <1>5, <1>6 DEF LdpcBegin, LdpcRow, RequestCancel
<1>7. CASE LdpcReturned \/ BchSyndromes \/ BchIteration \/ BchCorrect
  BY <1>5, <1>7 DEF LdpcReturned, BchSyndromes, BchIteration, BchCorrect, Finish
<1>8. CASE UNCHANGED vars
  BY <1>5, <1>8 DEF vars
<1> QED BY <1>1, <1>2, <1>3, <1>4, <1>6, <1>7, <1>8 DEF Next

\* Encoder and decoder have one code (ldpc_encode.c:72, ldpc_decode.c:126): a
\* word the decoder returns as converged is what the encoder makes of its
\* information part.
THEOREM OneCode == Spec => []ConvergedIsEncoded
<1>1. CodeInv => ConvergedIsEncoded
  <2> SUFFICES ASSUME CodeInv, ret = 0
               PROVE  hard = ldpc_encode(hard \cap (0 .. k_ldpc - 1))
    BY DEF ConvergedIsEncoded
  <2> QED BY ConvergedEncoded DEF CodeInv
<1> QED BY <1>1, InitCodeInv, NextCodeInv, PTL DEF Spec

\* The ratio of bit v that says the truth.
Truth(v) == IF v \in ldpc_cw THEN -1 ELSE 1

\* What the channel says, and what the edges say, is true.
LlrTrue == \A v \in 0 .. fec_len - 1 : llr[v] \in {0, Truth(v)}
MsgTrue == /\ msg = [e \in Edges |-> msg[e]]
           /\ \A e \in Edges : msg[e] \in {0, Truth(e[2])}

\* Without noise nobody says anything wrong.
MessageInv == CodeInv /\ row \in Nat /\ (noise = {} => LlrTrue /\ MsgTrue)

\* An edge joins a row and a bit that exist.
LEMMA EdgeRange == \A e \in Edges : e[1] \in 0 .. parities - 1 /\ e[2] \in 0 .. fec_len - 1
<1> SUFFICES ASSUME NEW e \in Edges
             PROVE  e[1] \in 0 .. parities - 1 /\ e[2] \in 0 .. fec_len - 1
  OBVIOUS
<1>1. CASE \E f \in Entries : e = <<DecoderRow(f), BitOf(f), f[3]>>
  <2>1. PICK f \in Entries : e = <<DecoderRow(f), BitOf(f), f[3]>>
    BY <1>1
  <2>2. BitOf(f) \in 0 .. k_ldpc - 1 /\ DecoderRow(f) \in 0 .. parities - 1
    BY BitRange, AddrRange
  <2> QED BY <2>1, <2>2, Sizes
<1>2. CASE \E j \in 0 .. parities - 1 : e = <<j, k_ldpc + j, 0>>
  BY <1>2, Sizes
<1>3. CASE \E j \in 1 .. parities - 1 : e = <<j, k_ldpc + j - 1, 0>>
  BY <1>3, Sizes
<1> QED BY <1>1, <1>2, <1>3 DEF Edges

\* What a variable says is true if all that it has heard is.
LEMMA BeliefTrue ==
  ASSUME LlrTrue, MsgTrue, NEW v \in 0 .. fec_len - 1, NEW X
  PROVE  Belief(llr, msg, v, X) \in {0, Truth(v)}
<1> DEFINE said == {llr[v]} \cup {msg[e] : e \in ColEdges[v] \ X}
<1>1. \A e \in ColEdges[v] : e \in Edges /\ e[2] = v
  BY DEF ColEdges
<1>2. \A e \in ColEdges[v] : msg[e] \in {0, Truth(v)}
  BY <1>1 DEF MsgTrue
<1>3. said \subseteq {0, Truth(v)}
  BY <1>2 DEF LlrTrue
<1>4. Belief(llr, msg, v, X) = IF 1 \in said THEN 1 ELSE IF -1 \in said THEN -1 ELSE 0
  BY DEF Belief
<1> HIDE DEF said
<1> QED BY <1>3, <1>4 DEF Truth

\* A row whose bits are even tells each of them from the others.
LEMMA RowTells ==
  ASSUME CodeInv, NEW i \in 0 .. parities - 1, NEW e \in RowEdges[i], NEW v2c,
         \A f \in RowEdges[i] : v2c[f] \in {0, Truth(f[2])}
  PROVE  Boxplus(v2c, RowEdges[i] \ {e}) \in {0, Truth(e[2])}
<1> DEFINE S == RowEdges[i] \ {e}
           N == {f \in S : v2c[f] = -1}
           A == {f \in RowEdges[i] : f[2] \in ldpc_cw}
<1>1. IsFiniteSet(A) /\ ~Odd(A)
  <2>1. IsFiniteSet(A)
    BY RowParity
  <2>2. Converged(ldpc_cw)
    BY InfoRange, EncodedConverges DEF CodeInv
  <2>3. Cardinality(A) % 2 = 0
    BY <2>2 DEF Converged
  <2> QED BY <2>1, <2>3, OddNot
<1>2. CASE \E f \in S : v2c[f] = 0
  BY <1>2 DEF Boxplus
<1>3. CASE ~\E f \in S : v2c[f] = 0
  <2>1. N = A \ {e}
    <3>1. \A f \in S : v2c[f] = -1 <=> f[2] \in ldpc_cw
      BY <1>3 DEF Truth
    <3> QED BY <3>1
  <2> HIDE DEF A
  <2>2. IsFiniteSet(N)
    BY <1>1, <2>1, FS_RemoveElement
  <2>3. Odd(N) <=> e \in A
    <3>1. CASE e \in A
      <4>1. A = N \cup {e} /\ N \cap {e} = {}
        BY <2>1, <3>1
      <4>2. Odd(N \cup {e}) <=> (Odd(N) <=> ~Odd({e}))
        BY <2>2, <4>1, OddSmall, OddUnion
      <4> QED BY <1>1, <3>1, <4>1, <4>2, OddSmall
    <3>2. CASE e \notin A
      <4>1. N = A
        BY <2>1, <3>2
      <4> QED BY <1>1, <3>2, <4>1
    <3> QED BY <3>1, <3>2
  <2>4. Cardinality(N) % 2 = 0 <=> e[2] \notin ldpc_cw
    <3>1. e \in A <=> e[2] \in ldpc_cw
      BY DEF A
    <3> QED BY <2>2, <2>3, <3>1, OddNot
  <2>5. Boxplus(v2c, S) = IF Cardinality(N) % 2 = 0 THEN 1 ELSE -1
    BY <1>3 DEF Boxplus
  <2> HIDE DEF N, S
  <2>6. Boxplus(v2c, S) = Truth(e[2])
    BY <2>4, <2>5 DEF Truth
  <2> QED BY <2>6 DEF S
<1> QED BY <1>2, <1>3

\* A check node leaves true messages behind.
LEMMA RowUpdateTrue ==
  ASSUME CodeInv, LlrTrue, MsgTrue, NEW i \in 0 .. parities - 1
  PROVE  \A e \in Edges : RowUpdate(llr, msg, i)[e] \in {0, Truth(e[2])}
<1> TAKE e \in Edges
<1> DEFINE v2c == [f \in RowEdges[i] |-> Belief(llr, msg, f[2], {f})]
<1>1. RowUpdate(llr, msg, i)[e]
        = IF e[1] # i THEN msg[e]
          ELSE IF Cardinality(RowEdges[i]) = 1 THEN 0
          ELSE Boxplus(v2c, RowEdges[i] \ {e})
  BY DEF RowUpdate
<1>2. \A f \in RowEdges[i] : f[2] \in 0 .. fec_len - 1
  BY EdgeRange DEF RowEdges
<1>3. \A f \in RowEdges[i] : v2c[f] \in {0, Truth(f[2])}
  BY <1>2, BeliefTrue
<1>4. e[1] = i => e \in RowEdges[i]
  BY DEF RowEdges
<1>5. msg[e] \in {0, Truth(e[2])}
  BY DEF MsgTrue
<1> HIDE DEF v2c
<1>6. e[1] = i => Boxplus(v2c, RowEdges[i] \ {e}) \in {0, Truth(e[2])}
  BY <1>3, <1>4, RowTells
<1> QED BY <1>1, <1>5, <1>6

\* The channel says the truth where it says something.
LEMMA InitMessageInv == Init => MessageInv
<1> SUFFICES ASSUME Init PROVE MessageInv
  OBVIOUS
<1>1. CodeInv /\ row \in Nat
  BY InitCodeInv DEF Init
<1>2. MsgTrue
  BY DEF Init, MsgTrue
<1>3. ASSUME NEW erased
      PROVE  \A v \in 0 .. fec_len - 1 : FullLlr(ldpc_cw, erased)[v] \in {0, Truth(v)}
  <2> TAKE v \in 0 .. fec_len - 1
  <2>1. v < xs => v \notin ldpc_cw
    <3>1. LdpcInfo(bbframe) \in SUBSET (0 .. k_ldpc - 1) /\ \A b \in LdpcInfo(bbframe) : b >= xs
      BY <1>1, InfoRange DEF CodeInv
    <3>2. ldpc_cw \cap (0 .. k_ldpc - 1) = LdpcInfo(bbframe)
      BY <1>1, <3>1, EncodedBits DEF CodeInv
    <3>3. xs \in Nat /\ xs <= k_ldpc
      BY FecAssumption, BchAssumption
    <3>4. v < xs => v \in 0 .. k_ldpc - 1
      BY <3>3, Sizes
    <3>5. v < xs /\ v \in LdpcInfo(bbframe) => FALSE
      BY <3>1, <3>3
    <3> QED BY <3>2, <3>4, <3>5
  <2> QED BY <2>1, Zenon DEF FullLlr, Truth
<1>4. LlrTrue
  <2>1. \E erased : llr = FullLlr(ldpc_cw, erased)
    BY DEF Init
  <2> QED BY <1>3, <2>1 DEF LlrTrue
<1> QED BY <1>1, <1>2, <1>4 DEF MessageInv

\* Every step keeps the messages true.
LEMMA NextMessageInv == MessageInv /\ [Next]_vars => MessageInv'
<1> SUFFICES ASSUME MessageInv, [Next]_vars PROVE MessageInv'
  OBVIOUS
<1> USE DEF sentVars, ldpcVars, bchVars
<1>1. CodeInv'
  BY NextCodeInv DEF MessageInv
<1>2. UNCHANGED <<ldpc_cw, llr, noise>>
  BY DEF Next, vars, RequestCancel, LdpcBegin, LdpcRow, LdpcDecided, LdpcCheck, LdpcCancelled,
         LdpcExhausted, LdpcReturned, BchSyndromes, BchIteration, BchCorrect
<1>3. LlrTrue' <=> LlrTrue
  BY <1>2 DEF LlrTrue, Truth
<1>4. CASE LdpcRow
  <2>1. noise = {} /\ row \in 0 .. parities - 1 /\ row' = row + 1
        /\ msg' = RowUpdate(llr, msg, row)
    BY <1>4, Sizes DEF LdpcRow, MessageInv
  <2>2. \A e \in Edges : msg'[e] \in {0, Truth(e[2])}
    BY <2>1, RowUpdateTrue DEF MessageInv
  <2>3. msg' = [e \in Edges |-> msg'[e]]
    BY <2>1 DEF RowUpdate
  <2>4. MsgTrue'
    BY <1>2, <2>2, <2>3 DEF MsgTrue, Truth
  <2> QED BY <1>1, <1>2, <1>3, <2>1, <2>4 DEF MessageInv
<1>5. CASE ~LdpcRow
  <2>1. msg' = msg /\ row' \in {0, row}
    BY <1>5 DEF Next, vars, RequestCancel, LdpcBegin, LdpcDecided, LdpcCheck, LdpcCancelled,
         LdpcExhausted, LdpcReturned, BchSyndromes, BchIteration, BchCorrect
  <2>2. MsgTrue' <=> MsgTrue
    BY <1>2, <2>1 DEF MsgTrue, Truth
  <2> QED BY <1>1, <1>2, <1>3, <2>1, <2>2 DEF MessageInv
<1> QED BY <1>4, <1>5

\* Where bits are only erased, every message of update_check_node that says
\* something says what was sent (ldpc_decode.c:389), in any order of the rows.
THEOREM MessagesTellTruth == Spec => []MessagesTrue
<1>1. MessageInv => MessagesTrue
  BY DEF MessageInv, MsgTrue, MessagesTrue, Truth
<1> QED BY <1>1, InitMessageInv, NextMessageInv, PTL DEF Spec

----------------------------------------------------------------------------
(* Erasures: the iterations keep up with peeling *)

\* Edges that say the truth or nothing.
Truthful(m) == \A e \in Edges : m[e] \in {0, Truth(e[2])}

\* The bits nobody has told anything about.
Unknown(m) == {v \in 0 .. fec_len - 1 : Belief(llr, m, v, {}) = 0}

\* An edge that says something would say it again.
Stable(m) ==
  \A e \in Edges : m[e] # 0 =>
    \A f \in RowEdges[e[1]] \ {e} : Belief(llr, m, f[2], {f}) # 0

\* Row r tells bit v from the bits outside X.
Tells(X, r, v) ==
  LET open == {e \in RowEdges[r] : e[2] \in X}
  IN ~({e[2] : e \in open} = {v} => Cardinality(open) # 1)

\* No row has a single edge.
LEMMA NoLone == \A i \in 0 .. parities - 1 : Cardinality(RowEdges[i]) # 1
<1> SUFFICES ASSUME NEW i \in 0 .. parities - 1, Cardinality(RowEdges[i]) = 1 PROVE FALSE
  OBVIOUS
<1> DEFINE own == <<i, k_ldpc + i, 0>>
<1>1. RowEdges[i] = {e \in Edges : e[1] = i}
  BY DEF RowEdges
<1>2. own \in RowEdges[i]
  BY <1>1 DEF Edges
<1>3. \E e \in RowEdges[i] : e # own
  <2>1. CASE i = 0
    <3>1. PICK f \in Entries : DecoderRow(f) = 0
      BY FirstRowAssumption
    <3>2. TableEdge(f) \in RowEdges[i]
      BY <1>1, <2>1, <3>1 DEF Edges, TableEdge
    <3>3. TableEdge(f) # own
      BY EntryType DEF TableEdge
    <3> QED BY <3>2, <3>3
  <2>2. CASE i # 0
    <3>1. i \in 1 .. parities - 1
      BY <2>2, Sizes
    <3>2. <<i, k_ldpc + i - 1, 0>> \in RowEdges[i]
      BY <1>1, <3>1 DEF Edges
    <3>3. <<i, k_ldpc + i - 1, 0>> # own
      BY Sizes
    <3> QED BY <3>2, <3>3
  <2> QED BY <2>1, <2>2
<1>4. IsFiniteSet(RowEdges[i])
  <2>1. IsFiniteSet({e \in RowEdges[i] : e[2] \in 0 .. fec_len - 1})
    BY RowParity
  <2>2. {e \in RowEdges[i] : e[2] \in 0 .. fec_len - 1} = RowEdges[i]
    BY <1>1, EdgeRange
  <2> QED BY <2>1, <2>2
<1>5. \E x : RowEdges[i] = {x}
  <2> HIDE DEF own
  <2> QED BY <1>4, FS_Singleton
<1> QED BY <1>2, <1>3, <1>5

\* A bit says nothing if it has heard nothing.
LEMMA BeliefZero ==
  ASSUME LlrTrue, NEW m, Truthful(m), NEW v \in 0 .. fec_len - 1, NEW X
  PROVE  Belief(llr, m, v, X) = 0
           <=> llr[v] = 0 /\ \A e \in ColEdges[v] \ X : m[e] = 0
<1> DEFINE said == {llr[v]} \cup {m[e] : e \in ColEdges[v] \ X}
<1>1. \A e \in ColEdges[v] : e \in Edges /\ e[2] = v
  BY DEF ColEdges
<1>2. \A e \in ColEdges[v] : m[e] \in {0, Truth(v)}
  BY <1>1 DEF Truthful
<1>3. said \subseteq {0, Truth(v)}
  BY <1>2 DEF LlrTrue
<1>4. Belief(llr, m, v, X) = IF 1 \in said THEN 1 ELSE IF -1 \in said THEN -1 ELSE 0
  BY DEF Belief
<1>5. (\A s \in said : s = 0) <=> llr[v] = 0 /\ \A e \in ColEdges[v] \ X : m[e] = 0
  OBVIOUS
<1> HIDE DEF said
<1>6. Belief(llr, m, v, X) = 0 <=> \A s \in said : s = 0
  BY <1>3, <1>4 DEF Truth
<1> QED BY <1>5, <1>6

\* What a row has sent after its turn.
LEMMA RowSent ==
  ASSUME NEW m, NEW i \in 0 .. parities - 1, NEW e \in Edges
  PROVE  /\ e[1] # i => RowUpdate(llr, m, i)[e] = m[e]
         /\ e[1] = i => (RowUpdate(llr, m, i)[e] # 0
                           <=> \A f \in RowEdges[i] \ {e} : Belief(llr, m, f[2], {f}) # 0)
<1> DEFINE v2c == [f \in RowEdges[i] |-> Belief(llr, m, f[2], {f})]
           S == RowEdges[i] \ {e}
<1>1. RowUpdate(llr, m, i)[e] = IF e[1] # i THEN m[e] ELSE Boxplus(v2c, S)
  BY NoLone DEF RowUpdate
<1>2. Boxplus(v2c, S) # 0 <=> \A f \in S : v2c[f] # 0
  <2>1. ASSUME NEW w, NEW T PROVE Boxplus(w, T) # 0 <=> \A f \in T : w[f] # 0
    <3>1. CASE \E f \in T : w[f] = 0
      BY <3>1 DEF Boxplus
    <3>2. CASE ~\E f \in T : w[f] = 0
      <4>1. Boxplus(w, T) \in {1, -1}
        BY <3>2 DEF Boxplus
      <4> QED BY <3>2, <4>1
    <3> QED BY <3>1, <3>2
  <2> QED BY <2>1
<1>3. \A f \in S : v2c[f] = Belief(llr, m, f[2], {f})
  OBVIOUS
<1> HIDE DEF v2c, S
<1>4. Boxplus(v2c, S) # 0 <=> \A f \in S : Belief(llr, m, f[2], {f}) # 0
  BY <1>2, <1>3
<1> QED BY <1>1, <1>4 DEF S

\* Nothing is forgotten: what is known stays known, and so does why.
LEMMA NothingForgotten ==
  ASSUME CodeInv, LlrTrue, MsgTrue, Stable(msg), NEW i \in 0 .. parities - 1,
         NEW m, m = RowUpdate(llr, msg, i)
  PROVE  /\ Truthful(m)
         /\ \A e \in Edges : msg[e] # 0 => m[e] # 0
         /\ \A v \in 0 .. fec_len - 1 : \A X :
              Belief(llr, msg, v, X) # 0 => Belief(llr, m, v, X) # 0
         /\ Stable(m)
<1>1. Truthful(msg) /\ Truthful(m)
  BY RowUpdateTrue DEF Truthful, MsgTrue
<1>2. ASSUME NEW e \in Edges, msg[e] # 0 PROVE m[e] # 0
  <2>1. CASE e[1] = i
    <3>1. \A f \in RowEdges[i] \ {e} : Belief(llr, msg, f[2], {f}) # 0
      BY <1>2, <2>1 DEF Stable
    <3> QED BY <2>1, <3>1, RowSent
  <2>2. CASE e[1] # i
    BY <1>2, <2>2, RowSent
  <2> QED BY <2>1, <2>2
<1>3. ASSUME NEW v \in 0 .. fec_len - 1, NEW X, Belief(llr, msg, v, X) # 0
      PROVE  Belief(llr, m, v, X) # 0
  <2>1. \A e \in ColEdges[v] : e \in Edges
    BY DEF ColEdges
  <2>2. Belief(llr, msg, v, X) = 0
          <=> llr[v] = 0 /\ \A e \in ColEdges[v] \ X : msg[e] = 0
    BY <1>1, BeliefZero
  <2>3. Belief(llr, m, v, X) = 0
          <=> llr[v] = 0 /\ \A e \in ColEdges[v] \ X : m[e] = 0
    BY <1>1, BeliefZero
  <2> QED BY <1>2, <1>3, <2>1, <2>2, <2>3
<1>4. Stable(m)
  <2> SUFFICES ASSUME NEW e \in Edges, m[e] # 0, NEW f \in RowEdges[e[1]] \ {e}
               PROVE  Belief(llr, m, f[2], {f}) # 0
    BY DEF Stable
  <2>1. f[2] \in 0 .. fec_len - 1
    BY EdgeRange DEF RowEdges
  <2>2. Belief(llr, msg, f[2], {f}) # 0
    <3>1. CASE e[1] = i
      BY <3>1, RowSent
    <3>2. CASE e[1] # i
      <4>1. msg[e] # 0
        BY <3>2, RowSent
      <4> QED BY <4>1 DEF Stable
    <3> QED BY <3>1, <3>2
  <2> QED BY <1>3, <2>1, <2>2
<1> QED BY <1>1, <1>2, <1>3, <1>4

\* A row that can tell a bit from what is known has told it.
LEMMA RowHasTold ==
  ASSUME CodeInv, LlrTrue, MsgTrue, Stable(msg), NEW i \in 0 .. parities - 1,
         NEW m, m = RowUpdate(llr, msg, i),
         NEW X, Unknown(msg) \subseteq X, NEW v, Tells(X, i, v)
  PROVE  v \notin Unknown(m)
<1> DEFINE open == {e \in RowEdges[i] : e[2] \in X}
<1>1. {e[2] : e \in open} = {v} /\ Cardinality(open) = 1
  BY DEF Tells
<1>2. PICK e : open = {e}
  <2>1. IsFiniteSet(open)
    BY RowParity
  <2> HIDE DEF open
  <2> QED BY <1>1, <2>1, FS_Singleton
<1>3. e \in RowEdges[i] /\ e[2] = v /\ \A f \in RowEdges[i] \ {e} : f[2] \notin X
  BY <1>1, <1>2
<1> HIDE DEF open
<1>4. \A f \in RowEdges[i] :
        f \in Edges /\ f[1] = i /\ f[2] \in 0 .. fec_len - 1 /\ f \in ColEdges[f[2]]
  BY EdgeRange DEF RowEdges, ColEdges
<1>5. Truthful(msg) /\ Truthful(m)
  BY NothingForgotten DEF Truthful, MsgTrue
<1> SUFFICES Belief(llr, m, v, {}) # 0
  BY DEF Unknown
<1>6. CASE \A f \in RowEdges[i] \ {e} : Belief(llr, msg, f[2], {f}) # 0
  <2>1. m[e] # 0
    <3>1. e \in Edges /\ e[1] = i
      BY <1>3, <1>4
    <3>2. RowUpdate(llr, msg, i)[e] # 0
      BY <3>1, <1>6, RowSent
    <3> QED BY <3>2
  <2>2. e \in ColEdges[v] \ {}
    BY <1>3, <1>4
  <2> QED BY <1>3, <1>4, <1>5, <2>1, <2>2, BeliefZero
<1>7. ASSUME NEW f \in RowEdges[i] \ {e}, Belief(llr, msg, f[2], {f}) = 0
      PROVE  Belief(llr, m, v, {}) # 0
  <2>1. Belief(llr, msg, f[2], {}) # 0
    BY <1>3, <1>4 DEF Unknown
  <2>2. msg[f] # 0
    <3>1. llr[f[2]] = 0 /\ \A g \in ColEdges[f[2]] \ {f} : msg[g] = 0
      BY <1>4, <1>5, <1>7, BeliefZero
    <3>2. \E g \in ColEdges[f[2]] \ {} : msg[g] # 0
      BY <1>4, <1>5, <2>1, <3>1, BeliefZero
    <3> QED BY <3>1, <3>2
  <2>3. Belief(llr, msg, e[2], {e}) # 0
    <3>1. e \in RowEdges[f[1]] \ {f}
      BY <1>3, <1>4
    <3> QED BY <1>4, <2>2, <3>1 DEF Stable
  <2>4. Belief(llr, msg, v, {}) # 0
    <3>1. llr[v] # 0 \/ \E g \in ColEdges[v] \ {e} : msg[g] # 0
      BY <1>3, <1>4, <1>5, <2>3, BeliefZero
    <3> QED BY <1>3, <1>4, <1>5, <3>1, BeliefZero
  <2> QED BY <1>3, <1>4, <2>4, NothingForgotten
<1> QED BY <1>6, <1>7

\* What peeling leaves of the erased bits after each round, as in StoppingSet.
Left ==
  LET left[i \in 0 .. fec_len] ==
        IF i = 0 THEN {v \in 0 .. fec_len - 1 : llr[v] = 0}
        ELSE LET prev == left[i - 1]
             IN {v \in prev : \A r \in 0 .. parities - 1 :
                   LET open == {e \in RowEdges[r] : e[2] \in prev}
                   IN {e[2] : e \in open} = {v} => Cardinality(open) # 1}
  IN left

\* The bits the channel says nothing about.
Erased == {v \in 0 .. fec_len - 1 : llr[v] = 0}

\* One round of peeling.
Peel(X) == {v \in X : \A r \in 0 .. parities - 1 : ~Tells(X, r, v)}

\* What StoppingSet is: what is left after as many rounds as bits are erased.
LEMMA StoppingLeft == StoppingSet = Left[Cardinality(Erased)]
BY DEF StoppingSet, Left, Erased

\* The first m rounds.
Rounds(m) ==
  {f \in [0 .. m -> SUBSET (0 .. fec_len - 1)] :
     \A i \in 0 .. m : f[i] = IF i = 0 THEN Erased ELSE Peel(f[i - 1])}

\* There are rounds.
LEMMA RoundsExist == \A m \in Nat : Rounds(m) # {}
<1> DEFINE S == {m \in Nat : Rounds(m) # {}}
<1>1. 0 \in S
  <2> DEFINE f == [i \in 0 .. 0 |-> Erased]
  <2>1. Erased \in SUBSET (0 .. fec_len - 1)
    BY DEF Erased
  <2>2. f \in [0 .. 0 -> SUBSET (0 .. fec_len - 1)]
    BY <2>1
  <2>3. \A i \in 0 .. 0 : i = 0 /\ f[i] = Erased
    OBVIOUS
  <2> HIDE DEF f
  <2>4. f \in Rounds(0)
    BY <2>2, <2>3, Zenon DEF Rounds
  <2> QED BY <2>4
<1>2. ASSUME NEW m \in Nat, m \in S PROVE m + 1 \in S
  <2>1. PICK f : f \in Rounds(m)
    BY <1>2
  <2> DEFINE g == [i \in 0 .. m + 1 |-> IF i = m + 1 THEN Peel(f[m]) ELSE f[i]]
  <2>2. /\ f \in [0 .. m -> SUBSET (0 .. fec_len - 1)]
        /\ \A i \in 0 .. m : f[i] = IF i = 0 THEN Erased ELSE Peel(f[i - 1])
    BY <2>1 DEF Rounds
  <2>3. Peel(f[m]) \in SUBSET (0 .. fec_len - 1)
    BY <2>2 DEF Peel
  <2>4. g \in [0 .. m + 1 -> SUBSET (0 .. fec_len - 1)]
    BY <2>2, <2>3
  <2>5. ASSUME NEW i \in 0 .. m + 1
        PROVE  g[i] = IF i = 0 THEN Erased ELSE Peel(g[i - 1])
    <3>1. CASE i = m + 1
      <4>1. i - 1 = m /\ i # 0 /\ m \in 0 .. m + 1 /\ m # m + 1
        BY <3>1
      <4>2. g[i] = Peel(f[m]) /\ g[m] = f[m]
        BY <3>1, <4>1
      <4> QED BY <4>1, <4>2
    <3>2. CASE i # m + 1
      <4>1. i \in 0 .. m
        BY <3>2
      <4>2. i # 0 => i - 1 \in 0 .. m /\ i - 1 # m + 1 /\ i - 1 \in 0 .. m + 1
        BY <4>1
      <4>3. g[i] = f[i] /\ (i # 0 => g[i - 1] = f[i - 1])
        BY <3>2, <4>2
      <4> QED BY <2>2, <4>1, <4>3
    <3> QED BY <3>1, <3>2
  <2> HIDE DEF g
  <2>6. g \in Rounds(m + 1)
    BY <2>4, <2>5 DEF Rounds
  <2> QED BY <2>6
<1> HIDE DEF S
<1>3. \A m \in Nat : m \in S
  BY <1>1, <1>2, SetInduction
<1> QED BY <1>3 DEF S

\* The rounds of StoppingSet.
LEMMA LeftRounds ==
  \A i \in 0 .. fec_len : Left[i] = IF i = 0 THEN Erased ELSE Peel(Left[i - 1])
<1> DEFINE Body(f, i) ==
             IF i = 0 THEN {v \in 0 .. fec_len - 1 : llr[v] = 0}
             ELSE {v \in f[i - 1] : \A r \in 0 .. parities - 1 :
                     {e[2] : e \in {e \in RowEdges[r] : e[2] \in f[i - 1]}} = {v}
                       => Cardinality({e \in RowEdges[r] : e[2] \in f[i - 1]}) # 1}
           IsLeft(f) == f = [i \in 0 .. fec_len |-> Body(f, i)]
<1>1. Left = CHOOSE f : IsLeft(f)
  BY DEF Left
<1>2. ASSUME NEW f, NEW i \in 0 .. fec_len
      PROVE  Body(f, i) = IF i = 0 THEN Erased ELSE Peel(f[i - 1])
  BY DEF Erased, Peel, Tells
<1> HIDE DEF Body
<1>3. \E f : IsLeft(f)
  <2>1. fec_len \in Nat
    BY LdpcAssumption
  <2>2. PICK f : f \in Rounds(fec_len)
    BY <2>1, RoundsExist
  <2>3. f = [i \in 0 .. fec_len |-> f[i]]
    BY <2>2 DEF Rounds
  <2>4. \A i \in 0 .. fec_len : f[i] = Body(f, i)
    BY <1>2, <2>2 DEF Rounds
  <2>5. IsLeft(f)
    BY <2>3, <2>4, Zenon
  <2> QED BY <2>5
<1>4. IsLeft(Left)
  <2> HIDE DEF IsLeft
  <2> QED BY <1>1, <1>3, Zenon
<1>5. \A i \in 0 .. fec_len : Left[i] = Body(Left, i)
  BY <1>4, Zenon
<1> QED BY <1>2, <1>5

\* There are no more erased bits than bits.
LEMMA ErasedFew == Cardinality(Erased) \in 0 .. fec_len
<1>1. fec_len \in Nat /\ k_ldpc \in Nat \ {0}
  BY LdpcAssumption
<1>2. IsFiniteSet(0 .. fec_len - 1) /\ Cardinality(0 .. fec_len - 1) = fec_len
  BY <1>1, FS_Interval
<1>3. Erased \subseteq 0 .. fec_len - 1
  BY DEF Erased
<1> HIDE DEF Erased
<1>4. IsFiniteSet(Erased) /\ Cardinality(Erased) <= Cardinality(0 .. fec_len - 1)
  BY <1>2, <1>3, FS_Subset
<1> QED BY <1>1, <1>2, <1>4, FS_CardinalityType

\* A bit that is known is decided as it was sent.
LEMMA KnownRight ==
  ASSUME CodeInv, LlrTrue, MsgTrue, NEW v \in 0 .. fec_len - 1, v \notin Unknown(msg)
  PROVE  v \in HardDecision(llr, msg) <=> v \in ldpc_cw
<1>1. Belief(llr, msg, v, {}) \in {0, Truth(v)}
  BY BeliefTrue
<1>2. Belief(llr, msg, v, {}) = Truth(v)
  BY <1>1 DEF Unknown
<1>3. v \in HardDecision(llr, msg) <=> Truth(v) < 0
  BY <1>2 DEF HardDecision
<1> QED BY <1>3 DEF Truth

\* What has been sent is a codeword.
LEMMA SentCodeword ==
  ASSUME CodeInv
  PROVE  Converged(ldpc_cw) /\ ldpc_cw \in SUBSET (0 .. fec_len - 1)
BY InfoRange, EncodedConverges, EncodedBits DEF CodeInv

\* Two codewords that agree off the erased bits agree where peeling gets.
LEMMA AgreePeeled ==
  ASSUME CodeInv, NEW h \in SUBSET (0 .. fec_len - 1), Converged(h),
         \A v \in (0 .. fec_len - 1) \ Erased : v \in h <=> v \in ldpc_cw
  PROVE  \A k \in 0 .. fec_len : \A v \in (0 .. fec_len - 1) \ Left[k] : v \in h <=> v \in ldpc_cw
<1> DEFINE c == ldpc_cw
           D == {v \in 0 .. fec_len - 1 : ~(v \in h <=> v \in c)}
           S == {k \in Nat : k <= fec_len => D \subseteq Left[k]}
<1>0. fec_len \in Nat
  BY LdpcAssumption
<1>1. Converged(c) /\ c \in SUBSET (0 .. fec_len - 1)
  BY SentCodeword
<1>2. 0 \in S
  <2>1. Left[0] = Erased
    BY <1>0, LeftRounds
  <2> QED BY <2>1
<1>3. ASSUME NEW k \in Nat, k \in S PROVE k + 1 \in S
  <2> SUFFICES ASSUME k + 1 <= fec_len, NEW v \in D PROVE v \in Left[k + 1]
    OBVIOUS
  <2>1. D \subseteq Left[k]
    BY <1>0, <1>3
  <2>2. Left[k + 1] = Peel(Left[k])
    <3>1. k + 1 \in 0 .. fec_len /\ k + 1 # 0 /\ (k + 1) - 1 = k
      BY <1>0
    <3> QED BY <3>1, LeftRounds
  <2> SUFFICES ASSUME NEW r \in 0 .. parities - 1, Tells(Left[k], r, v) PROVE FALSE
    BY <2>1, <2>2 DEF Peel
  <2> DEFINE open == {e \in RowEdges[r] : e[2] \in Left[k]}
             H == {e \in RowEdges[r] : e[2] \in h}
             C == {e \in RowEdges[r] : e[2] \in c}
  <2>3. {e[2] : e \in open} = {v} /\ Cardinality(open) = 1
    BY DEF Tells
  <2>4. PICK e : open = {e}
    <3>1. IsFiniteSet(open)
      BY RowParity
    <3> HIDE DEF open
    <3> QED BY <2>3, <3>1, FS_Singleton
  <2>5. e \in RowEdges[r] /\ e[2] = v /\ \A f \in RowEdges[r] \ {e} : f[2] \notin Left[k]
    BY <2>3, <2>4
  <2>6. \A f \in RowEdges[r] \ {e} : f[2] \in h <=> f[2] \in c
    <3>1. \A f \in RowEdges[r] : f[2] \in 0 .. fec_len - 1
      BY EdgeRange DEF RowEdges
    <3> QED BY <2>1, <2>5, <3>1
  <2>7. IsFiniteSet(H) /\ IsFiniteSet(C) /\ ~Odd(H) /\ ~Odd(C)
    <3>1. IsFiniteSet(H) /\ IsFiniteSet(C)
      BY RowParity
    <3>2. Cardinality(H) % 2 = 0 /\ Cardinality(C) % 2 = 0
      BY <1>1 DEF Converged
    <3> HIDE DEF H, C
    <3> QED BY <3>1, <3>2, OddNot
  <2>8. (H = C \cup {e} /\ C \cap {e} = {}) \/ (C = H \cup {e} /\ H \cap {e} = {})
    <3>1. CASE v \in h
      <4>1. v \notin c
        BY <3>1
      <4> QED BY <2>5, <2>6, <3>1, <4>1
    <3>2. CASE v \notin h
      <4>1. v \in c
        BY <3>2
      <4> QED BY <2>5, <2>6, <3>2, <4>1
    <3> QED BY <3>1, <3>2
  <2> HIDE DEF H, C
  <2>9. Odd({e}) /\ IsFiniteSet({e})
    BY OddSmall
  <2>10. CASE H = C \cup {e} /\ C \cap {e} = {}
    <3>1. Odd(H) <=> (Odd(C) <=> ~Odd({e}))
      BY <2>7, <2>9, <2>10, OddUnion
    <3> QED BY <2>7, <2>9, <3>1
  <2>11. CASE C = H \cup {e} /\ H \cap {e} = {}
    <3>1. Odd(C) <=> (Odd(H) <=> ~Odd({e}))
      BY <2>7, <2>9, <2>11, OddUnion
    <3> QED BY <2>7, <2>9, <3>1
  <2> QED BY <2>8, <2>10, <2>11
<1>4. \A k \in Nat : k \in S
  <2> HIDE DEF S
  <2> QED BY <1>2, <1>3, SetInduction
<1> QED BY <1>0, <1>4

\* All that is unknown after `rounds' iterations is what as many rounds leave.
Within(rounds) == \A k \in 0 .. fec_len : k <= rounds => Unknown(msg) \subseteq Left[k]

\* The rows before `upto' can tell nothing any more.
RowsDone(upto) ==
  \A k \in 0 .. fec_len : k <= iter =>
    \A r \in 0 .. parities - 1 : r < upto =>
      \A v \in Unknown(msg) : ~Tells(Left[k], r, v)

\* Peeling gets everything, within the limit.
Fillable == StoppingSet = {} /\ Cardinality(Erased) <= limit
\* The frame is there.
Filled == ret = 0 /\ hard = ldpc_cw

\* The iterations keep up with peeling.
PeelInv ==
  /\ limit \in Nat \ {0} /\ iter \in Nat
  /\ cancel_requested \in BOOLEAN
  /\ noise = {} =>
       /\ Stable(msg)
       /\ stage \in {"ldpc", "rows"} => iter <= limit /\ Within(iter)
       /\ stage = "rows" => row \in 0 .. parities /\ RowsDone(row) /\ iter < limit
       /\ stage = "check" => Within(iter + 1) /\ iter < limit
       /\ stage = "check" \/ (stage = "ldpc" /\ iter > 0) => hard = HardDecision(llr, msg)
       /\ stage = "ldpc" /\ iter = limit => ~Converged(hard)
       /\ stage \in {"returned", "bch", "bm", "done"} /\ Fillable =>
            \/ Filled
            \/ /\ ret = -1 /\ cancel_requested
               /\ stage = "returned" \/ (stage = "done" /\ result = "CANCELLED")

\* Together with what the messages say.
FillInv == MessageInv /\ PeelInv

\* What has been noticed as a codeword is the one that was sent.
LEMMA OnlyOne ==
  ASSUME FillInv, noise = {}, Fillable, hard = HardDecision(llr, msg), Converged(hard)
  PROVE  hard = ldpc_cw
<1>1. CodeInv /\ LlrTrue /\ MsgTrue
  BY DEF FillInv, MessageInv
<1>2. hard \in SUBSET (0 .. fec_len - 1)
  BY <1>1 DEF CodeInv
<1>3. \A v \in (0 .. fec_len - 1) \ Erased : v \in hard <=> v \in ldpc_cw
  <2> TAKE v \in (0 .. fec_len - 1) \ Erased
  <2>1. llr[v] # 0
    BY DEF Erased
  <2>2. v \notin Unknown(msg)
    BY <1>1, <2>1, BeliefZero DEF Unknown, Truthful, MsgTrue
  <2> QED BY <1>1, <2>2, KnownRight
<1>4. \A v \in (0 .. fec_len - 1) \ Left[Cardinality(Erased)] : v \in hard <=> v \in ldpc_cw
  BY <1>1, <1>2, <1>3, ErasedFew, AgreePeeled
<1>5. Left[Cardinality(Erased)] = {}
  BY StoppingLeft DEF Fillable
<1>6. ldpc_cw \in SUBSET (0 .. fec_len - 1)
  BY <1>1, SentCodeword
<1> QED BY <1>2, <1>4, <1>5, <1>6

\* When the iterations are used up, nothing is left to be told.
LEMMA AllTold ==
  ASSUME FillInv, noise = {}, Fillable, stage = "ldpc", iter = limit
  PROVE  FALSE
<1>1. CodeInv /\ LlrTrue /\ MsgTrue
  BY DEF FillInv, MessageInv
<1>2. Within(iter) /\ hard = HardDecision(llr, msg) /\ ~Converged(hard)
  BY DEF FillInv, PeelInv
<1>3. Unknown(msg) \subseteq Left[Cardinality(Erased)]
  BY <1>2, ErasedFew DEF Within, Fillable
<1>4. Unknown(msg) = {}
  BY <1>3, StoppingLeft DEF Fillable
<1>5. \A v \in 0 .. fec_len - 1 : v \in hard <=> v \in ldpc_cw
  BY <1>1, <1>2, <1>4, KnownRight
<1>6. hard \in SUBSET (0 .. fec_len - 1) /\ ldpc_cw \in SUBSET (0 .. fec_len - 1)
  BY <1>1, SentCodeword DEF CodeInv
<1>7. hard = ldpc_cw
  BY <1>5, <1>6
<1> QED BY <1>1, <1>2, <1>7, SentCodeword

\* Before the first iteration everything that is erased is unknown.
LEMMA InitFillInv == Init => FillInv
<1> SUFFICES ASSUME Init PROVE FillInv
  OBVIOUS
<1>1. MessageInv
  BY InitMessageInv
<1>2. limit \in Nat \ {0}
  BY FecAssumption DEF Init
<1>3. Stable(msg)
  BY DEF Init, Stable
<1>4. noise = {} => Within(iter)
  <2> SUFFICES ASSUME noise = {} PROVE Unknown(msg) \subseteq Left[0]
    BY LdpcAssumption DEF Within, Init
  <2>1. Left[0] = Erased
    BY LdpcAssumption, LeftRounds
  <2>2. LlrTrue /\ Truthful(msg)
    BY <1>1 DEF MessageInv, MsgTrue, Truthful
  <2>3. \A v \in Unknown(msg) : v \in 0 .. fec_len - 1 /\ llr[v] = 0
    BY <2>2, BeliefZero DEF Unknown
  <2> QED BY <2>1, <2>3 DEF Erased
<1>5. stage = "ldpc" /\ iter = 0 /\ cancel_requested = FALSE
  BY DEF Init
<1>6. /\ iter \in Nat /\ iter <= limit /\ ~(iter > 0) /\ iter # limit
      /\ stage \notin {"rows", "check", "returned", "bch", "bm", "done"}
  BY <1>2, <1>5
<1>7. cancel_requested \in BOOLEAN
  BY <1>5, Zenon
<1>8. PeelInv
  BY <1>2, <1>3, <1>4, <1>6, <1>7, Zenon DEF PeelInv
<1> QED BY <1>1, <1>8 DEF FillInv

\* One row more.
LEMMA RowFills == ASSUME FillInv, LdpcRow PROVE PeelInv'
<1>1. /\ stage = "rows" /\ noise = {} /\ row < parities
      /\ msg' = RowUpdate(llr, msg, row) /\ row' = row + 1
      /\ UNCHANGED <<llr, noise, limit, iter, stage, cancel_requested, result, hard, ret, ldpc_cw>>
  BY DEF LdpcRow, sentVars, ldpcVars, bchVars
<1>2. /\ CodeInv /\ LlrTrue /\ MsgTrue /\ Stable(msg)
      /\ limit \in Nat \ {0} /\ iter \in Nat /\ cancel_requested \in BOOLEAN
      /\ row \in 0 .. parities - 1 /\ iter < limit /\ Within(iter) /\ RowsDone(row)
  BY <1>1, Sizes DEF FillInv, MessageInv, PeelInv
<1>3. PICK m : m = RowUpdate(llr, msg, row)
  OBVIOUS
<1>4. /\ Truthful(m) /\ Stable(m)
      /\ \A v \in 0 .. fec_len - 1 : \A X :
           Belief(llr, msg, v, X) # 0 => Belief(llr, m, v, X) # 0
  BY <1>2, <1>3, NothingForgotten
<1>5. Unknown(m) \subseteq Unknown(msg)
  BY <1>4 DEF Unknown
<1>6. Left' = Left /\ Unknown(msg)' = Unknown(m) /\ (Stable(msg)' <=> Stable(m))
  BY <1>1, <1>3 DEF Left, Unknown, Stable
<1>7. Within(iter)'
  BY <1>1, <1>2, <1>5, <1>6 DEF Within
<1>8. RowsDone(row)'
  <2> SUFFICES ASSUME NEW k \in 0 .. fec_len, k <= iter, NEW r \in 0 .. parities - 1, r < row + 1,
                      NEW v \in Unknown(m), Tells(Left[k], r, v)
               PROVE  FALSE
    BY <1>1, <1>6 DEF RowsDone, Tells
  <2>1. CASE r < row
    BY <1>2, <1>5, <2>1 DEF RowsDone
  <2>2. CASE ~(r < row)
    <3>1. r = row
      BY <1>2, <2>2
    <3>2. Unknown(msg) \subseteq Left[k]
      BY <1>2 DEF Within
    <3> QED BY <1>2, <1>3, <3>1, <3>2, RowHasTold
  <2> QED BY <2>1, <2>2
<1>9. row' \in 0 .. parities
  BY <1>1, <1>2, Sizes
<1> QED BY <1>1, <1>2, <1>4, <1>6, <1>7, <1>8, <1>9 DEF PeelInv

\* After the last row the iteration is a round.
LEMMA DecidedFills == ASSUME FillInv, LdpcDecided PROVE PeelInv'
<1>1. /\ stage = "rows" /\ stage' = "check"
      /\ noise = {} => row = parities /\ hard' = HardDecision(llr, msg)
      /\ UNCHANGED <<llr, noise, limit, iter, msg, cancel_requested, result, ret, ldpc_cw>>
  BY DEF LdpcDecided, sentVars, bchVars
<1>2. limit \in Nat \ {0} /\ iter \in Nat /\ cancel_requested \in BOOLEAN
  BY DEF FillInv, PeelInv
<1> SUFFICES ASSUME noise = {} PROVE Stable(msg)' /\ Within(iter + 1)' /\ iter < limit
                                       /\ hard' = HardDecision(llr, msg)'
  BY <1>1, <1>2 DEF PeelInv
<1>3. Stable(msg) /\ Within(iter) /\ RowsDone(parities) /\ iter < limit
  BY <1>1 DEF FillInv, PeelInv
<1>4. Left' = Left /\ Unknown(msg)' = Unknown(msg) /\ (Stable(msg)' <=> Stable(msg))
      /\ HardDecision(llr, msg)' = HardDecision(llr, msg)
  BY <1>1 DEF Left, Unknown, Stable, HardDecision
<1>5. Within(iter + 1)
  <2> SUFFICES ASSUME NEW k \in 0 .. fec_len, k <= iter + 1, NEW v \in Unknown(msg)
               PROVE  v \in Left[k]
    BY DEF Within
  <2>1. CASE k <= iter
    BY <1>3, <2>1 DEF Within
  <2>2. CASE ~(k <= iter)
    <3>1. k = iter + 1 /\ iter \in 0 .. fec_len /\ k # 0 /\ k - 1 = iter
      BY <1>2, <2>2, LdpcAssumption
    <3>2. v \in Left[iter]
      BY <1>2, <1>3, <3>1 DEF Within
    <3>3. \A r \in 0 .. parities - 1 : ~Tells(Left[iter], r, v)
      BY <1>2, <1>3, <3>1, Sizes DEF RowsDone
    <3>4. Left[k] = Peel(Left[iter])
      BY <3>1, LeftRounds
    <3> QED BY <3>2, <3>3, <3>4 DEF Peel
  <2> QED BY <2>1, <2>2
<1>6. Within(iter + 1)'
  BY <1>1, <1>4, <1>5 DEF Within
<1> QED BY <1>1, <1>3, <1>4, <1>6

\* The check finds the codeword that was sent, or none.
LEMMA CheckFills == ASSUME FillInv, LdpcCheck PROVE PeelInv'
<1>1. /\ stage = "check" /\ iter' = iter + 1
      /\ UNCHANGED <<llr, noise, limit, msg, hard, cancel_requested, result, ldpc_cw>>
  BY DEF LdpcCheck, sentVars, bchVars
<1>2. limit \in Nat \ {0} /\ iter \in Nat /\ cancel_requested \in BOOLEAN /\ iter + 1 \in Nat
  BY DEF FillInv, PeelInv
<1>3. /\ Left' = Left /\ Unknown(msg)' = Unknown(msg) /\ (Stable(msg)' <=> Stable(msg))
      /\ HardDecision(llr, msg)' = HardDecision(llr, msg)
      /\ (Converged(hard)' <=> Converged(hard))
      /\ (Fillable' <=> Fillable)
  BY <1>1 DEF Left, Unknown, Stable, HardDecision, Converged, Fillable, StoppingSet, Erased
<1>4. CASE noise # {}
  BY <1>1, <1>2, <1>4 DEF PeelInv
<1>5. CASE noise = {}
  <2>1. Stable(msg) /\ Within(iter + 1) /\ iter < limit /\ hard = HardDecision(llr, msg)
    BY <1>1, <1>5 DEF FillInv, PeelInv
  <2>2. CASE ~Unchecked(iter) /\ Converged(hard)
    <3>1. ret' = 0 /\ stage' = "returned"
      BY <2>2, Zenon DEF LdpcCheck
    <3>2. Fillable => Filled'
      BY <1>1, <1>5, <2>1, <2>2, <3>1, OnlyOne DEF Filled
    <3> QED BY <1>1, <1>2, <1>3, <2>1, <3>1, <3>2 DEF PeelInv
  <2>3. CASE ~(~Unchecked(iter) /\ Converged(hard))
    <3>1. stage' = "ldpc"
      BY <2>3, Zenon DEF LdpcCheck
    <3>2. iter + 1 = limit => ~Converged(hard)
      BY <1>2, <2>3 DEF Unchecked
    <3>3. Within(iter)'
      BY <1>1, <1>3, <2>1 DEF Within
    <3> QED BY <1>1, <1>2, <1>3, <2>1, <3>1, <3>2, <3>3 DEF PeelInv
  <2> QED BY <2>2, <2>3
<1> QED BY <1>4, <1>5

\* Every step keeps the invariant.
LEMMA NextFillInv == FillInv /\ [Next]_vars => FillInv'
<1> SUFFICES ASSUME FillInv, [Next]_vars PROVE FillInv'
  OBVIOUS
<1> USE DEF sentVars, ldpcVars, bchVars
<1>1. MessageInv'
  BY NextMessageInv DEF FillInv
<1> SUFFICES PeelInv'
  BY <1>1 DEF FillInv
<1>2. PeelInv
  BY DEF FillInv
<1>3. CASE LdpcRow
  BY <1>3, RowFills
<1>4. CASE LdpcDecided
  BY <1>4, DecidedFills
<1>5. CASE LdpcCheck
  BY <1>5, CheckFills
<1>6. ASSUME UNCHANGED <<llr, msg, noise, limit, iter, ldpc_cw>>
      PROVE  /\ Left' = Left /\ Unknown(msg)' = Unknown(msg) /\ (Stable(msg)' <=> Stable(msg))
             /\ HardDecision(llr, msg)' = HardDecision(llr, msg)
             /\ (Fillable' <=> Fillable)
             /\ (Within(iter)' <=> Within(iter))
             /\ (Within(iter + 1)' <=> Within(iter + 1))
  <2>1. Left' = Left /\ Unknown(msg)' = Unknown(msg)
    BY <1>6 DEF Left, Unknown
  <2>2. HardDecision(llr, msg)' = HardDecision(llr, msg) /\ (Stable(msg)' <=> Stable(msg))
    BY <1>6 DEF HardDecision, Stable
  <2>3. Fillable' <=> Fillable
    BY <1>6 DEF Fillable, StoppingSet, Erased
  <2> QED BY <1>6, <2>1, <2>2, <2>3 DEF Within
<1>7. UNCHANGED hard => (Converged(hard)' <=> Converged(hard))
  BY DEF Converged
<1>8. CASE RequestCancel
  <2>1. /\ UNCHANGED <<llr, msg, noise, limit, iter, ldpc_cw, row, hard, ret, stage, result>>
        /\ cancel_requested' = TRUE
    BY <1>8 DEF RequestCancel
  <2>2. RowsDone(row)' <=> RowsDone(row)
    BY <1>6, <2>1 DEF RowsDone, Tells
  <2>3. Filled' <=> Filled
    BY <2>1 DEF Filled
  <2> QED BY <1>2, <1>6, <1>7, <2>1, <2>2, <2>3 DEF PeelInv
<1>9. CASE LdpcBegin
  <2>1. /\ UNCHANGED <<llr, msg, noise, limit, iter, ldpc_cw, cancel_requested>>
        /\ stage = "ldpc" /\ stage' = "rows" /\ row' = 0 /\ iter < limit
    BY <1>9 DEF LdpcBegin
  <2>2. RowsDone(row)'
    BY <2>1 DEF RowsDone
  <2>3. row' \in 0 .. parities
    BY <2>1, Sizes
  <2> QED BY <1>2, <1>6, <2>1, <2>2, <2>3 DEF PeelInv
<1>10. CASE LdpcCancelled
  <2>1. /\ UNCHANGED <<llr, msg, noise, limit, iter, ldpc_cw, cancel_requested>>
        /\ stage' = "returned" /\ ret' = -1 /\ cancel_requested
    BY <1>10 DEF LdpcCancelled
  <2> QED BY <1>2, <1>6, <2>1 DEF PeelInv
<1>11. CASE LdpcExhausted
  <2>1. /\ UNCHANGED <<llr, msg, noise, limit, iter, ldpc_cw, cancel_requested>>
        /\ stage = "ldpc" /\ iter = limit /\ stage' = "returned"
    BY <1>11 DEF LdpcExhausted
  <2>2. noise = {} => ~Fillable
    BY <2>1, AllTold
  <2> QED BY <1>2, <1>6, <2>1, <2>2 DEF PeelInv
<1>12. CASE LdpcReturned
  <2>1. /\ UNCHANGED <<llr, msg, noise, limit, iter, ldpc_cw, cancel_requested, hard, ret>>
        /\ stage = "returned"
        /\ IF ret < 0 /\ cancel_requested THEN stage' = "done" /\ result' = "CANCELLED"
                                          ELSE stage' = "bch"
    BY <1>12 DEF LdpcReturned
  <2>2. Filled' <=> Filled
    BY <2>1 DEF Filled
  <2>3. CASE ret < 0 /\ cancel_requested
    BY <1>2, <1>6, <2>1, <2>2, <2>3 DEF PeelInv, Filled
  <2>4. CASE ~(ret < 0 /\ cancel_requested)
    BY <1>2, <1>6, <2>1, <2>2, <2>4 DEF PeelInv
  <2> QED BY <2>3, <2>4
<1>13. CASE BchSyndromes \/ BchIteration \/ BchCorrect
  <2>1. /\ UNCHANGED <<llr, msg, noise, limit, iter, ldpc_cw, cancel_requested, hard, ret>>
        /\ stage \in {"bch", "bm"} /\ stage' \in {"bm", "done"}
    BY <1>13 DEF BchSyndromes, BchIteration, BchCorrect, Finish
  <2>2. Filled' <=> Filled
    BY <2>1 DEF Filled
  <2> QED BY <1>2, <1>6, <2>1, <2>2 DEF PeelInv
<1>14. CASE UNCHANGED vars
  <2>1. UNCHANGED <<llr, msg, noise, limit, iter, ldpc_cw, row, hard, ret,
                   stage, result, cancel_requested>>
    BY <1>14 DEF vars
  <2>2. RowsDone(row)' <=> RowsDone(row)
    BY <1>6, <2>1 DEF RowsDone, Tells
  <2>3. Filled' <=> Filled
    BY <2>1 DEF Filled
  <2> QED BY <1>2, <1>6, <1>7, <2>1, <2>2, <2>3 DEF PeelInv
<1> QED BY <1>3, <1>4, <1>5, <1>8, <1>9, <1>10, <1>11, <1>12, <1>13, <1>14 DEF Next

\* Erased and punctured bits that any decoder of this kind can tell from the
\* others are told by dvbs2x_ldpc_decode in no more iterations than there are of
\* them, and the word is returned with 0 unless somebody cancels
\* (ldpc_decode.c:369), for every code, every frame and every order of the rows.
THEOREM ErasuresAreFilled == Spec => []ErasuresFilled
<1>1. FillInv => ErasuresFilled
  BY DEF FillInv, PeelInv, ErasuresFilled, Fillable, Filled, Erased
<1> QED BY <1>1, InitFillInv, NextFillInv, PTL DEF Spec
============================================================================
