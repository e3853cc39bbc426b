-------------------------------- MODULE Ldpc --------------------------------
(***************************************************************************)
(* The inner code: src/ldpc_encode.c and src/ldpc_decode.c.  The code is   *)
(* given by a table with one sequence of parity addresses for each group   *)
(* of DVBS2X_LDPC_PARALLEL information bits.                               *)
(*                                                                         *)
(* A log-likelihood ratio is its sign: 1 for a zero, -1 for a one, 0 for   *)
(* what is not known.  Where no two ratios contradict each other, which is *)
(* so as long as bits are erased (or punctured) and never inverted, the    *)
(* sign of a sum is that of any summand that is not 0, box-plus multiplies *)
(* signs, and the passing of messages is exact.                            *)
(***************************************************************************)
EXTENDS Integers, Sequences, FiniteSets, FiniteSetsExt

CONSTANTS fec_len, k_ldpc, q_ldpc, \* length, information bits, shift
          DVBS2X_LDPC_PARALLEL,    \* 360 in the code
          addrs                    \* the address table

parities == fec_len - k_ldpc       \* m in the code
num_groups == k_ldpc \div DVBS2X_LDPC_PARALLEL

ASSUME LdpcAssumption ==
  /\ k_ldpc \in Nat \ {0}
  /\ fec_len \in Nat /\ fec_len > k_ldpc
  /\ q_ldpc \in Nat /\ q_ldpc * DVBS2X_LDPC_PARALLEL = parities
  /\ DVBS2X_LDPC_PARALLEL \in Nat \ {0}
  /\ k_ldpc % DVBS2X_LDPC_PARALLEL = 0
  /\ Len(addrs) = num_groups
  /\ \A g \in 1 .. num_groups : addrs[g] \in Seq(0 .. parities - 1)

\* Bit j of group g, and an entry of the table for it.
Taps == (0 .. num_groups - 1) \X (0 .. DVBS2X_LDPC_PARALLEL - 1)
          \X (1 .. Max({Len(addrs[g]) : g \in 1 .. num_groups}))
Entries == {e \in Taps : e[3] <= Len(addrs[e[1] + 1])}
BitOf(e) == e[1] * DVBS2X_LDPC_PARALLEL + e[2]

----------------------------------------------------------------------------
(* The encoder *)

\* Faulty: the last parity bit is taken for one behind the end.
EncoderAddrEarly(e) ==
  LET addr == addrs[e[1] + 1][e[3]] + e[2] * q_ldpc
  IN IF addr >= parities - 1 THEN (addr + 1) % parities ELSE addr

\* The parity a table entry toggles: the sum is reduced once.
EncoderAddr(e) ==
  LET addr == addrs[e[1] + 1][e[3]] + e[2] * q_ldpc
  IN IF addr >= parities THEN addr - parities ELSE addr

\* The parity bits that are one before the final accumulation, and after it.
Toggled(info) ==
  {p \in 0 .. parities - 1 :
     Cardinality({e \in Entries : BitOf(e) \in info /\ EncoderAddr(e) = p}) % 2 = 1}
ldpc_encode(info) ==
  LET acc == Toggled(info)
  IN info \cup {k_ldpc + p : p \in {i \in 0 .. parities - 1 :
                                      Cardinality({j \in acc : j <= i}) % 2 = 1}}

----------------------------------------------------------------------------
(* The decoder *)

DecoderRow(e) == (addrs[e[1] + 1][e[3]] + e[2] * q_ldpc) % parities

\* The first row has one edge of the staircase; every table has an address that
\* gives it another (a row of degree 1 would send nothing, src/ldpc_decode.c:398).
ASSUME FirstRowAssumption == \E e \in Entries : DecoderRow(e) = 0

\* The edges of the check matrix, <<row, column, entry>>: the information
\* part from the table, the parity part a staircase.
Edges ==
  {<<DecoderRow(e), BitOf(e), e[3]>> : e \in Entries}
    \cup {<<i, k_ldpc + i, 0>> : i \in 0 .. parities - 1}
    \cup {<<i, k_ldpc + i - 1, 0>> : i \in 1 .. parities - 1}

RowEdges == [i \in 0 .. parities - 1 |-> {e \in Edges : e[1] = i}]
ColEdges == [v \in 0 .. fec_len - 1 |-> {e \in Edges : e[2] = v}]

\* What a variable says, but for the edges in X: what any of the others says.
Belief(llr, msg, v, X) ==
  LET said == {llr[v]} \cup {msg[e] : e \in ColEdges[v] \ X}
  IN IF 1 \in said THEN 1 ELSE IF -1 \in said THEN -1 ELSE 0

\* Box-plus of the messages v2c: unknown if one is, otherwise their parity.
Boxplus(v2c, S) ==
  IF \E e \in S : v2c[e] = 0 THEN 0
  ELSE IF Cardinality({e \in S : v2c[e] = -1}) % 2 = 0 THEN 1 ELSE -1

\* Faulty: the message to an edge includes what the edge itself has said.
RowUpdateIntrinsic(llr, msg, i) ==
  LET v2c == [e \in RowEdges[i] |-> Belief(llr, msg, e[2], {})]
  IN [e \in Edges |-> IF e[1] # i THEN msg[e] ELSE Boxplus(v2c, RowEdges[i])]

\* Faulty: what other check nodes have found out is not used.
RowUpdateChannel(llr, msg, i) ==
  [e \in Edges |-> IF e[1] # i THEN msg[e]
                   ELSE Boxplus([f \in Edges |-> llr[f[2]]], RowEdges[i] \ {e})]

\* The messages after check node i has told each variable what the others imply.
RowUpdate(llr, msg, i) ==
  LET v2c == [e \in RowEdges[i] |-> Belief(llr, msg, e[2], {e})]
  IN [e \in Edges |->
        IF e[1] # i THEN msg[e]
        ELSE IF Cardinality(RowEdges[i]) = 1 THEN 0
        ELSE Boxplus(v2c, RowEdges[i] \ {e})]

\* The hard decision: what is not known counts as a zero.
HardDecision(llr, msg) ==
  {v \in 0 .. fec_len - 1 : Belief(llr, msg, v, {}) < 0}

\* The syndrome check.
Converged(hard) ==
  \A i \in 0 .. parities - 1 : Cardinality({e \in RowEdges[i] : e[2] \in hard}) % 2 = 0
=============================================================================
