------------------------------ MODULE Counting ------------------------------
(***************************************************************************)
(* Counting modulo p: what the schedule of the LDPC decoder, the sequence  *)
(* numbers of the frame protocol and the ring buffer rest on.  And counting *)
(* upwards: induction over the natural numbers, for facts that are put as  *)
(* membership in a set.                                                    *)
(***************************************************************************)
EXTENDS Integers, WellFoundedInduction, TLAPS

\* A multiple of p does not count modulo p.
LEMMA Remainder ==
  \A p \in Nat \ {0}, d \in Int, x \in Int : \A r \in 0 .. p - 1 :
    x = p * d + r => x % p = r
<1> SUFFICES ASSUME NEW p \in Nat \ {0}, NEW d \in Int, NEW x \in Int,
                    NEW r \in 0 .. p - 1, x = p * d + r
             PROVE  x % p = r
  OBVIOUS
<1>1. PICK e \in Int, s \in 0 .. p - 1 : x = p * e + s /\ x % p = s
  <2>1. x = p * (x \div p) + (x % p) /\ x \div p \in Int /\ x % p \in 0 .. p - 1
    BY SMT
  <2> QED BY <2>1
<1>2. ASSUME NEW f \in Int, NEW g \in Int, NEW u \in 0 .. p - 1, NEW v \in 0 .. p - 1,
             f > g, p * f + u = p * g + v
      PROVE  FALSE
  <2>1. PICK k \in Nat : f = g + 1 + k
    <3>1. f - g - 1 \in Nat /\ f = g + 1 + (f - g - 1)
      BY <1>2
    <3> QED BY <3>1
  <2>2. p * f = p * g + p + p * k
    BY <2>1, SMT
  <2>3. p * k \in Nat /\ p * g \in Int
    BY SMT
  <2> QED BY <1>2, <2>2, <2>3
<1>3. d = e
  BY <1>1, <1>2
<1> QED BY <1>1, <1>3

\* Counting modulo p either wraps to 0 or goes up by one.
LEMMA NextModulo ==
  ASSUME NEW a \in Nat, NEW p \in Nat \ {0}
  PROVE  /\ a % p \in 0 .. p - 1
         /\ (a + 1) % p = 0 \/ (a + 1) % p = (a % p) + 1
<1>1. PICK d \in Nat, r \in 0 .. p - 1 : a = p * d + r /\ a % p = r
  <2>1. a = p * (a \div p) + (a % p) /\ a \div p \in Nat /\ a % p \in 0 .. p - 1
    BY SMT
  <2> QED BY <2>1
<1>2. CASE r + 1 \in 0 .. p - 1
  <2>1. a + 1 \in Int /\ d \in Int /\ a + 1 = p * d + (r + 1)
    BY <1>1
  <2>2. (a + 1) % p = r + 1
    BY <2>1, <1>1, <1>2, Remainder, Zenon
  <2> QED BY <1>1, <2>2
<1>3. CASE r + 1 = p
  <2>1. a + 1 \in Int /\ d + 1 \in Int /\ 0 \in 0 .. p - 1 /\ a + 1 = p * (d + 1) + 0
    BY <1>1, <1>3
  <2>2. (a + 1) % p = 0
    BY <2>1, Remainder, Zenon
  <2> QED BY <1>1, <2>2
<1> QED BY <1>2, <1>3

\* Going back by less than p either stays in the same round or enters the one
\* before.
LEMMA BackModulo ==
  ASSUME NEW p \in Nat \ {0}, NEW x \in Int, NEW d \in 0 .. p - 1
  PROVE  /\ x % p \in 0 .. p - 1
         /\ (x - d) % p = IF d <= x % p THEN (x % p) - d ELSE (x % p) - d + p
<1>1. PICK e \in Int, r \in 0 .. p - 1 : x = p * e + r /\ x % p = r
  <2>1. x = p * (x \div p) + (x % p) /\ x \div p \in Int /\ x % p \in 0 .. p - 1
    BY SMT
  <2> QED BY <2>1
<1>2. CASE d <= r
  <2>1. x - d \in Int /\ r - d \in 0 .. p - 1 /\ x - d = p * e + (r - d)
    BY <1>1, <1>2
  <2>2. (x - d) % p = r - d
    BY <2>1, Remainder, Zenon
  <2> QED BY <1>1, <1>2, <2>2
<1>3. CASE d > r
  <2>1. /\ x - d \in Int /\ e - 1 \in Int /\ r - d + p \in 0 .. p - 1
        /\ x - d = p * (e - 1) + (r - d + p)
    BY <1>1, <1>3
  <2>2. (x - d) % p = r - d + p
    BY <2>1, Remainder, Zenon
  <2> QED BY <1>1, <1>3, <2>2
<1> QED BY <1>1, <1>2, <1>3

\* A number is a whole number of rounds and a remainder.
LEMMA Division ==
  ASSUME NEW p \in Nat \ {0}, NEW x \in Int
  PROVE  \E e \in Int, r \in 0 .. p - 1 : x = p * e + r /\ x % p = r
<1>1. x = p * (x \div p) + (x % p) /\ x \div p \in Int /\ x % p \in 0 .. p - 1
  BY SMT
<1> QED BY <1>1

\* How many rounds a number holds.
LEMMA Quotient ==
  ASSUME NEW p \in Nat \ {0}, NEW x \in Nat
  PROVE  /\ x \div p \in Nat
         /\ (x \div p) * p <= x /\ x < (x \div p) * p + p
<1> DEFINE w == x \div p
<1>1. x = p * w + (x % p) /\ w \in Nat /\ x % p \in 0 .. p - 1
  BY SMT
<1>2. p * w = w * p /\ w * p \in Nat
  BY <1>1, SMT
<1> HIDE DEF w
<1> QED BY <1>1, <1>2 DEF w

\* Whole rounds do not count.
LEMMA WholeRounds ==
  ASSUME NEW p \in Nat \ {0}, NEW x \in Int, NEW k \in Int
  PROVE  (x + p * k) % p = x % p
<1>1. PICK e \in Int, r \in 0 .. p - 1 : x = p * e + r /\ x % p = r
  BY Division
<1>2. p * (e + k) = p * e + p * k /\ p * e \in Int /\ p * k \in Int
  BY SMT
<1>3. x + p * k \in Int /\ e + k \in Int /\ x + p * k = p * (e + k) + r
  BY <1>1, <1>2
<1>4. (x + p * k) % p = r
  BY <1>3, Remainder, Zenon
<1> QED BY <1>1, <1>4

\* Numbers less than a round apart are not the same modulo p.
LEMMA Apart ==
  ASSUME NEW p \in Nat \ {0}, NEW x \in Int, NEW d \in 1 .. p - 1
  PROVE  (x + d) % p # x % p
<1>1. ASSUME NEW y \in Int PROVE (y - d) % p # y % p
  <2>1. PICK m \in 0 .. p - 1 : m = y % p
    OBVIOUS
  <2>2. d \in 0 .. p - 1
    OBVIOUS
  <2>3. (y - d) % p = IF d <= m THEN m - d ELSE m - d + p
    BY <2>1, <2>2, BackModulo
  <2>4. (IF d <= m THEN m - d ELSE m - d + p) # m
    OBVIOUS
  <2> QED BY <2>1, <2>3, <2>4, Zenon
<1>2. PICK y \in Int : y = x + d /\ y - d = x
  <2>1. x + d \in Int /\ (x + d) - d = x
    OBVIOUS
  <2> QED BY <2>1
<1>3. (y - d) % p # y % p
  BY <1>1, Zenon
<1> QED BY <1>2, <1>3, Zenon

\* Multiples of p are p apart.
LEMMA MultipleApart ==
  ASSUME NEW a \in Int, NEW b \in Int, NEW p \in Nat \ {0}, a < b
  PROVE  a * p + p <= b * p
<1>1. PICK d \in Nat : b = a + 1 + d
  <2>1. b - a - 1 \in Nat /\ b = a + 1 + (b - a - 1)
    OBVIOUS
  <2> QED BY <2>1
<1>2. b * p = a * p + p + d * p
  BY <1>1, SMT
<1>3. d * p \in Nat /\ a * p \in Int
  BY SMT
<1> QED BY <1>2, <1>3

\* Counting modulo M first does not change a number modulo a divisor of M.
LEMMA RoundInRound ==
  ASSUME NEW p \in Nat \ {0}, NEW M \in Nat \ {0}, NEW q \in Int, M = p * q,
         NEW x \in Int, NEW j \in Int
  PROVE  ((x % M) + j) % p = (x + j) % p
<1>1. PICK e \in Int, r \in 0 .. M - 1 : x = M * e + r /\ x % M = r
  BY Division
<1>2. M * e = p * (q * e) /\ q * e \in Int
  BY SMT
<1>3. (r + j + p * (q * e)) % p = (r + j) % p
  <2>1. r + j \in Int
    BY <1>1
  <2> QED BY <1>2, <2>1, WholeRounds, Zenon
<1>4. r + j + p * (q * e) = x + j
  BY <1>1, <1>2
<1> QED BY <1>1, <1>3, <1>4
-----------------------------------------------------------------------------
\* A set of natural numbers has a least element, unless it is empty.
LEMMA Least == \A T \in SUBSET Nat : T # {} => \E n \in T : \A k \in T : n <= k
<1> SUFFICES ASSUME NEW T \in SUBSET Nat, T # {} PROVE \E n \in T : \A k \in T : n <= k
  OBVIOUS
<1>1. PICK n \in T : \A k \in T : ~(<<k, n>> \in OpToRel(<, Nat))
  BY NatLessThanWellFounded, WFMin, Zenon
<1>2. \A k \in T : ~(k < n)
  BY <1>1 DEF OpToRel
<1> QED BY <1>2

\* A set with 0 in it and with each number's successor has all of them.
LEMMA SetInduction ==
  ASSUME NEW S, 0 \in S, \A n \in Nat : n \in S => n + 1 \in S
  PROVE  \A n \in Nat : n \in S
<1> SUFFICES ASSUME Nat \ S # {} PROVE FALSE
  OBVIOUS
<1>1. PICK n \in Nat \ S : \A k \in Nat \ S : n <= k
  BY Least, Zenon
<1>2. n - 1 \in Nat \ S
  BY <1>1
<1> QED BY <1>1, <1>2
=============================================================================
