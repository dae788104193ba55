------------------------------- MODULE Numbers -------------------------------
(***************************************************************************)
(* Facts about the natural numbers that several proofs need: least and     *)
(* greatest elements of sets of numbers, quotients and remainders.         *)
(***************************************************************************)
EXTENDS Integers, WellFoundedInduction, TLAPS

(* ------------------------------------------------------------------------ *)
(* Least and greatest numbers                                               *)

\* A set of numbers that is not empty has a least element: the loops of
\* pm_init and pm_get stop at the first index that fits.
LEMMA LeastExists ==
    ASSUME NEW S \in SUBSET Nat, S # {}
    PROVE  \E m \in S : \A k \in S : m <= k
<1>. DEFINE LT == OpToRel(<, Nat)
<1>1. IsWellFoundedOn(LT, Nat)
  BY NatLessThanWellFounded, Zenon
<1>2. \A j, k \in Nat : j < k => <<j, k>> \in LT
  BY Zenon DEF OpToRel
<1>. HIDE DEF LT
<1>3. PICK m \in S : \A k \in S : ~ (<<k, m>> \in LT)
  BY <1>1, WFMin
<1>4. \A k \in S : ~ (k < m)
  BY <1>2, <1>3
<1>. QED  BY <1>4

\* A bounded set of numbers that is not empty has a greatest element.
LEMMA GreatestExists ==
    ASSUME NEW S \in SUBSET Nat, S # {}, NEW b \in Nat, \A k \in S : k <= b
    PROVE  \E m \in S : \A k \in S : k <= m
<1>. DEFINE U == {u \in Nat : \A k \in S : k <= u}
<1>1. PICK u \in U : \A v \in U : u <= v
  <2>1. b \in U  OBVIOUS
  <2>. QED  BY <2>1, LeastExists
<1>2. u \in S
  <2>1. SUFFICES ASSUME u \notin S PROVE FALSE
    OBVIOUS
  <2>2. PICK k \in S : TRUE
    OBVIOUS
  <2>3. u - 1 \in Nat
    BY <2>1, <2>2
  <2>4. \A j \in S : j <= u - 1
    BY <2>1, <2>3
  <2>5. u - 1 \in U
    BY <2>3, <2>4
  <2>. QED  BY <1>1, <2>5
<1>. QED  BY <1>2

\* Counting up: what holds of 0, and of a number when it holds of the one before, holds
\* of all.  The property is a set, since a fact cannot be cited for an operator.
LEMMA CountUp ==
    ASSUME NEW N \in Nat, NEW P, 0 \in P, \A n \in 1..N : n - 1 \in P => n \in P
    PROVE  \A n \in 0..N : n \in P
<1>. DEFINE bad == {n \in 0..N : n \notin P}
<1>1. SUFFICES ASSUME bad # {} PROVE FALSE
  OBVIOUS
<1>2. bad \in SUBSET Nat
  OBVIOUS
<1>3. PICK n \in bad : \A k \in bad : n <= k
  <2>. HIDE DEF bad
  <2>. QED  BY <1>1, <1>2, LeastExists
<1>4. n \in 1..N
  BY <1>3
<1>5. n - 1 \in 0..N /\ n - 1 \notin bad
  BY <1>3, <1>4
<1>. QED  BY <1>3, <1>4, <1>5

(* ------------------------------------------------------------------------ *)
(* Quotients                                                                *)

\* Quotient and remainder.
LEMMA DivMod ==
    ASSUME NEW a \in Nat, NEW n \in Nat \ {0}
    PROVE  /\ a \div n \in Nat
           /\ a % n \in 0..n-1
           /\ a = n * (a \div n) + (a % n)
  OBVIOUS

\* A product grows with its factor.
LEMMA TimesMono ==
    ASSUME NEW n \in Nat, NEW p \in Nat, NEW q \in Nat, p <= q
    PROVE  n * p <= n * q
<1>1. PICK d \in Nat : q = p + d
  <2>1. q - p \in Nat /\ q = p + (q - p)
    OBVIOUS
  <2>. QED  BY <2>1
<1>2. n * q = n * p + n * d /\ n * d \in Nat /\ n * p \in Nat
  BY <1>1
<1>. QED  BY <1>2

\* The quotient is the only number whose multiple is just below.
LEMMA DivBetween ==
    ASSUME NEW a \in Nat, NEW n \in Nat \ {0}, NEW q \in Nat, n * q <= a, a < n * q + n
    PROVE  a \div n = q /\ a % n = a - n * q
<1>. DEFINE d == a \div n
<1>1. d \in Nat /\ n * d <= a /\ a < n * d + n /\ a = n * d + (a % n)
  BY DivMod
<1>. HIDE DEF d
<1>2. ASSUME d < q PROVE FALSE
  <2>1. n * (d + 1) <= n * q
    BY <1>1, <1>2, TimesMono
  <2>2. n * (d + 1) = n * d + n
    BY <1>1
  <2>. QED  BY <1>1, <2>1, <2>2
<1>3. ASSUME q < d PROVE FALSE
  <2>1. n * (q + 1) <= n * d
    BY <1>1, <1>3, TimesMono
  <2>2. n * (q + 1) = n * q + n
    OBVIOUS
  <2>. QED  BY <1>1, <2>1, <2>2
<1>4. d = q
  BY <1>1, <1>2, <1>3
<1>5. a = n * q + (a % n) /\ n * q \in Nat /\ a % n \in Int
  BY <1>1, <1>4, DivMod
<1>. QED  BY <1>4, <1>5 DEF d

\* A larger size takes no fewer frames.
LEMMA DivMono ==
    ASSUME NEW a \in Nat, NEW b \in Nat, a <= b, NEW n \in Nat \ {0}
    PROVE  a \div n <= b \div n
<1>. DEFINE p == a \div n
            q == b \div n
<1>1. p \in Nat /\ q \in Nat /\ n * p <= a /\ b < n * q + n
  BY DivMod
<1>. HIDE DEF p, q
<1>2. ASSUME q < p PROVE FALSE
  <2>1. n * (q + 1) <= n * p
    BY <1>1, <1>2, TimesMono
  <2>2. n * (q + 1) = n * q + n
    BY <1>1
  <2>. QED  BY <1>1, <2>1, <2>2
<1>3. p <= q
  BY <1>1, <1>2
<1>. QED  BY <1>3 DEF p, q

\* Dividing twice is dividing by the product: the index into each level of the tables
\* is a digit of the page number.
LEMMA DivDiv ==
    ASSUME NEW a \in Nat, NEW m \in Nat \ {0}, NEW n \in Nat \ {0}
    PROVE  a \div (m * n) = (a \div m) \div n
<1>. DEFINE p == a \div m
            q == p \div n
<1>1. p \in Nat /\ a = m * p + (a % m) /\ a % m \in 0..m-1
  BY DivMod
<1>. HIDE DEF p
<1>2. q \in Nat /\ p = n * q + (p % n) /\ p % n \in 0..n-1
  BY <1>1, DivMod
<1>. HIDE DEF q
<1>3. p % n \in Nat /\ n - 1 \in Nat /\ m * (p % n) <= m * (n - 1)
  BY <1>2, TimesMono
<1>4. m * p = m * (n * q) + m * (p % n)
  BY <1>2, <1>3
<1>5. m * (n * q) = (m * n) * q /\ m * (n - 1) = m * n - m
  BY <1>2
<1>6. m * n \in Nat \ {0} /\ (m * n) * q \in Nat /\ m * (p % n) \in Nat
  BY <1>2, <1>3
<1>7. (m * n) * q <= a /\ a < (m * n) * q + m * n
  BY <1>1, <1>3, <1>4, <1>5, <1>6
<1>8. a \div (m * n) = q
  BY <1>2, <1>6, <1>7, DivBetween
<1>. QED  BY <1>8 DEF p, q

=============================================================================
