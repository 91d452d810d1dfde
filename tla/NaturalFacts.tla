---------------------------- MODULE NaturalFacts ----------------------------
(* Facts about natural numbers that the proofs share: least and greatest    *)
(* elements of sets, and the arithmetic of positions in an array of which   *)
(* a counter selects one modulo the array's length.                         *)
EXTENDS Integers, FiniteSetTheorems, TLAPS

\* Every non-empty set of naturals has a least element.
LEMMA LeastNatural ==
  ASSUME NEW S \in SUBSET Nat, S # {}
  PROVE  \E m \in S : \A n \in S : m <= n
<1> DEFINE T == {1..n : n \in S}
<1>1. T \subseteq FiniteSubsetsOf(Nat) /\ T # {}
  <2>1. \A n \in S : 1..n \in SUBSET Nat /\ IsFiniteSet(1..n)
    BY FS_Interval
  <2> QED BY <2>1 DEF FiniteSubsetsOf
<1>2. \E x \in T : \A y \in T : ~(<<y, x>> \in StrictSubsetOrdering(Nat))
  <2> HIDE DEF T
  <2> QED BY <1>1, WFMin, FS_StrictSubsetOrderingWellFounded
<1>3. PICK m \in S : \A n \in S : ~(<<1..n, 1..m>> \in StrictSubsetOrdering(Nat))
  BY <1>2
<1>4. ASSUME NEW n \in S, n < m PROVE FALSE
  <2>1. 1..n \subseteq Nat /\ 1..m \subseteq Nat /\ 1..n \subseteq 1..m /\ 1..n # 1..m
    <3>1. m \in 1..m /\ m \notin 1..n
       BY <1>4
    <3> QED BY <3>1, <1>4
  <2> QED BY <2>1, <1>3 DEF StrictSubsetOrdering
<1> QED BY <1>4

\* A non-empty set of naturals with an upper bound has a greatest element.
LEMMA Greatest ==
  ASSUME NEW S \in SUBSET Nat, S # {}, NEW b \in Nat, \A n \in S : n <= b
  PROVE  \E m \in S : \A n \in S : n <= m
<1> DEFINE T == {b - n : n \in S}
<1>1. T \in SUBSET Nat /\ T # {}
  <2>1. \A n \in S : b - n \in Nat
     OBVIOUS
  <2> QED BY <2>1
<1>2. PICK t \in T : \A u \in T : t <= u
  <2> HIDE DEF T
  <2> QED BY <1>1, LeastNatural
<1>3. PICK m \in S : t = b - m
  OBVIOUS
<1>4. \A n \in S : b - m <= b - n
  BY <1>2, <1>3
<1> QED BY <1>4

\* A remainder is smaller than the divisor, and quotient and remainder give
\* the number back.
LEMMA DivMod ==
  ASSUME NEW D \in Nat \ {0}, NEW x \in Nat
  PROVE  /\ (x % D) \in 0..(D - 1)
         /\ (x \div D) \in Nat
         /\ x = (D * (x \div D)) + (x % D)
BY SMT

\* Multiples of the divisor do not change a remainder.
LEMMA ModOfSum ==
  ASSUME NEW D \in Nat \ {0}, NEW q \in Int, NEW r \in 0..(D - 1)
  PROVE  ((D * q) + r) % D = r
BY SMT

\* Adding to or taking from a number reduced to a word gives the word of the
\* sum or difference.
LEMMA ModAdd ==
  ASSUME NEW D \in Nat \ {0}, NEW x \in Nat, NEW y \in Int
  PROVE  ((x % D) + y) % D = (x + y) % D
<1> DEFINE z == (x % D) + y
<1>1. x % D \in Nat /\ x \div D \in Nat /\ x = (D * (x \div D)) + (x % D)
  BY DivMod
<1>2. z \in Int /\ z \div D \in Int /\ z % D \in 0..(D - 1) /\ z = (D * (z \div D)) + (z % D)
  BY <1>1, SMT
<1>3. x + y = (D * ((x \div D) + (z \div D))) + (z % D)
  <2>1. x + y = (D * (x \div D)) + z
    BY <1>1, SMT
  <2> HIDE DEF z
  <2>2. D * ((x \div D) + (z \div D)) = (D * (x \div D)) + (D * (z \div D))
    BY <1>1, <1>2, SMT
  <2>3. (D * (x \div D)) \in Int /\ (D * (z \div D)) \in Int
    BY <1>1, <1>2, SMT
  <2> QED BY <2>1, <2>2, <2>3, <1>2
<1>4. (x \div D) + (z \div D) \in Int
  BY <1>1, <1>2
<1> QED BY <1>2, <1>3, <1>4, ModOfSum

\* A number below twice the divisor wraps at most once.
LEMMA ModOnce ==
  ASSUME NEW D \in Nat \ {0}, NEW x \in 0..((2 * D) - 1)
  PROVE  x % D = IF x < D THEN x ELSE x - D
BY SMT

\* The distance between two counters survives wrapping when it is shorter
\* than the word.
LEMMA ModDistance ==
  ASSUME NEW D \in Nat \ {0}, NEW a \in Nat, NEW b \in Nat, a >= b, a - b < D
  PROVE  ((a % D) - (b % D)) % D = a - b
<1> DEFINE qa == a \div D
           qb == b \div D
           ra == a % D
           rb == b % D
<1>1. /\ a = (D * qa) + ra /\ ra \in 0..(D - 1) /\ qa \in Nat
      /\ b = (D * qb) + rb /\ rb \in 0..(D - 1) /\ qb \in Nat
  BY DivMod
<1>2. ra - rb = (D * (qb - qa)) + (a - b)
  BY <1>1, SMT
<1>3. a - b \in 0..(D - 1) /\ qb - qa \in Int
  BY <1>1, SMT
<1> QED BY <1>2, <1>3, ModOfSum

\* Wrapping at a multiple of the array's length selects the same position.
LEMMA ModTwice ==
  ASSUME NEW D \in Nat \ {0}, NEW M \in Nat \ {0}, NEW a \in Nat
  PROVE  (a % (D * M)) % D = a % D
<1>1. D * M \in Nat \ {0}
  BY SMT
<1>2. PICK q \in Nat, r \in 0..((D * M) - 1) : a = ((D * M) * q) + r /\ a % (D * M) = r
  BY <1>1, DivMod
<1> r \in Nat
  BY <1>1
<1>3. PICK s \in Nat, t \in 0..(D - 1) : r = (D * s) + t /\ r % D = t
  BY DivMod
<1>4. a = (D * ((M * q) + s)) + t /\ ((M * q) + s) \in Int
  <2>1. (M * q) \in Nat /\ (D * M) * q = D * (M * q)
    BY SMT
  <2>2. D * ((M * q) + s) = D * (M * q) + D * s
    BY <2>1, SMT
  <2> QED BY <2>1, <2>2, <1>2, <1>3, SMT
<1>5. a % D = t
  BY <1>4, ModOfSum
<1>6. (a % (D * M)) % D = r % D
  BY <1>2
<1> QED BY <1>3, <1>5, <1>6

\* Two counters closer than the array's length never share a position.
LEMMA ModApart ==
  ASSUME NEW D \in Nat \ {0}, NEW a \in Nat, NEW b \in Nat,
         a % D = b % D, a - b < D, b - a < D
  PROVE  a = b
<1>1. 0 % D = 0
  BY SMT
<1>2. (a % D) - (b % D) = 0 /\ (b % D) - (a % D) = 0
  BY DivMod, SMT
<1>3. ASSUME a >= b PROVE a = b
  <2>1. ((a % D) - (b % D)) % D = a - b
    BY <1>3, ModDistance
  <2> QED BY <2>1, <1>1, <1>2
<1>4. ASSUME b >= a PROVE a = b
  <2>1. ((b % D) - (a % D)) % D = b - a
    BY <1>4, ModDistance
  <2> QED BY <2>1, <1>1, <1>2
<1> QED BY <1>3, <1>4

\* Item i behind a counter is item i - o behind one that is o further.
LEMMA ShiftedItem ==
  \A x, y, o, i \in Nat : o = y - x => x + (i - 1) = y + ((i - o) - 1)
OBVIOUS
==============================================================================
