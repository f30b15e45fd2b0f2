---------------------------- MODULE Builtins_proofs ----------------------------
(***************************************************************************)
(* What the builtins never do, and what they return, for every script.     *)
(***************************************************************************)
EXTENDS Builtins, FiniteSetTheorems, FunctionTheorems, NaturalsInduction,
        SequenceTheorems, WellFoundedInduction, TLAPS

-----------------------------------------------------------------------------
(* Naturals.                                                               *)

\* Of the natural numbers in a set one is the least.
LEMMA Least ==
    ASSUME NEW T \in SUBSET Nat, T # {}
    PROVE  \E n \in T : \A m \in T : n <= m
<1>1. IsWellFoundedOn(OpToRel(<, Nat), Nat)
  BY NatLessThanWellFounded
<1>2. PICK n \in T : \A m \in T : ~(<<m, n>> \in OpToRel(<, Nat))
  BY <1>1, WFMin
<1>3. ASSUME NEW m \in T PROVE ~(m < n)
  <2>1. m \in Nat /\ n \in Nat /\ (m < n => <<m, n>> \in OpToRel(<, Nat))
    BY DEF OpToRel
  <2> QED  BY <1>2, <2>1
<1> QED  BY <1>3

-----------------------------------------------------------------------------
(* Powers of two, by the sizes of power sets.                              *)

LEMMA TwoZero == 2^0 = 1
<1>1. Cardinality({}) = 0 BY FS_EmptySet
<1>2. SUBSET {} = {{}} OBVIOUS
<1>3. Cardinality({{}}) = 1 BY FS_Singleton
<1>4. Cardinality(SUBSET {}) = 2^Cardinality({}) BY FS_EmptySet, FS_SUBSET
<1> QED BY <1>1, <1>2, <1>3, <1>4
LEMMA TwoNat == ASSUME NEW n \in Nat PROVE 2^n \in Nat
<1>1. IsFiniteSet(1..n) /\ Cardinality(1..n) = n BY FS_Interval
<1>2. IsFiniteSet(SUBSET (1..n)) /\ Cardinality(SUBSET (1..n)) = 2^n BY <1>1, FS_SUBSET
<1> QED BY <1>2, FS_CardinalityType
LEMMA TwoSuc == ASSUME NEW n \in Nat  PROVE  2^(n + 1) = 2 * 2^n
<1> DEFINE A == 1..n
           B == {T \cup {n + 1} : T \in SUBSET A}
           f == [T \in SUBSET A |-> T \cup {n + 1}]
<1>1. IsFiniteSet(SUBSET A) /\ Cardinality(SUBSET A) = 2^n
  <2>1. IsFiniteSet(A) /\ Cardinality(A) = n
    BY FS_Interval
  <2> QED  BY <2>1, FS_SUBSET
<1>2. Cardinality(SUBSET (1..(n + 1))) = 2^(n + 1)
  <2>1. IsFiniteSet(1..(n + 1)) /\ Cardinality(1..(n + 1)) = n + 1
    BY FS_Interval
  <2> QED  BY <2>1, FS_SUBSET
<1>3. 1..(n + 1) = A \cup {n + 1} /\ n + 1 \notin A
  OBVIOUS
<1> HIDE DEF A
<1>4. SUBSET (1..(n + 1)) = (SUBSET A) \cup B
  <2>1. ASSUME NEW T \in SUBSET (1..(n + 1)), n + 1 \in T
        PROVE  T \in B
    <3>1. T = (T \ {n + 1}) \cup {n + 1} /\ T \ {n + 1} \in SUBSET A
      BY <2>1, <1>3
    <3> QED  BY <3>1
  <2>2. ASSUME NEW T \in SUBSET (1..(n + 1)), n + 1 \notin T
        PROVE  T \in SUBSET A
    BY <2>2, <1>3
  <2>3. ASSUME NEW T \in SUBSET A
        PROVE  T \in SUBSET (1..(n + 1)) /\ T \cup {n + 1} \in SUBSET (1..(n + 1))
    BY <1>3
  <2> QED  BY <2>1, <2>2, <2>3
<1>5. (SUBSET A) \cap B = {}
  BY <1>3
<1>6. f \in Bijection(SUBSET A, B)
  <2>1. f \in [SUBSET A -> B]
    OBVIOUS
  <2>2. \A t \in B : \E T \in SUBSET A : f[T] = t
    OBVIOUS
  <2>3. \A S, T \in SUBSET A : f[S] = f[T] => S = T
    <3>1. \A S, T \in SUBSET A : S \cup {n + 1} = T \cup {n + 1} => S = T
      BY <1>3
    <3> QED  BY <3>1
  <2> HIDE DEF f, B
  <2> QED  BY <2>1, <2>2, <2>3, Fun_IsBij
<1>7. IsFiniteSet(B) /\ Cardinality(B) = 2^n
  <2> HIDE DEF f, B
  <2> QED  BY <1>1, <1>6, FS_Bijection DEF ExistsBijection
<1> HIDE DEF B, f
<1>8. Cardinality((SUBSET A) \cup B)
        = Cardinality(SUBSET A) + Cardinality(B) - Cardinality((SUBSET A) \cap B)
  BY <1>1, <1>7, FS_Union
<1>9. Cardinality((SUBSET A) \cap B) = 0
  BY <1>5, FS_EmptySet
<1>10. \A c, d \in Nat : c + d - 0 = c + d /\ c + c = 2 * c
  OBVIOUS
<1>11. Cardinality((SUBSET A) \cup B) = 2^n + 2^n - 0
  BY <1>1, <1>7, <1>8, <1>9, Zenon
<1>12. 2^(n + 1) = 2^n + 2^n - 0
  BY <1>2, <1>4, <1>11, Zenon
<1> QED  BY <1>10, <1>12, TwoNat

LEMMA TwoOne == 2^1 = 2
<1>1. 0 \in Nat /\ 0 + 1 = 1 /\ 2 * 1 = 2
  OBVIOUS
<1>2. 2^(0 + 1) = 2 * 2^0
  BY <1>1, TwoSuc, Zenon
<1> QED  BY <1>1, <1>2, TwoZero, Zenon

LEMMA TwoPositive == ASSUME NEW n \in Nat  PROVE  2^n \in Nat /\ 2^n > 0
<1> DEFINE Bad == {m \in Nat : ~(2^m > 0)}
<1>1. SUFFICES ASSUME Bad # {}  PROVE FALSE
  BY TwoNat
<1>2. PICK m \in Bad : \A k \in Bad : m <= k
  <2>1. Bad \in SUBSET Nat
    OBVIOUS
  <2> HIDE DEF Bad
  <2> QED  BY <1>1, <2>1, Least
<1>3. m # 0
  <2>1. 2^0 > 0
    BY TwoZero
  <2>2. ~(2^m > 0)
    BY <1>2
  <2> QED  BY <2>1, <2>2, Zenon
<1>4. m - 1 \in Nat /\ m - 1 \notin Bad /\ (m - 1) + 1 = m
  BY <1>2, <1>3
<1>5. 2^(m - 1) \in Nat /\ 2^(m - 1) > 0 /\ 2^m = 2 * 2^(m - 1)
  BY <1>4, TwoNat, TwoSuc
<1> QED  BY <1>2, <1>5

LEMMA TwoSum ==
    ASSUME NEW m \in Nat, NEW n \in Nat  PROVE  2^(m + n) = 2^m * 2^n
<1> DEFINE Bad == {k \in Nat : 2^(m + k) # 2^m * 2^k}
<1>1. SUFFICES ASSUME Bad # {}  PROVE FALSE
  OBVIOUS
<1>2. PICK k \in Bad : \A j \in Bad : k <= j
  <2>1. Bad \in SUBSET Nat
    OBVIOUS
  <2> HIDE DEF Bad
  <2> QED  BY <1>1, <2>1, Least
<1>3. k # 0
  <2>1. m + 0 = m /\ 2^m \in Nat
    BY TwoNat
  <2>2. 2^m * 2^0 = 2^m
    BY <2>1, TwoZero
  <2> QED  BY <1>2, <2>1, <2>2
<1>4. k - 1 \in Nat /\ k - 1 \notin Bad /\ (k - 1) + 1 = k /\ (m + (k - 1)) + 1 = m + k
  BY <1>2, <1>3
<1>5. /\ 2^k = 2 * 2^(k - 1) /\ 2^(m + k) = 2 * 2^(m + (k - 1))
      /\ 2^(m + (k - 1)) = 2^m * 2^(k - 1)
      /\ 2^m \in Nat /\ 2^(k - 1) \in Nat
  <2>1. m + (k - 1) \in Nat
    BY <1>4
  <2> QED  BY <1>4, <2>1, TwoSuc, TwoNat
<1>6. \A a, b \in Nat : 2 * (a * b) = a * (2 * b)
  OBVIOUS
<1>7. 2^(m + k) = 2^m * 2^k
  BY <1>5, <1>6
<1> QED  BY <1>2, <1>7

LEMMA TwoGrows ==
    ASSUME NEW m \in Nat, NEW n \in Nat, m <= n  PROVE  2^m <= 2^n
<1>1. n - m \in Nat /\ m + (n - m) = n
  OBVIOUS
<1>2. 2^n = 2^m * 2^(n - m)
  BY <1>1, TwoSum
<1>3. \A a, b \in Nat : b > 0 => a <= a * b
  OBVIOUS
<1> QED  BY <1>1, <1>2, <1>3, TwoPositive

LEMMA TwoDouble ==
    ASSUME NEW m \in Nat, NEW n \in Nat, m < n  PROVE  2 * 2^m <= 2^n
<1>1. m + 1 \in Nat /\ m + 1 <= n
  OBVIOUS
<1> QED  BY <1>1, TwoSuc, TwoGrows

LEMMA Bits ==
    /\ IntBits \in Nat /\ FloatBits \in Nat /\ 1 < FloatBits /\ FloatBits < IntBits
    /\ 2^FloatBits \in Nat /\ 4 <= 2^FloatBits /\ 2 * 2^(FloatBits - 1) = 2^FloatBits
    /\ 2^(FloatBits - 1) \in Nat
    /\ IntMax \in Int /\ IntMin \in Int /\ IntMin = -IntMax - 1
    /\ 2^FloatBits <= IntMax + 1 /\ 2 * (IntMax + 1) = 2^IntBits
    /\ 2^IntBits \in Nat /\ Infinite = 4 * 2^IntBits
    /\ Infinite <= 2^(FloatBits + IntBits)
<1>1. IntBits \in Nat /\ FloatBits \in Nat /\ 1 < FloatBits /\ FloatBits < IntBits
  BY BitsAssumption
<1>2. /\ FloatBits - 1 \in Nat /\ (FloatBits - 1) + 1 = FloatBits
      /\ IntBits - 1 \in Nat /\ (IntBits - 1) + 1 = IntBits /\ FloatBits <= IntBits - 1
      /\ IntBits + 1 \in Nat /\ (IntBits + 1) + 1 = IntBits + 2
      /\ IntBits + 2 \in Nat /\ FloatBits + IntBits \in Nat
      /\ IntBits + 2 <= FloatBits + IntBits
  BY <1>1
<1>3. 2^(FloatBits - 1) \in Nat /\ 2 * 2^(FloatBits - 1) = 2^FloatBits
  BY <1>2, TwoNat, TwoSuc
<1>4. 2^FloatBits \in Nat /\ 4 <= 2^FloatBits
  <2>1. 2^1 = 2
    BY TwoOne
  <2>2. 2 * 2^1 <= 2^FloatBits
    BY <1>1, TwoDouble
  <2> QED  BY <1>1, <2>1, <2>2, TwoNat
<1>5. 2^(IntBits - 1) \in Nat /\ 2 * 2^(IntBits - 1) = 2^IntBits /\ 2^IntBits \in Nat
  BY <1>1, <1>2, TwoNat, TwoSuc
<1>6. 2^FloatBits <= 2^(IntBits - 1)
  BY <1>1, <1>2, TwoGrows
<1>7. 2^(IntBits + 2) = 4 * 2^IntBits
  <2>1. 2^(IntBits + 1) = 2 * 2^IntBits /\ 2^((IntBits + 1) + 1) = 2 * 2^(IntBits + 1)
    BY <1>1, <1>2, TwoSuc
  <2> QED  BY <1>2, <1>5, <2>1
<1>8. 2^(IntBits + 2) <= 2^(FloatBits + IntBits)
  BY <1>2, TwoGrows
<1>9. IntMax = 2^(IntBits - 1) - 1 /\ IntMin = -IntMax - 1 /\ Infinite = 2^(IntBits + 2)
  BY DEF IntMax, IntMin, Infinite
<1>10. /\ IntMax \in Int /\ IntMin \in Int
       /\ 2^FloatBits <= IntMax + 1 /\ 2 * (IntMax + 1) = 2^IntBits
  BY <1>4, <1>5, <1>6, <1>9
<1> QED  BY <1>1, <1>3, <1>4, <1>5, <1>7, <1>8, <1>9, <1>10

-----------------------------------------------------------------------------
(* The nearest float.                                                      *)

\* The number of bits of m that a float has no room for.
Scale(m, e) ==
    /\ e \in 0..IntBits
    /\ m < 2^(FloatBits + e)
    /\ \A d \in 0..(e - 1) : m >= 2^(FloatBits + d)

\* m as a multiple of unit, the nearest one, to even when two are as near.
Up(m, unit) ==
    \/ 2 * (m % unit) > unit
    \/ 2 * (m % unit) = unit /\ (m \div unit) % 2 = 1
Rounded(m, unit) == m - (m % unit) + (IF Up(m, unit) THEN unit ELSE 0)

LEMMA ScaleExists ==
    ASSUME NEW m \in Nat, m < 2^(FloatBits + IntBits)  PROVE  \E e : Scale(m, e)
<1> DEFINE T == {e \in Nat : m < 2^(FloatBits + e)}
<1>1. T \in SUBSET Nat /\ IntBits \in T
  BY Bits
<1>2. PICK e \in T : \A d \in T : e <= d
  <2> HIDE DEF T
  <2> QED  BY <1>1, Least
<1>3. e \in Nat /\ e <= IntBits /\ m < 2^(FloatBits + e)
  BY <1>1, <1>2
<1>4. ASSUME NEW d \in 0..(e - 1)  PROVE m >= 2^(FloatBits + d)
  <2>1. d \in Nat /\ ~(e <= d) /\ FloatBits + d \in Nat
    BY <1>3, Bits
  <2>2. d \notin T
    BY <1>2, <2>1
  <2> QED  BY <2>1, <2>2, TwoNat
<1>5. e \in 0..IntBits
  BY <1>3, Bits
<1> QED  BY <1>3, <1>4, <1>5 DEF Scale

LEMMA ScaleUnique ==
    ASSUME NEW m \in Nat, NEW e, NEW f, Scale(m, e), Scale(m, f)  PROVE  e = f
<1>1. /\ e \in Nat /\ f \in Nat
      /\ FloatBits + e \in Nat /\ FloatBits + f \in Nat
      /\ m < 2^(FloatBits + e) /\ m < 2^(FloatBits + f)
  BY Bits DEF Scale
<1>2. ~(e < f) /\ ~(f < e)
  <2>1. e < f => m >= 2^(FloatBits + e)
    BY <1>1 DEF Scale
  <2>2. f < e => m >= 2^(FloatBits + f)
    BY <1>1 DEF Scale
  <2> QED  BY <1>1, <2>1, <2>2, TwoNat
<1> QED  BY <1>1, <1>2

LEMMA NearestIsRounded ==
    ASSUME NEW h \in Int, NEW e, Scale(Magnitude(h), e)
    PROVE  Nearest(h) = IF h < 0 THEN -Rounded(Magnitude(h), 2^e)
                                 ELSE Rounded(Magnitude(h), 2^e)
<1> DEFINE m == Magnitude(h)
           scale == CHOOSE d \in 0..IntBits :
                      /\ m < 2^(FloatBits + d)
                      /\ \A c \in 0..(d - 1) : m >= 2^(FloatBits + c)
<1>1. m \in Nat
  BY DEF Magnitude
<1>2. Scale(m, scale)
  BY DEF Scale
<1>3. scale = e
  <2> HIDE DEF scale, m
  <2> QED  BY <1>1, <1>2, ScaleUnique DEF m
<1>4. Nearest(h) = IF h < 0 THEN -Rounded(m, 2^scale) ELSE Rounded(m, 2^scale)
  BY DEF Nearest, Rounded, Up
<1> QED  BY <1>3, <1>4

\* Up to FloatBits bits nothing is rounded.
LEMMA NearestExact ==
    ASSUME NEW h \in Int, Magnitude(h) <= 2^FloatBits  PROVE  Nearest(h) = h
<1> DEFINE m == Magnitude(h)
<1>1. m \in Nat /\ h = IF h < 0 THEN -m ELSE m
  BY DEF Magnitude
<1>2. /\ FloatBits + 0 = FloatBits /\ FloatBits + 1 \in Nat
      /\ 2^(FloatBits + 1) = 2 * 2^FloatBits
  BY Bits, TwoSuc
<1>3. CASE m < 2^FloatBits
  <2>1. 0 \in 0..IntBits /\ 0..(0 - 1) = {}
    BY Bits
  <2>2. m < 2^(FloatBits + 0)
    BY <1>2, <1>3
  <2>3. Scale(m, 0)
    BY <2>1, <2>2 DEF Scale
  <2>4. Rounded(m, 1) = m
    BY <1>1 DEF Rounded, Up
  <2>5. Nearest(h) = IF h < 0 THEN -Rounded(m, 2^0) ELSE Rounded(m, 2^0)
    BY <2>3, NearestIsRounded
  <2> HIDE DEF m
  <2> QED  BY <1>1, <2>4, <2>5, TwoZero
<1>4. CASE m = 2^FloatBits
  <2>1. 1 \in 0..IntBits /\ 0..(1 - 1) = {0}
    BY Bits
  <2>2. m < 2^(FloatBits + 1) /\ m >= 2^(FloatBits + 0)
    BY <1>2, <1>4, Bits
  <2>3. Scale(m, 1)
    BY <2>1, <2>2 DEF Scale
  <2>4. \A k \in Nat : (2 * k) % 2 = 0
    OBVIOUS
  <2>5. m % 2 = 0
    BY <1>4, <2>4, Bits
  <2>6. Rounded(m, 2) = m
    BY <1>1, <2>5 DEF Rounded, Up
  <2>7. Nearest(h) = IF h < 0 THEN -Rounded(m, 2^1) ELSE Rounded(m, 2^1)
    BY <2>3, NearestIsRounded
  <2> HIDE DEF m
  <2> QED  BY <1>1, <2>6, <2>7, TwoOne
<1> QED  BY <1>1, <1>3, <1>4, Bits

LEMMA Quotient == \A m, u \in Nat : u > 0 => m \div u \in Nat
  OBVIOUS

LEMMA Remainder == \A m, u \in Nat : u > 0 => m % u \in 0..(u - 1)
  OBVIOUS

LEMMA Division == \A m, u \in Nat : u > 0 => m - (m % u) = u * (m \div u)
  OBVIOUS

LEMMA RoundedBetween ==
    ASSUME NEW m \in Nat, NEW unit \in Nat, unit > 0
    PROVE  /\ m \div unit \in Nat /\ m % unit \in 0..(unit - 1)
           /\ unit * (m \div unit) \in Nat
           /\ m = unit * (m \div unit) + (m % unit)
           /\ Rounded(m, unit) \in Nat
           /\ unit * (m \div unit) <= Rounded(m, unit)
           /\ Rounded(m, unit) <= unit * (m \div unit) + unit
           /\ Rounded(m, unit) = unit * (m \div unit) + (IF Up(m, unit) THEN unit ELSE 0)
<1>1. /\ m \div unit \in Nat /\ m % unit \in 0..(unit - 1)
      /\ m = unit * (m \div unit) + (m % unit)
  <2> DEFINE p == unit * (m \div unit)
             r == m % unit
  <2>1. m \div unit \in Nat /\ r \in 0..(unit - 1) /\ m - r = p
    BY Quotient, Remainder, Division
  <2> HIDE DEF p, r
  <2>2. r \in 0..(unit - 1) /\ m = p + r
    BY <2>1
  <2> QED  BY <2>1, <2>2, Zenon DEF p, r
<1>2. unit * (m \div unit) \in Nat
  BY <1>1
<1>3. Rounded(m, unit) = unit * (m \div unit) + (IF Up(m, unit) THEN unit ELSE 0)
  BY <1>1, <1>2 DEF Rounded
<1> HIDE DEF Rounded, Up
<1> QED  BY <1>1, <1>2, <1>3

LEMMA MultiplesApart ==
    ASSUME NEW unit \in Nat, NEW a \in Nat, NEW b \in Nat, a < b
    PROVE  unit * a + unit <= unit * b
<1>1. b - a - 1 \in Nat /\ b = a + 1 + (b - a - 1)
  OBVIOUS
<1>2. \A k \in Nat : unit * (a + 1 + k) = unit * a + unit + unit * k
  OBVIOUS
<1>3. \A k \in Nat : unit * k \in Nat /\ unit * a \in Nat
  OBVIOUS
<1>4. unit * b = unit * a + unit + unit * (b - a - 1)
  BY <1>1, <1>2
<1>5. unit * (b - a - 1) \in Nat /\ unit * a \in Nat
  BY <1>1, <1>3
<1> QED  BY <1>4, <1>5

\* Rounding to multiples of one unit keeps the order.
LEMMA RoundedGrows ==
    ASSUME NEW m \in Nat, NEW n \in Nat, m <= n, NEW unit \in Nat, unit > 0
    PROVE  Rounded(m, unit) <= Rounded(n, unit)
<1> DEFINE a == m \div unit
           b == n \div unit
<1>1. /\ a \in Nat /\ b \in Nat
      /\ unit * a \in Nat /\ unit * b \in Nat
      /\ m % unit \in 0..(unit - 1) /\ n % unit \in 0..(unit - 1)
      /\ m = unit * a + (m % unit) /\ n = unit * b + (n % unit)
      /\ Rounded(m, unit) \in Nat /\ Rounded(n, unit) \in Nat
      /\ Rounded(m, unit) <= unit * a + unit /\ unit * b <= Rounded(n, unit)
  BY RoundedBetween
<1>2. CASE a < b
  <2>1. unit * a + unit <= unit * b
    BY <1>1, <1>2, MultiplesApart
  <2> HIDE DEF a, b
  <2> QED  BY <1>1, <2>1
<1>3. CASE a = b
  <2>1. m % unit <= n % unit
    <3> HIDE DEF a, b
    <3> QED  BY <1>1, <1>3
  <2>2. Up(m, unit) => Up(n, unit)
    BY <1>1, <1>3, <2>1 DEF Up
  <2>3. /\ Rounded(m, unit) = unit * a + (IF Up(m, unit) THEN unit ELSE 0)
        /\ Rounded(n, unit) = unit * b + (IF Up(n, unit) THEN unit ELSE 0)
    BY RoundedBetween
  <2> HIDE DEF a, b
  <2> QED  BY <1>1, <1>3, <2>2, <2>3
<1>4. CASE b < a
  <2> DEFINE p == unit * a
             q == unit * b
             r == m % unit
             s == n % unit
  <2>1. q + unit <= p
    BY <1>1, <1>4, MultiplesApart
  <2>2. /\ p \in Nat /\ q \in Nat /\ r \in 0..(unit - 1) /\ s \in 0..(unit - 1)
        /\ m = p + r /\ n = q + s
    BY <1>1
  <2> HIDE DEF p, q, r, s
  <2> QED  BY <2>1, <2>2
<1> QED  BY <1>1, <1>2, <1>3, <1>4

\* A number of the scale e becomes one between the least of this scale and
\* the least of the next.
LEMMA RoundedInScale ==
    ASSUME NEW m \in Nat, NEW e, Scale(m, e)
    PROVE  /\ e \in Nat /\ 2^e \in Nat /\ 2^e > 0
           /\ Rounded(m, 2^e) \in Nat
           /\ Rounded(m, 2^e) <= 2^(FloatBits + e)
           /\ e > 0 => 2^(FloatBits + (e - 1)) <= Rounded(m, 2^e)
<1> DEFINE unit == 2^e
           a == m \div unit
<1>1. e \in Nat /\ m < 2^(FloatBits + e) /\ unit \in Nat /\ unit > 0
  BY TwoPositive DEF Scale
<1>2. /\ a \in Nat /\ unit * a \in Nat /\ m % unit \in 0..(unit - 1)
      /\ m = unit * a + (m % unit)
      /\ Rounded(m, unit) \in Nat
      /\ unit * a <= Rounded(m, unit) /\ Rounded(m, unit) <= unit * a + unit
  BY <1>1, RoundedBetween
<1>3. Rounded(m, unit) <= 2^(FloatBits + e)
  <2> DEFINE p == unit * a
             q == unit * 2^FloatBits
             r == m % unit
  <2>1. 2^(FloatBits + e) = q /\ 2^FloatBits \in Nat /\ q \in Nat
    <3>1. FloatBits + e = e + FloatBits
      BY <1>1, Bits
    <3> QED  BY <1>1, <3>1, TwoSum, Bits
  <2>2. /\ 2^FloatBits < a => q + unit <= p
        /\ a < 2^FloatBits => p + unit <= q
        /\ a = 2^FloatBits => p = q
    <3>1. 2^FloatBits < a => q + unit <= p
      BY <1>1, <1>2, <2>1, MultiplesApart
    <3>2. a < 2^FloatBits => p + unit <= q
      BY <1>1, <1>2, <2>1, MultiplesApart
    <3>3. a = 2^FloatBits => p = q
      BY Zenon
    <3> QED  BY <3>1, <3>2, <3>3
  <2>3. /\ p \in Nat /\ r \in 0..(unit - 1) /\ m = p + r /\ m < q
        /\ Rounded(m, unit) \in Nat /\ Rounded(m, unit) <= p + unit
    <3>1. m < q
      <4> HIDE DEF q
      <4> QED  BY <1>1, <2>1
    <3>2. p \in Nat /\ r \in 0..(unit - 1) /\ m = p + r
      BY <1>2
    <3>3. Rounded(m, unit) \in Nat /\ Rounded(m, unit) <= p + unit
      BY <1>2
    <3> QED  BY <3>1, <3>2, <3>3
  <2>4. a \in Nat
    BY <1>2
  <2> HIDE DEF a, unit, p, q, r
  <2>5. a < 2^FloatBits
    BY <1>1, <2>1, <2>2, <2>3, <2>4
  <2> QED  BY <1>1, <2>1, <2>2, <2>3, <2>5
<1>4. ASSUME e > 0  PROVE 2^(FloatBits + (e - 1)) <= Rounded(m, unit)
  <2> DEFINE half == 2^(FloatBits - 1)
  <2>1. e - 1 \in 0..(e - 1) /\ FloatBits + (e - 1) \in Nat
    BY <1>1, <1>4, Bits
  <2>2. m >= 2^(FloatBits + (e - 1))
    BY <2>1 DEF Scale
  <2>3. 2^(FloatBits + (e - 1)) = unit * half /\ half \in Nat
    <3>1. FloatBits + (e - 1) = e + (FloatBits - 1) /\ FloatBits - 1 \in Nat
      BY <1>1, Bits
    <3> QED  BY <1>1, <3>1, TwoSum, TwoNat
  <2>4. a < half => unit * a + unit <= unit * half
    BY <1>1, <1>2, <2>3, MultiplesApart
  <2>5. half < a => unit * half + unit <= unit * a
    BY <1>1, <1>2, <2>3, MultiplesApart
  <2> HIDE DEF a, unit, half
  <2>6. unit * half \in Nat
    BY <1>1, <2>3
  <2>7. ~(a < half)
    BY <1>1, <1>2, <2>2, <2>3, <2>4, <2>6
  <2>8. unit * half <= unit * a
    BY <1>1, <1>2, <2>3, <2>5, <2>6, <2>7
  <2> QED  BY <1>2, <2>3, <2>6, <2>8
<1> QED  BY <1>1, <1>2, <1>3, <1>4

LEMMA NearestGrowsOnNaturals ==
    ASSUME NEW m \in Nat, NEW n \in Nat, m <= n, n < 2^(FloatBits + IntBits)
    PROVE  Nearest(m) \in Nat /\ Nearest(m) <= Nearest(n) /\ Nearest(n) \in Nat
<1>1. 2^(FloatBits + IntBits) \in Nat
  BY Bits, TwoNat
<1>2. PICK e : Scale(m, e)
  BY <1>1, ScaleExists
<1>3. PICK f : Scale(n, f)
  BY ScaleExists
<1>4. Magnitude(m) = m /\ Magnitude(n) = n
  BY DEF Magnitude
<1>5. Nearest(m) = Rounded(m, 2^e) /\ Nearest(n) = Rounded(n, 2^f)
  BY <1>2, <1>3, <1>4, NearestIsRounded
<1>6. /\ e \in Nat /\ 2^e \in Nat /\ 2^e > 0 /\ f \in Nat
      /\ Rounded(m, 2^e) \in Nat /\ Rounded(n, 2^f) \in Nat
  BY <1>2, <1>3, RoundedInScale
<1>7. CASE e = f
  BY <1>5, <1>6, <1>7, RoundedGrows
<1>8. CASE e < f
  <2>1. Rounded(m, 2^e) <= 2^(FloatBits + e)
    BY <1>2, RoundedInScale
  <2>2. 2^(FloatBits + (f - 1)) <= Rounded(n, 2^f)
    BY <1>3, <1>6, <1>8, RoundedInScale
  <2>3. /\ FloatBits + e \in Nat /\ FloatBits + (f - 1) \in Nat
        /\ FloatBits + e <= FloatBits + (f - 1)
    BY <1>6, <1>8, Bits
  <2>4. 2^(FloatBits + e) <= 2^(FloatBits + (f - 1))
    BY <2>3, TwoGrows
  <2>5. 2^(FloatBits + e) \in Nat /\ 2^(FloatBits + (f - 1)) \in Nat
    BY <2>3, TwoNat
  <2> QED  BY <1>5, <1>6, <2>1, <2>2, <2>4, <2>5
<1>9. ~(f < e)
  <2>1. f < e => m >= 2^(FloatBits + f)
    BY <1>2, <1>6 DEF Scale
  <2>2. n < 2^(FloatBits + f) /\ 2^(FloatBits + f) \in Nat
    BY <1>3, <1>6, Bits, TwoNat DEF Scale
  <2> QED  BY <2>1, <2>2
<1> QED  BY <1>5, <1>6, <1>7, <1>8, <1>9

LEMMA NearestMirrors ==
    ASSUME NEW h \in Nat, h > 0, h < 2^(FloatBits + IntBits)
    PROVE  Nearest(-h) = -Nearest(h)
<1>1. PICK e : Scale(h, e)
  BY ScaleExists
<1>2. Magnitude(-h) = h /\ Magnitude(h) = h /\ -h < 0 /\ ~(h < 0) /\ -h \in Int
  BY DEF Magnitude
<1>3. Nearest(h) = Rounded(h, 2^e) /\ Nearest(-h) = -Rounded(h, 2^e)
  BY <1>1, <1>2, NearestIsRounded
<1> QED  BY <1>3

\* The nearest floats of two numbers are in their order.
LEMMA NearestGrows ==
    ASSUME NEW h \in Int, NEW i \in Int, h <= i,
           Magnitude(h) < Infinite, Magnitude(i) < Infinite
    PROVE  Nearest(h) \in Int /\ Nearest(i) \in Int /\ Nearest(h) <= Nearest(i)
<1>1. /\ Infinite \in Nat /\ 2^(FloatBits + IntBits) \in Nat
      /\ Infinite <= 2^(FloatBits + IntBits)
  BY Bits, TwoNat
<1>2. /\ h >= 0 => h \in Nat /\ h < 2^(FloatBits + IntBits)
      /\ i >= 0 => i \in Nat /\ i < 2^(FloatBits + IntBits)
      /\ h < 0 => -h \in Nat /\ -h > 0 /\ -h < 2^(FloatBits + IntBits) /\ -(-h) = h
      /\ i < 0 => -i \in Nat /\ -i > 0 /\ -i < 2^(FloatBits + IntBits) /\ -(-i) = i
  BY <1>1 DEF Magnitude
<1>3. CASE h >= 0
  BY <1>2, <1>3, NearestGrowsOnNaturals
<1>4. CASE h < 0 /\ i >= 0
  <2>1. Nearest(-h) \in Nat /\ Nearest(i) \in Nat
    BY <1>2, <1>4, NearestGrowsOnNaturals
  <2>2. Nearest(h) = -Nearest(-h)
    BY <1>2, <1>4, NearestMirrors
  <2> QED  BY <2>1, <2>2
<1>5. CASE i < 0
  <2>1. Nearest(-h) \in Nat /\ Nearest(-i) \in Nat /\ Nearest(-i) <= Nearest(-h)
    BY <1>2, <1>5, NearestGrowsOnNaturals
  <2>2. Nearest(h) = -Nearest(-h) /\ Nearest(i) = -Nearest(-i)
    BY <1>2, <1>5, NearestMirrors
  <2> QED  BY <2>1, <2>2
<1> QED  BY <1>3, <1>4, <1>5

-----------------------------------------------------------------------------
(* What is in a value.                                                     *)

IsLevels(l, o, n) ==
    l = [i \in 0..n |-> IF i = 0 THEN {o} ELSE UNION {Parts(p) : p \in l[i - 1]}]

LEMMA LevelsExist == ASSUME NEW o, NEW n \in Nat  PROVE  \E l : IsLevels(l, o, n)
<1> DEFINE Bad == {m \in Nat : \A l : ~IsLevels(l, o, m)}
<1>1. SUFFICES ASSUME Bad # {}  PROVE FALSE
  OBVIOUS
<1>2. PICK m \in Bad : \A k \in Bad : m <= k
  <2>1. Bad \in SUBSET Nat
    OBVIOUS
  <2> HIDE DEF Bad
  <2> QED  BY <1>1, <2>1, Least
<1>3. m # 0
  <2> DEFINE l == [i \in 0..0 |-> {o}]
  <2>1. IsLevels(l, o, 0)
    BY DEF IsLevels
  <2> QED  BY <2>1
<1>4. PICK l : IsLevels(l, o, m - 1)
  <2>1. m - 1 \in Nat /\ m - 1 \notin Bad
    BY <1>2, <1>3
  <2> QED  BY <2>1
<1> DEFINE next == UNION {Parts(p) : p \in l[m - 1]}
           u == [i \in 0..m |-> IF i = m THEN next ELSE l[i]]
<1>5. \A i \in 0..m : u[i] = IF i = 0 THEN {o} ELSE UNION {Parts(p) : p \in u[i - 1]}
  <2> SUFFICES ASSUME NEW i \in 0..m
               PROVE  u[i] = IF i = 0 THEN {o} ELSE UNION {Parts(p) : p \in u[i - 1]}
    OBVIOUS
  <2>1. CASE i = m
    <3>1. u[m - 1] = l[m - 1] /\ u[m] = next
      BY <1>3
    <3> QED  BY <1>3, <2>1, <3>1
  <2>2. CASE i # m
    <3>1. i \in 0..(m - 1) /\ u[i] = l[i] /\ (i # 0 => u[i - 1] = l[i - 1])
      BY <2>2
    <3>2. l[i] = IF i = 0 THEN {o} ELSE UNION {Parts(p) : p \in l[i - 1]}
      BY <1>4, <3>1 DEF IsLevels
    <3> QED  BY <3>1, <3>2
  <2> QED  BY <2>1, <2>2
<1>6. IsLevels(u, o, m)
  <2>1. u = [i \in 0..m |-> u[i]]
    OBVIOUS
  <2> HIDE DEF u
  <2> QED  BY <1>5, <2>1 DEF IsLevels
<1> QED  BY <1>6

LEMMA LevelsAre ==
    ASSUME NEW o
    PROVE  /\ Levels(o)[0] = {o}
           /\ \A n \in 1..MaxNesting :
                 Levels(o)[n] = UNION {Parts(p) : p \in Levels(o)[n - 1]}
<1>1. MaxNesting \in Nat
  BY BitsAssumption
<1>2. Levels(o) = CHOOSE l : IsLevels(l, o, MaxNesting)
  BY DEF Levels, IsLevels
<1>3. IsLevels(Levels(o), o, MaxNesting)
  BY <1>1, <1>2, LevelsExist
<1> QED  BY <1>1, <1>3 DEF IsLevels

\* A part of what is n deep is n + 1 deep, and the other way round.
LEMMA NextLevel ==
    ASSUME NEW o, NEW n \in Nat, n < MaxNesting
    PROVE  /\ \A p \in Levels(o)[n] : \A q \in Parts(p) : q \in Levels(o)[n + 1]
           /\ \A q \in Levels(o)[n + 1] : \E p \in Levels(o)[n] : q \in Parts(p)
<1>1. n + 1 \in 1..MaxNesting /\ (n + 1) - 1 = n
  BY BitsAssumption
<1>2. Levels(o)[n + 1] = UNION {Parts(p) : p \in Levels(o)[n]}
  BY <1>1, LevelsAre
<1> QED  BY <1>2

LEMMA InsideIs ==
    ASSUME NEW o
    PROVE  /\ o \in Inside(o)
           /\ \A p : p \in Inside(o) <=> \E n \in 0..MaxNesting : p \in Levels(o)[n]
<1>1. Inside(o) = UNION {Levels(o)[n] : n \in 0..MaxNesting}
  BY DEF Inside
<1>2. 0 \in 0..MaxNesting /\ o \in Levels(o)[0]
  BY BitsAssumption, LevelsAre
<1> QED  BY <1>1, <1>2

LEMMA InsideClosed ==
    ASSUME NEW o, Shallow(o), NEW n \in 0..MaxNesting, NEW p \in Levels(o)[n],
           NEW q \in Parts(p)
    PROVE  /\ n < MaxNesting /\ q \in Levels(o)[n + 1]
           /\ p \in Inside(o) /\ q \in Inside(o)
<1>1. n < MaxNesting
  BY BitsAssumption DEF Shallow
<1>2. q \in Levels(o)[n + 1] /\ n + 1 \in 0..MaxNesting
  BY <1>1, NextLevel, BitsAssumption
<1> QED  BY <1>1, <1>2, InsideIs

\* What is in a value is nested no deeper.
LEMMA PartsShallow ==
    ASSUME NEW o, Shallow(o), NEW p \in Parts(o)
    PROVE  Shallow(p) /\ \A q \in Inside(p) : q \in Inside(o)
<1>1. MaxNesting \in Nat /\ 0 < MaxNesting
  <2>1. o \in Levels(o)[0] /\ 0 \in 0..MaxNesting
    BY LevelsAre, BitsAssumption
  <2> QED  BY <2>1, InsideClosed, BitsAssumption
<1> DEFINE Bad == {n \in 0..(MaxNesting - 1) :
                      \E q \in Levels(p)[n] : q \notin Levels(o)[n + 1]}
<1>2. Bad = {}
  <2>1. SUFFICES ASSUME Bad # {}  PROVE FALSE
    OBVIOUS
  <2>2. PICK m \in Bad : \A k \in Bad : m <= k
    <3>1. Bad \in SUBSET Nat
      BY <1>1
    <3> HIDE DEF Bad
    <3> QED  BY <2>1, <3>1, Least
  <2>3. PICK q \in Levels(p)[m] : q \notin Levels(o)[m + 1]
    BY <2>2
  <2>4. m \in Nat /\ m < MaxNesting
    BY <1>1, <2>2
  <2>5. m # 0
    <3>1. Levels(p)[0] = {p} /\ o \in Levels(o)[0]
      BY LevelsAre
    <3>2. \A z \in Parts(o) : z \in Levels(o)[0 + 1]
      BY <1>1, <3>1, NextLevel
    <3>3. ASSUME m = 0  PROVE FALSE
      <4>1. q = p
        BY <2>3, <3>1, <3>3
      <4>2. q \notin Levels(o)[0 + 1]
        BY <2>3, <3>3
      <4> QED  BY <3>2, <4>1, <4>2
    <3> QED  BY <3>3
  <2>6. PICK r \in Levels(p)[m - 1] : q \in Parts(r)
    <3>1. m - 1 \in Nat /\ m - 1 < MaxNesting /\ (m - 1) + 1 = m
      BY <1>1, <2>4, <2>5
    <3> DEFINE i == m - 1
    <3>2. i \in Nat /\ i < MaxNesting /\ i + 1 = m
      BY <3>1
    <3> HIDE DEF i
    <3>3. \A z \in Levels(p)[i + 1] : \E y \in Levels(p)[i] : z \in Parts(y)
      BY <3>2, NextLevel
    <3>4. q \in Levels(p)[i + 1]
      BY <2>3, <3>2
    <3> QED  BY <3>3, <3>4 DEF i
  <2>7. r \in Levels(o)[m]
    <3>1. m - 1 \in 0..(MaxNesting - 1) /\ m - 1 \notin Bad /\ (m - 1) + 1 = m
      BY <1>1, <2>2, <2>4, <2>5
    <3>2. \A z \in Levels(p)[m - 1] : z \in Levels(o)[(m - 1) + 1]
      BY <3>1
    <3> QED  BY <2>6, <3>1, <3>2
  <2>8. q \in Levels(o)[m + 1]
    BY <2>4, <2>6, <2>7, NextLevel
  <2> QED  BY <2>3, <2>8
<1>3. \A n \in 0..(MaxNesting - 1) : \A q \in Levels(p)[n] : q \in Levels(o)[n + 1]
  BY <1>2
<1>4. \A q : q \notin Levels(p)[MaxNesting]
  <2> SUFFICES ASSUME NEW q \in Levels(p)[MaxNesting]  PROVE FALSE
    OBVIOUS
  <2>1. MaxNesting - 1 \in Nat /\ MaxNesting - 1 < MaxNesting /\ (MaxNesting - 1) + 1 = MaxNesting
    BY <1>1
  <2>2. \A z \in Levels(p)[(MaxNesting - 1) + 1] :
           \E y \in Levels(p)[MaxNesting - 1] : z \in Parts(y)
    BY <2>1, NextLevel
  <2>3. PICK r \in Levels(p)[MaxNesting - 1] : q \in Parts(r)
    BY <2>1, <2>2
  <2>4. r \in Levels(o)[MaxNesting]
    <3>1. MaxNesting - 1 \in 0..(MaxNesting - 1)
      BY <1>1
    <3> QED  BY <1>3, <2>1, <2>3, <3>1
  <2> QED  BY <2>3, <2>4 DEF Shallow
<1>5. Shallow(p)
  BY <1>4 DEF Shallow
<1>6. ASSUME NEW q \in Inside(p)  PROVE q \in Inside(o)
  <2>1. PICK n \in 0..MaxNesting : q \in Levels(p)[n]
    BY InsideIs
  <2>2. n \in 0..(MaxNesting - 1) /\ n + 1 \in 0..MaxNesting
    BY <1>1, <1>4, <2>1
  <2> QED  BY <1>3, <2>1, <2>2, InsideIs
<1> QED  BY <1>5, <1>6

-----------------------------------------------------------------------------
(* Builtins that do not panic.                                             *)

\* No value that a builtin makes is an outcome of another kind.
LEMMA Outcomes ==
    /\ Panic # Error
    /\ \A v : IsNumber(v) => v # Panic
    /\ \A s : Array(s) # Panic /\ Map(s) # Panic /\ String(s) # Panic
    /\ \A b : Bool(b) # Panic /\ Bytes(b) # Panic /\ Int64(b) # Panic
    /\ \A h : Float(h) # Panic /\ Inf(h) # Panic
    /\ Undefined # Panic /\ NaN # Panic
<1>1. \A v : v \in Ints => v # Panic
  BY DEF Ints, Panic
<1>2. \A v : IsFloat(v) => v # Panic
  BY DEF IsFloat, Panic, NaN, Inf, Is
<1>3. \A v : IsNumber(v) => v # Panic
  BY <1>1, <1>2 DEF IsNumber
<1>4. /\ \A s : Array(s) # Panic /\ Map(s) # Panic /\ String(s) # Panic
      /\ \A b : Bool(b) # Panic /\ Bytes(b) # Panic /\ Int64(b) # Panic
      /\ \A h : Float(h) # Panic /\ Inf(h) # Panic
      /\ Undefined # Panic /\ NaN # Panic /\ Panic # Error
  BY DEF Array, Map, String, Bool, Bytes, Int64, Float, Inf, Undefined, NaN, Panic,
         Error
<1> QED  BY <1>3, <1>4

LEMMA FloatOutcomes ==
    /\ \A v : IsNumber(v) => toFloat64(v) # Panic /\ Abs(toFloat64(v)) # Panic
    /\ \A f, ref : f # Panic => Panic \notin numericResult(f, ref)
    /\ \A f, g : Plus(f, g) # Panic
<1>1. \A v : IsNumber(v) => toFloat64(v) # Panic
  BY Outcomes DEF toFloat64
<1>2. \A f : f # Panic => Abs(f) # Panic
  BY Outcomes DEF Abs
<1>3. \A f, ref : f # Panic => Panic \notin numericResult(f, ref)
  BY Outcomes DEF numericResult
<1>4. \A f, g : Plus(f, g) # Panic
  BY Outcomes DEF Plus, Rounding
<1> QED  BY <1>1, <1>2, <1>3, <1>4

LEMMA MathOutcomes ==
    \A v, w, u :
        /\ Panic \notin abs(v) /\ Panic \notin sign(v)
        /\ Panic \notin round(v) /\ Panic \notin floor(v) /\ Panic \notin ceil(v)
        /\ Panic \notin min(v, w) /\ Panic \notin max(v, w)
        /\ Panic \notin dead_band(v, w) /\ Panic \notin clamp(v, w, u)
<1> SUFFICES ASSUME NEW v, NEW w, NEW u
             PROVE  /\ Panic \notin abs(v) /\ Panic \notin sign(v)
                    /\ Panic \notin round(v) /\ Panic \notin floor(v)
                    /\ Panic \notin ceil(v)
                    /\ Panic \notin min(v, w) /\ Panic \notin max(v, w)
                    /\ Panic \notin dead_band(v, w) /\ Panic \notin clamp(v, w, u)
  OBVIOUS
<1>1. Panic \notin abs(v) /\ Panic \notin sign(v)
  BY Outcomes, FloatOutcomes DEF abs, sign
<1>2. Panic \notin round(v) /\ Panic \notin floor(v) /\ Panic \notin ceil(v)
  BY Outcomes DEF round, floor, ceil, Integral
<1>3. Panic \notin min(v, w) /\ Panic \notin max(v, w)
  BY Outcomes, FloatOutcomes DEF min, max, Choose2
<1>4. Panic \notin dead_band(v, w) /\ Panic \notin clamp(v, w, u)
  BY Outcomes, FloatOutcomes DEF dead_band, clamp
<1> QED  BY <1>1, <1>2, <1>3, <1>4

LEMMA BestOutcomes == \A v : Panic \notin min_of(v) /\ Panic \notin max_of(v)
<1> SUFFICES ASSUME NEW v
             PROVE  Panic \notin min_of(v) /\ Panic \notin max_of(v)
  OBVIOUS
<1>1. IsArray(v) /\ Numeric(v.array) => \A i \in DOMAIN v.array : v.array[i] # Panic
  BY Outcomes DEF Numeric
<1>2. DOMAIN Floats(v.array) = DOMAIN v.array
  BY DEF Floats
<1>3. Panic \notin min_of(v)
  BY <1>1, <1>2, Outcomes DEF min_of, BestOf
<1>4. Panic \notin max_of(v)
  BY <1>1, <1>2, Outcomes DEF max_of, BestOf
<1> QED  BY <1>3, <1>4

LEMMA ArrayOutcomes ==
    \A v, w :
        /\ Panic \notin flatten(v) /\ Panic \notin reverse(v) /\ Panic \notin zip(v, w)
<1>1. \A v : Panic \notin flatten(v) /\ Panic \notin reverse(v)
  BY Outcomes, Zenon DEF flatten, reverse
<1>2. \A v, w : Panic \notin zip(v, w)
  BY Outcomes DEF zip
<1> QED  BY <1>1, <1>2

LEMMA MapOutcomes ==
    \A v, w, k, K :
        /\ Panic \notin keys(v) /\ Panic \notin values(v) /\ Panic \notin has_key(v, k)
        /\ Panic \notin merge(v, w) /\ Panic \notin pick(v, K) /\ Panic \notin omit(v, K)
        /\ Panic \notin map_to_pairs(v) /\ Panic \notin pairs_to_map(v)
  BY Outcomes, Zenon DEF keys, values, has_key, merge, pick, omit, map_to_pairs,
                         pairs_to_map

LEMMA TextOutcomes ==
    \A v, w, u :
        /\ Panic \notin split(v, w) /\ Panic \notin trim(v)
        /\ Panic \notin contains(v, w) /\ Panic \notin starts_with(v, w)
        /\ Panic \notin ends_with(v, w) /\ Panic \notin replace_all(v, w, u)
        /\ Panic \notin encode(v, w) /\ Panic \notin decode(v, w)
        /\ Panic \notin is_type(v, w)
  BY Outcomes DEF split, trim, contains, starts_with, ends_with, replace_all, encode,
                  decode, is_type

LEMMA ReplaceOutcomes == \A v, w, u : Panic \notin replace(v, w, u)
<1>1. \A v : IsText(v) => v # Panic
  BY DEF IsText, Is, Panic
<1>2. ASSUME NEW v, NEW w, NEW u, Strings(<<v, w, u>>)  PROVE IsText(v)
  <2>1. 1 \in DOMAIN <<v, w, u>> /\ <<v, w, u>>[1] = v
    OBVIOUS
  <2> QED  BY <1>2, <2>1 DEF Strings
<1> QED  BY <1>1, <1>2, Outcomes DEF replace

\* Running totals exist, of any elements: no number of them is the first
\* without.
Totals(t, f, n) ==
    t = [i \in 0..n |-> IF i = 0 THEN Float(0) ELSE Plus(t[i - 1], f[i])]

LEMMA TotalsExist == ASSUME NEW f, NEW n \in Nat  PROVE  \E t : Totals(t, f, n)
<1> DEFINE Bad == {m \in Nat : \A t : ~Totals(t, f, m)}
<1>1. SUFFICES ASSUME Bad # {}  PROVE FALSE
  OBVIOUS
<1>2. PICK m \in Bad : \A k \in Bad : m <= k
  <2>1. Bad \in SUBSET Nat
    OBVIOUS
  <2> HIDE DEF Bad
  <2> QED  BY <1>1, <2>1, Least
<1>3. m # 0
  <2> DEFINE t == [i \in 0..0 |-> Float(0)]
  <2>1. Totals(t, f, 0)
    BY DEF Totals
  <2> QED  BY <2>1
<1>4. PICK t : Totals(t, f, m - 1)
  <2>1. m - 1 \in Nat /\ m - 1 \notin Bad
    BY <1>2, <1>3
  <2> QED  BY <2>1
<1> DEFINE u == [i \in 0..m |-> IF i = m THEN Plus(t[m - 1], f[m]) ELSE t[i]]
<1>5. \A i \in 0..m : u[i] = IF i = 0 THEN Float(0) ELSE Plus(u[i - 1], f[i])
  <2> SUFFICES ASSUME NEW i \in 0..m
               PROVE  u[i] = IF i = 0 THEN Float(0) ELSE Plus(u[i - 1], f[i])
    OBVIOUS
  <2>1. CASE i = m
    <3>1. u[m - 1] = t[m - 1] /\ u[m] = Plus(t[m - 1], f[m])
      BY <1>3
    <3> QED  BY <1>3, <2>1, <3>1
  <2>2. CASE i # m
    <3>1. i \in 0..(m - 1) /\ u[i] = t[i] /\ (i # 0 => u[i - 1] = t[i - 1])
      BY <2>2
    <3>2. t[i] = IF i = 0 THEN Float(0) ELSE Plus(t[i - 1], f[i])
      BY <1>4, <3>1 DEF Totals
    <3> QED  BY <3>1, <3>2
  <2> QED  BY <2>1, <2>2
<1>6. Totals(u, f, m)
  <2>1. u = [i \in 0..m |-> u[i]]
    OBVIOUS
  <2> HIDE DEF u
  <2> QED  BY <1>5, <2>1 DEF Totals
<1> QED  BY <1>6

LEMMA TotalsAre ==
    ASSUME NEW t, NEW f, NEW n \in Nat, Totals(t, f, n)
    PROVE  \A i \in 0..n : t[i] = IF i = 0 THEN Float(0) ELSE Plus(t[i - 1], f[i])
  BY DEF Totals

LEMMA SumOutcomes == \A v : Panic \notin sum(v)
<1> SUFFICES ASSUME NEW v, Panic \in sum(v)  PROVE FALSE
  OBVIOUS
<1> DEFINE f == Floats(v.array)
           t == CHOOSE t : Totals(t, f, Len(f))
<1>1. IsArray(v)
  BY Outcomes DEF sum
<1>2. Panic = t[Len(f)]
  BY Outcomes DEF sum, Totals
<1>3. Len(f) \in Nat
  BY <1>1 DEF IsArray, Floats
<1>4. Totals(t, f, Len(f))
  BY <1>3, TotalsExist
<1>5. t[Len(f)] = IF Len(f) = 0 THEN Float(0) ELSE Plus(t[Len(f) - 1], f[Len(f)])
  BY <1>3, <1>4, TotalsAre
<1> QED  BY <1>2, <1>5, Outcomes, FloatOutcomes

LEMMA RebuiltOutcomes ==
    \A o, f, leaf : Rebuilt(o, f, leaf) = Panic => leaf = Panic
  BY DEF Rebuilt, Array, Map, Panic

LEMMA JsonOutcomes == \A v : Panic \notin json_decode(v)
<1>1. ASSUME NEW v, Panic \in json_decode(v)  PROVE FALSE
  <2> DEFINE d == v.string[2]
             g == Unmarshal(d)
  <2>1. IsDocument(d) /\ Panic = goToTengo(g)
    BY <1>1, Outcomes DEF json_decode
  <2>2. d # Panic
    <3>1. d \in Levels(d)[0] /\ 0 \in 0..MaxNesting
      BY LevelsAre, BitsAssumption
    <3>2. d \in Inside(d)
      BY <3>1 DEF Inside
    <3>3. DOMAIN Panic = {"panic"}
      BY DEF Panic
    <3> QED  BY <2>1, <3>2, <3>3 DEF IsDocument, IsArray, IsMap, Is, Nil
  <2>3. g # Panic
    BY <2>2, Outcomes, RebuiltOutcomes DEF Unmarshal, Converted, UnmarshalLeaf
  <2>4. TengoLeaf(g) # Panic
    BY <2>3, Outcomes DEF TengoLeaf
  <2> QED  BY <2>1, <2>4, RebuiltOutcomes DEF goToTengo, Converted
<1> QED  BY <1>1

-----------------------------------------------------------------------------
(* Texts are sequences, and pads.                                          *)

LEMMA SequenceIs ==
    ASSUME NEW s, IsSequence(s)
    PROVE  s \in Seq(Range(s)) /\ Len(s) \in Nat
<1>1. s = [i \in 1..Len(s) |-> s[1 + i - 1]] /\ Len(s) \in Nat
  BY DEF IsSequence, SubSeq
<1>2. DOMAIN s = 1..Len(s)
  BY <1>1
<1>3. \A i \in 1..Len(s) : s[i] \in Range(s)
  BY <1>2 DEF Range
<1>4. s = [i \in 1..Len(s) |-> s[i]]
  BY <1>1
<1> QED  BY <1>1, <1>3, <1>4, SeqDef

\* Two sequences over one set of characters.
LEMMA Alphabet ==
    ASSUME NEW s, NEW t, IsSequence(s), IsSequence(t)
    PROVE  \E C : s \in Seq(C) /\ t \in Seq(C)
<1> DEFINE C == Range(s) \cup Range(t)
<1>1. s \in Seq(C) /\ t \in Seq(C)
  BY SequenceIs
<1> QED  BY <1>1

LEMMA Sequences == ASSUME NEW C, NEW s \in Seq(C)  PROVE IsSequence(s)
<1>1. Len(s) \in Nat /\ DOMAIN s = 1..Len(s) /\ s = [i \in 1..Len(s) |-> s[i]]
  OBVIOUS
<1>2. SubSeq(s, 1, Len(s)) = [i \in 1..Len(s) |-> s[1 + i - 1]]
  BY <1>1 DEF SubSeq
<1>3. [i \in 1..Len(s) |-> s[1 + i - 1]] = [i \in 1..Len(s) |-> s[i]]
  BY <1>1
<1> QED  BY <1>1, <1>2, <1>3 DEF IsSequence

LEMMA TextIs ==
    ASSUME NEW t, IsText(String(t))
    PROVE  IsSequence(t)
  BY DEF IsText, String

LEMMA Copied ==
    ASSUME NEW C, NEW p \in Seq(C), p # <<>>, NEW n \in Nat
    PROVE  Copies(p, n) \in Seq(C) /\ Len(Copies(p, n)) = n * Len(p)
<1> DEFINE l == Len(p)
           d == [i \in 1..(n * l) |-> p[1 + ((i - 1) % l)]]
<1>1. l \in Nat /\ l > 0
  BY EmptySeq
<1>2. n * l \in Nat
  BY <1>1
<1>3. \A i \in 1..(n * l) : 1 + ((i - 1) % l) \in 1..l
  <2> SUFFICES ASSUME NEW i \in 1..(n * l)  PROVE 1 + ((i - 1) % l) \in 1..l
    OBVIOUS
  <2> HIDE DEF l
  <2>1. i - 1 \in Nat
    BY <1>2
  <2>2. (i - 1) % l \in 0..(l - 1)
    BY <1>1, <2>1, Remainder
  <2> QED  BY <1>1, <2>2
<1>4. \A i \in 1..(n * l) : p[1 + ((i - 1) % l)] \in C
  BY <1>3
<1>5. Copies(p, n) = d
  BY DEF Copies
<1> DEFINE m == n * l
<1>6. d \in [1..m -> C]
  BY <1>4
<1>7. m \in Nat
  BY <1>2
<1>8. m = n * Len(p)
  OBVIOUS
<1> HIDE DEF m, d, l
<1>9. d \in Seq(C) /\ Len(d) = m
  BY <1>6, <1>7
<1> QED  BY <1>5, <1>8, <1>9

\* A pad of as many copies as it takes, and not one more.
LEMMA PaddingMeets ==
    ASSUME NEW C, NEW s \in Seq(C), NEW pad \in Seq(C), pad # <<>>, NEW width \in Int
    PROVE  /\ Padding(s, width, pad) \in Seq(C)
           /\ Len(s) + Len(Padding(s, width, pad)) >= width
           /\ \/ Padding(s, width, pad) = <<>>
              \/ /\ Len(s) < width
                 /\ Len(s) + Len(Padding(s, width, pad)) < width + Len(pad)
<1> DEFINE M == Magnitude(width)
           ls == Len(s)
           lp == Len(pad)
           Enough == {n \in 0..M : ls + n * lp >= width}
           n == Min(Enough)
<1>1. M \in Nat /\ M >= width
  BY DEF Magnitude
<1>2. ls \in Nat /\ lp \in Nat /\ lp > 0
  BY EmptySeq
<1>3. Padding(s, width, pad) = Copies(pad, n)
  BY DEF Padding
<1> HIDE DEF M, ls, lp
<1>4. M \in Enough
  <2>1. M * lp >= M
    <3>1. M * lp = M + M * (lp - 1)
      BY <1>1, <1>2
    <3>2. M * (lp - 1) \in Nat
      BY <1>1, <1>2
    <3>3. M * lp \in Int
      BY <1>1, <1>2
    <3> QED  BY <1>1, <3>1, <3>2, <3>3
  <2>2. M * lp \in Int
    BY <1>1, <1>2
  <2> QED  BY <1>1, <1>2, <2>1, <2>2
<1>5. n \in Enough /\ \A k \in Enough : n <= k
  <2>1. Enough \in SUBSET Nat /\ Enough # {}
    BY <1>1, <1>4
  <2> HIDE DEF Enough
  <2>2. \E i \in Enough : \A j \in Enough : i <= j
    BY <2>1, Least
  <2> QED  BY <2>2 DEF Min
<1>6. n \in 0..M /\ ls + n * lp >= width
  BY <1>5
<1>7. n = 0 \/ (ls < width /\ ls + n * lp < width + lp)
  <2> SUFFICES ASSUME n # 0  PROVE ls < width /\ ls + n * lp < width + lp
    OBVIOUS
  <2>0. ls < width
    <3>1. 0 \notin Enough
      <4>1. 0 \in Int /\ n \in Nat /\ ~(n <= 0)
        BY <1>1, <1>6
      <4> QED  BY <1>5, <4>1
    <3>2. 0 \in 0..M /\ 0 * lp = 0
      BY <1>1, <1>2
    <3> QED  BY <1>2, <3>1, <3>2
  <2>1. n - 1 \notin Enough
    <3>1. n - 1 \in Int /\ n \in Int /\ ~(n <= n - 1)
      BY <1>1, <1>6
    <3> QED  BY <1>5, <3>1
  <2>2. n - 1 \in 0..M
    BY <1>1, <1>6
  <2>3. ~(ls + (n - 1) * lp >= width)
    BY <2>1, <2>2
  <2> HIDE DEF n
  <2>4. (n - 1) * lp = n * lp - lp /\ n * lp \in Int
    BY <1>1, <1>2, <1>6
  <2> QED  BY <1>2, <2>0, <2>3, <2>4
<1> HIDE DEF n, Enough
<1>8. n \in Nat
  BY <1>1, <1>6
<1>9. Copies(pad, n) \in Seq(C) /\ Len(Copies(pad, n)) = n * lp
  BY <1>8, Copied DEF lp
<1>10. n = 0 => Copies(pad, n) = <<>>
  <2>1. n = 0 => n * lp = 0
    BY <1>2
  <2> QED  BY <1>9, <2>1, EmptySeq
<1> QED  BY <1>3, <1>6, <1>7, <1>9, <1>10 DEF ls, lp

LEMMA PadTypesAre ==
    ASSUME NEW v, NEW width, NEW t, PadTypes(v, width, String(t))
    PROVE  /\ v = String(v.string) /\ width.int \in Int /\ t # <<>>
           /\ \E C : v.string \in Seq(C) /\ t \in Seq(C)
<1>1. DOMAIN <<v, String(t)>> = {1, 2}
  OBVIOUS
<1>2. /\ \A i \in DOMAIN <<v, String(t)>> : IsText(<<v, String(t)>>[i])
      /\ width \in Ints /\ String(t).string # <<>>
  BY DEF PadTypes, Strings
<1>3. IsText(<<v, String(t)>>[1]) /\ IsText(<<v, String(t)>>[2])
  BY <1>1, <1>2
<1>4. IsText(v) /\ IsText(String(t))
  BY <1>3
<1>5. IsSequence(v.string) /\ IsSequence(t)
  BY <1>4, TextIs DEF IsText
<1>6. width.int \in Int
  BY <1>2 DEF Ints
<1>7. t # <<>>
  BY <1>2 DEF String
<1> QED  BY <1>4, <1>5, <1>6, <1>7, Alphabet DEF IsText

-----------------------------------------------------------------------------
(* Builtins that may panic.                                                *)

LEMMA SlicePanics ==
    ASSUME NEW v, NEW start \in Int, NEW end \in Int, Panic \in slice_array(v, start, end)
    PROVE  end < 0
<1>1. IsArray(v)
  BY Outcomes DEF slice_array
<1>2. Len(v.array) \in Nat
  BY <1>1 DEF IsArray
<1>3. SUFFICES ASSUME end >= 0  PROVE FALSE
  OBVIOUS
<1> DEFINE e == IF end > Len(v.array) THEN Len(v.array) ELSE end
           s == IF start < 0 THEN 0 ELSE start
           from == IF s > e THEN e ELSE s
<1>4. e >= 0 /\ s >= 0 /\ ~(from < 0)
  BY <1>2, <1>3
<1>5. slice_array(v, start, end)
        = IF from < 0 THEN {Panic} ELSE {Array(SubSeq(v.array, from + 1, e))}
  BY <1>1 DEF slice_array
<1> HIDE DEF e, s, from
<1> QED  BY <1>4, <1>5, Outcomes

LEMMA RandPanics ==
    ASSUME NEW lo, NEW hi, Panic \in rand_int(lo, hi)
    PROVE  hi.int - lo.int >= IntMax
<1>1. lo \in Ints /\ hi \in Ints /\ hi.int - lo.int + 1 > IntMax
  BY Outcomes DEF rand_int
<1>2. lo.int \in Int /\ hi.int \in Int /\ IntMax \in Int
  BY <1>1, TwoNat, BitsAssumption DEF Ints, IntMax, IntMin
<1> QED  BY <1>1, <1>2

LEMMA RepeatPanics ==
    ASSUME NEW v, NEW n, Panic \in repeat(v, n)
    PROVE  Len(v.string) * n.int > LongestText
  BY Outcomes DEF repeat

LEMMA PadPanics ==
    ASSUME NEW v, NEW width, NEW t,
           Panic \in pad_left(v, width, String(t)) \cup pad_right(v, width, String(t))
    PROVE  Len(v.string) < width.int /\ width.int + Len(t) > LongestText
<1> DEFINE s == v.string
           p == Padding(s, width.int, t)
<1>1. PadTypes(v, width, String(t)) /\ String(t).string = t
  BY Outcomes DEF pad_left, pad_right, String
<1>2. Outgrows(s, p)
  BY <1>1, Outcomes DEF pad_left, pad_right
<1>3. PICK C : s \in Seq(C) /\ t \in Seq(C)
  BY <1>1, PadTypesAre
<1>4. width.int \in Int /\ t # <<>>
  BY <1>1, PadTypesAre
<1> HIDE DEF s
<1>5. /\ p \in Seq(C)
      /\ p = <<>> \/ (Len(s) < width.int /\ Len(s) + Len(p) < width.int + Len(t))
  BY <1>3, <1>4, PaddingMeets
<1> HIDE DEF p
<1>6. p # <<>> /\ Len(s) + Len(p) > LongestText
  BY <1>2 DEF Outgrows
<1>7. LongestText \in Int
  BY MemoryAssumption
<1>8. Len(s) \in Nat /\ Len(p) \in Nat /\ Len(t) \in Nat
  BY <1>3, <1>5
<1>9. Len(s) < width.int /\ width.int + Len(t) > LongestText
  BY <1>4, <1>5, <1>6, <1>7, <1>8
<1> QED  BY <1>9 DEF s

\* Recursion without an end.
LEMMA RecursionPanics ==
    ASSUME NEW v, NEW w
    PROVE  /\ Panic \in sort_array(v) => Overflows(v)
           /\ Panic \in unique(v) => Overflows(v)
           /\ Panic \in join(v, w) => Overflows(v)
           /\ Panic \in json_encode(v) => Overflows(v)
<1>1. Panic \in sort_array(v) => Overflows(v)
  BY Outcomes, Zenon DEF sort_array, SortBy
<1>2. Panic \in unique(v) => Overflows(v)
  BY Outcomes, Zenon DEF unique
<1>3. Panic \in join(v, w) => Overflows(v)
  BY Outcomes, Zenon DEF join
<1>4. Panic \in json_encode(v) => Overflows(v)
  BY Outcomes, Zenon DEF json_encode
<1> QED  BY <1>1, <1>2, <1>3, <1>4

LEMMA ContainsPanics ==
    ASSUME NEW v, Shallow(v), NEW o, Panic \in array_contains(v, o)
    PROVE  Overflows(v) \/ Overflows(o)
<1>1. SUFFICES ASSUME ~Overflows(o)  PROVE Overflows(v)
  OBVIOUS
<1>2. IsArray(v)
  BY Outcomes DEF array_contains
<1>3. EndlessAt(v.array) # {}
  <2>1. \E found : Panic = Answer(found, v.array)
    BY <1>1, <1>2, Outcomes DEF array_contains
  <2> QED  BY <2>1, Outcomes DEF Answer
<1>4. PICK i \in DOMAIN v.array : Overflows(v.array[i])
  BY <1>3 DEF EndlessAt
<1>5. v.array[i] \in Parts(v)
  BY <1>2 DEF Parts, IsArray
<1> QED  BY <1>4, <1>5, PartsShallow DEF Overflows

-----------------------------------------------------------------------------
(* The script.                                                             *)

\* A call of fn with args on v in which the server ends.
Explains(fn, args, v) ==
    \/ fn = "slice_array" /\ args[2].int < 0
    \/ fn = "rand_int" /\ args[1].int - v.int >= IntMax
    \/ fn = "repeat" /\ Len(v.string) * args[1].int > LongestText
    \/ fn \in Pads /\ Len(v.string) < args[1].int
                  /\ args[1].int + Len(args[2].string) > LongestText
    \/ fn \in Recursive /\ \E w \in {v} \cup ToSet(args) : Overflows(w)

\* The calls so far are a sequence.
TrailOK == trail \in Seq(Range(trail))

LEMMA CallRecorded ==
    ASSUME TrailOK, NEW fn, NEW args, NEW results, Call(fn, args, results)
    PROVE  /\ TrailOK'
           /\ trail' # <<>> /\ Len(trail') = Len(trail) + 1
           /\ Last(trail') = [fn |-> fn, args |-> args, was |-> x]
           /\ \A n \in 1..Len(trail) : trail'[n] = trail[n]
<1> DEFINE e == [fn |-> fn, args |-> args, was |-> x]
           S == Range(trail) \cup {e}
<1>1. trail' = Append(trail, e)
  BY DEF Call
<1>2. trail \in Seq(S)
  BY DEF TrailOK
<1> HIDE DEF e
<1>3. /\ trail' \in Seq(S) /\ Len(trail') = Len(trail) + 1 /\ trail'[Len(trail')] = e
      /\ \A n \in 1..Len(trail) : trail'[n] = trail[n]
  BY <1>1, <1>2
<1>4. trail' \in Seq(Range(trail'))
  BY <1>3 DEF Range
<1> QED  BY <1>3, <1>4 DEF TrailOK, Last, e

LEMMA CallOutcome ==
    ASSUME NEW fn, NEW args, NEW results, Call(fn, args, results)
    PROVE  /\ status' \in {"running", "error", "panic"}
           /\ status' = "panic" => Panic \in results
           /\ status' = "running" => x' \in results /\ x' \notin {Error, Panic}
           /\ x' = x \/ Shallow(x')
  BY DEF Call

\* What a call of fn with args on v that returned r says about r, for the
\* builtins the results below are about.
Returns(fn, args, v, r) ==
    /\ fn = "abs" => r \in abs(v)
    /\ fn = "round" => r \in round(v)
    /\ fn = "floor" => r \in floor(v)
    /\ fn = "ceil" => r \in ceil(v)
    /\ fn = "min" => \E w : args = <<w>> /\ r \in min(v, w)
    /\ fn = "max" => \E w : args = <<w>> /\ r \in max(v, w)
    /\ fn = "clamp" => \E lo, hi : args = <<lo, hi>> /\ r \in clamp(v, lo, hi)
    /\ fn = "slice_array" =>
          \E start, end \in Int : /\ args = <<Int64(start), Int64(end)>>
                                  /\ r \in slice_array(v, start, end)
    /\ fn = "sort_array" => r \in sort_array(v)
    /\ fn = "array_contains" => \E o : args = <<o>> /\ r \in array_contains(v, o)
    /\ fn = "unique" => r \in unique(v)
    /\ fn = "map_to_pairs" => r \in map_to_pairs(v)
    /\ fn = "pairs_to_map" => r \in pairs_to_map(v)
    /\ fn = "json_encode" => r \in json_encode(v)
    /\ fn = "json_decode" => r \in json_decode(v)
    /\ fn = "split" => \E t : args = <<String(t)>> /\ r \in split(v, String(t))
    /\ fn = "join" => \E t : args = <<String(t)>> /\ r \in join(v, String(t))
    /\ fn = "replace_all" =>
          \E s, t : /\ args = <<String(s), String(t)>>
                   /\ r \in replace_all(v, String(s), String(t))
    /\ fn = "trim" => r \in trim(v)
    /\ fn = "pad_left" =>
          \E o, t : args = <<o, String(t)>> /\ r \in pad_left(v, o, String(t))
    /\ fn = "pad_right" =>
          \E o, t : args = <<o, String(t)>> /\ r \in pad_right(v, o, String(t))
    /\ fn = "encode" =>
          \E name : args = <<String(<<name>>)>> /\ r \in encode(v, name)
    /\ fn = "decode" =>
          \E name : args = <<String(<<name>>)>> /\ r \in decode(v, name)

Followed == {"abs", "round", "floor", "ceil", "min", "max", "clamp", "slice_array",
             "sort_array", "array_contains", "unique", "map_to_pairs", "pairs_to_map",
             "json_encode", "json_decode", "split", "join", "replace_all", "trim",
             "pad_left", "pad_right", "encode", "decode"}

Accounted(fn, args, results) ==
    /\ Panic \in results => Explains(fn, args, x)
    /\ \A r \in results : r \notin {Error, Panic} => Returns(fn, args, x, r)

LEMMA NotFollowed ==
    ASSUME NEW fn, fn \notin Followed, NEW args, NEW results, Panic \notin results
    PROVE  Accounted(fn, args, results)
  BY DEF Accounted, Returns, Followed

LEMMA Recurses ==
    ASSUME NEW fn, fn \in Recursive, NEW args, NEW results,
           Panic \in results => \E w \in {x} \cup ToSet(args) : Overflows(w),
           \A r \in results : r \notin {Error, Panic} => Returns(fn, args, x, r)
    PROVE  Accounted(fn, args, results)
  BY DEF Accounted, Explains

\* The inductive invariant: every call so far returned what the builtin may
\* return, and the last one, if it brought the server down, explains it; what
\* there is now, and what there was before the last call, is not nested too
\* deep for Inside to see all of it.
ScriptInv ==
    /\ TrailOK
    /\ Shallow(x)
    /\ status # "running" => trail # <<>>
    /\ trail # <<>> =>
          LET c == Last(trail)
          IN  /\ Shallow(c.was)
              /\ status = "panic" => Explains(c.fn, c.args, c.was)
              /\ status = "running" =>
                    x \notin {Error, Panic} /\ Returns(c.fn, c.args, c.was, x)
    /\ \A n \in 1..(Len(trail) - 1) :
          /\ trail[n + 1].was \notin {Error, Panic}
          /\ Returns(trail[n].fn, trail[n].args, trail[n].was, trail[n + 1].was)

LEMMA CallKeepsInv ==
    ASSUME ScriptInv, NEW fn, NEW args, NEW results, Call(fn, args, results),
           Accounted(fn, args, results)
    PROVE  ScriptInv'
<1>1. /\ TrailOK'
      /\ trail' # <<>> /\ Len(trail') = Len(trail) + 1
      /\ Last(trail') = [fn |-> fn, args |-> args, was |-> x]
      /\ \A n \in 1..Len(trail) : trail'[n] = trail[n]
  BY CallRecorded DEF ScriptInv
<1>2. status' = "panic" => Explains(fn, args, x)
  BY CallOutcome DEF Accounted
<1>3. status' = "running" => x' \notin {Error, Panic} /\ Returns(fn, args, x, x')
  BY CallOutcome DEF Accounted
<1>4. status = "running" /\ Len(trail) \in Nat
  BY DEF Call, ScriptInv, TrailOK
<1>5. ASSUME NEW n \in 1..(Len(trail') - 1)
      PROVE  /\ trail'[n + 1].was \notin {Error, Panic}
             /\ Returns(trail'[n].fn, trail'[n].args, trail'[n].was, trail'[n + 1].was)
  <2>1. n \in 1..Len(trail) /\ trail'[n] = trail[n]
    BY <1>1, <1>4
  <2>2. CASE n = Len(trail)
    <3>1. trail # <<>> /\ Last(trail) = trail[n]
      BY <2>1, <2>2 DEF Last
    <3>2. trail'[n + 1] = [fn |-> fn, args |-> args, was |-> x]
      BY <1>1, <2>2 DEF Last
    <3> QED  BY <1>4, <2>1, <3>1, <3>2 DEF ScriptInv
  <2>3. CASE n # Len(trail)
    <3>1. n \in 1..(Len(trail) - 1) /\ n + 1 \in 1..Len(trail)
      BY <1>4, <2>1, <2>3
    <3> QED  BY <1>1, <2>1, <3>1 DEF ScriptInv
  <2> QED  BY <2>2, <2>3
<1>6. Shallow(x) /\ Shallow(x')
  BY CallOutcome DEF ScriptInv
<1>7. LET c == Last(trail')
      IN  /\ Shallow(c.was)
          /\ status' = "panic" => Explains(c.fn, c.args, c.was)
          /\ status' = "running" =>
                x' \notin {Error, Panic} /\ Returns(c.fn, c.args, c.was, x')
  BY <1>1, <1>2, <1>3, <1>6
<1> QED  BY <1>1, <1>5, <1>6, <1>7 DEF ScriptInv

\* Every step is a call whose results are accounted for.
ACall == \E fn, args, results : Call(fn, args, results) /\ Accounted(fn, args, results)

LEMMA SummarizeCalls == Summarize => ACall
<1>1. Call("sum", <<>>, sum(x)) => ACall
  BY SumOutcomes, NotFollowed DEF ACall, Followed
<1>2. Call("min_of", <<>>, min_of(x)) => ACall
  BY BestOutcomes, NotFollowed DEF ACall, Followed
<1>3. Call("max_of", <<>>, max_of(x)) => ACall
  BY BestOutcomes, NotFollowed DEF ACall, Followed
<1> QED  BY <1>1, <1>2, <1>3 DEF Summarize

LEMMA RearrangeCalls == Rearrange => ACall
<1>1. Call("sort_array", <<>>, sort_array(x)) => ACall
  <2>1. Accounted("sort_array", <<>>, sort_array(x))
    BY RecursionPanics, Recurses DEF Recursive, Returns
  <2> QED  BY <2>1 DEF ACall
<1>2. Call("unique", <<>>, unique(x)) => ACall
  <2>1. Accounted("unique", <<>>, unique(x))
    BY RecursionPanics, Recurses DEF Recursive, Returns
  <2> QED  BY <2>1 DEF ACall
<1>3. Call("flatten", <<>>, flatten(x)) => ACall
  BY ArrayOutcomes, NotFollowed DEF ACall, Followed
<1>4. Call("reverse", <<>>, reverse(x)) => ACall
  BY ArrayOutcomes, NotFollowed DEF ACall, Followed
<1>5. ASSUME NEW o \in Extras, Call("zip", <<o>>, zip(x, o))  PROVE ACall
  BY <1>5, ArrayOutcomes, NotFollowed DEF ACall, Followed
<1> QED  BY <1>1, <1>2, <1>3, <1>4, <1>5 DEF Rearrange

LEMMA SliceCalls == SliceArray => ACall
<1> SUFFICES ASSUME NEW start \in Indices, NEW end \in Indices,
                    Call("slice_array", <<Int64(start), Int64(end)>>,
                         slice_array(x, start, end))
             PROVE  ACall
  BY DEF SliceArray
<1> DEFINE args == <<Int64(start), Int64(end)>>
           results == slice_array(x, start, end)
<1>1. start \in Int /\ end \in Int
  BY IndicesAssumption
<1>2. Panic \in results => Explains("slice_array", args, x)
  BY <1>1, SlicePanics DEF Explains, Int64
<1>3. ASSUME NEW r \in results  PROVE Returns("slice_array", args, x, r)
  BY <1>1, <1>3 DEF Returns
<1>4. Accounted("slice_array", args, results)
  BY <1>2, <1>3 DEF Accounted
<1> QED  BY <1>4 DEF ACall

LEMMA ContainsCalls == ArrayContains /\ Shallow(x) => ACall
<1> SUFFICES ASSUME NEW o \in Extras, Call("array_contains", <<o>>, array_contains(x, o)),
                    Shallow(x)
             PROVE  ACall
  BY DEF ArrayContains
<1>1. \A r \in array_contains(x, o) : Returns("array_contains", <<o>>, x, r)
  BY DEF Returns
<1>2. ToSet(<<o>>) = {o}
  BY DEF ToSet
<1>3. Panic \in array_contains(x, o) => \E w \in {x} \cup ToSet(<<o>>) : Overflows(w)
  BY <1>2, ContainsPanics
<1>4. Accounted("array_contains", <<o>>, array_contains(x, o))
  BY <1>1, <1>3, Recurses DEF Recursive
<1> QED  BY <1>4 DEF ACall

LEMMA TakeApartCalls == TakeApart => ACall
<1>1. Call("keys", <<>>, keys(x)) => ACall
  BY MapOutcomes, NotFollowed DEF ACall, Followed
<1>2. Call("values", <<>>, values(x)) => ACall
  BY MapOutcomes, NotFollowed DEF ACall, Followed
<1>3. Call("map_to_pairs", <<>>, map_to_pairs(x)) => ACall
  <2>1. Accounted("map_to_pairs", <<>>, map_to_pairs(x))
    BY MapOutcomes DEF Accounted, Returns
  <2> QED  BY <2>1 DEF ACall
<1>4. Call("pairs_to_map", <<>>, pairs_to_map(x)) => ACall
  <2>1. Accounted("pairs_to_map", <<>>, pairs_to_map(x))
    BY MapOutcomes DEF Accounted, Returns
  <2> QED  BY <2>1 DEF ACall
<1> QED  BY <1>1, <1>2, <1>3, <1>4 DEF TakeApart

LEMMA SelectCalls == SelectKeys => ACall
<1>1. ASSUME NEW k \in Texts, Call("has_key", <<String(k)>>, has_key(x, k))
      PROVE  ACall
  BY <1>1, MapOutcomes, NotFollowed DEF ACall, Followed
<1>2. ASSUME NEW k \in Texts, Call("pick", <<String(k)>>, pick(x, {k}))
      PROVE  ACall
  BY <1>2, MapOutcomes, NotFollowed DEF ACall, Followed
<1>3. ASSUME NEW k \in Texts, Call("omit", <<String(k)>>, omit(x, {k}))
      PROVE  ACall
  BY <1>3, MapOutcomes, NotFollowed DEF ACall, Followed
<1> QED  BY <1>1, <1>2, <1>3 DEF SelectKeys

LEMMA MergeCalls == Merge => ACall
  BY MapOutcomes, NotFollowed DEF Merge, ACall, Followed

LEMMA CalculateCalls == Calculate => ACall
<1>1. Call("abs", <<>>, abs(x)) => ACall
  <2>1. Accounted("abs", <<>>, abs(x))
    BY MathOutcomes DEF Accounted, Returns
  <2> QED  BY <2>1 DEF ACall
<1>2. Call("sign", <<>>, sign(x)) => ACall
  BY MathOutcomes, NotFollowed DEF ACall, Followed
<1>3. Call("round", <<>>, round(x)) => ACall
  <2>1. Accounted("round", <<>>, round(x))
    BY MathOutcomes DEF Accounted, Returns
  <2> QED  BY <2>1 DEF ACall
<1>4. Call("floor", <<>>, floor(x)) => ACall
  <2>1. Accounted("floor", <<>>, floor(x))
    BY MathOutcomes DEF Accounted, Returns
  <2> QED  BY <2>1 DEF ACall
<1>5. Call("ceil", <<>>, ceil(x)) => ACall
  <2>1. Accounted("ceil", <<>>, ceil(x))
    BY MathOutcomes DEF Accounted, Returns
  <2> QED  BY <2>1 DEF ACall
<1> QED  BY <1>1, <1>2, <1>3, <1>4, <1>5 DEF Calculate

LEMMA CompareCalls == Compare => ACall
<1>1. ASSUME NEW o \in Operands, Call("min", <<o>>, min(x, o))
      PROVE  ACall
  <2>1. \A r \in min(x, o) : Returns("min", <<o>>, x, r)
    BY DEF Returns
  <2>2. Accounted("min", <<o>>, min(x, o))
    BY <2>1, MathOutcomes DEF Accounted
  <2> QED  BY <1>1, <2>2 DEF ACall
<1>2. ASSUME NEW o \in Operands, Call("max", <<o>>, max(x, o))
      PROVE  ACall
  <2>1. \A r \in max(x, o) : Returns("max", <<o>>, x, r)
    BY DEF Returns
  <2>2. Accounted("max", <<o>>, max(x, o))
    BY <2>1, MathOutcomes DEF Accounted
  <2> QED  BY <1>2, <2>2 DEF ACall
<1>3. ASSUME NEW o \in Operands, Call("dead_band", <<o>>, dead_band(x, o))
      PROVE  ACall
  BY <1>3, MathOutcomes, NotFollowed DEF ACall, Followed
<1>4. ASSUME NEW o \in Operands, NEW p \in Operands, Call("clamp", <<o, p>>, clamp(x, o, p))
      PROVE  ACall
  <2>1. \A r \in clamp(x, o, p) : Returns("clamp", <<o, p>>, x, r)
    BY DEF Returns
  <2>2. Accounted("clamp", <<o, p>>, clamp(x, o, p))
    BY <2>1, MathOutcomes DEF Accounted
  <2> QED  BY <1>4, <2>2 DEF ACall
<1> QED  BY <1>1, <1>2, <1>3, <1>4 DEF Compare

LEMMA RandCalls == RandInt => ACall
<1> SUFFICES ASSUME NEW o \in Operands, Call("rand_int", <<o>>, rand_int(x, o))
             PROVE  ACall
  BY DEF RandInt
<1>1. Accounted("rand_int", <<o>>, rand_int(x, o))
  BY RandPanics DEF Accounted, Returns, Explains
<1> QED  BY <1>1 DEF ACall

LEMMA JsonCalls == Json => ACall
<1>1. Call("json_encode", <<>>, json_encode(x)) => ACall
  <2>1. Accounted("json_encode", <<>>, json_encode(x))
    BY RecursionPanics, Recurses DEF Recursive, Returns
  <2> QED  BY <2>1 DEF ACall
<1>2. Call("json_decode", <<>>, json_decode(x)) => ACall
  <2>1. Accounted("json_decode", <<>>, json_decode(x))
    BY JsonOutcomes DEF Accounted, Returns
  <2> QED  BY <2>1 DEF ACall
<1> QED  BY <1>1, <1>2 DEF Json

LEMMA SearchCalls == SearchText => ACall
<1>1. ASSUME NEW t \in Words, Call("split", <<String(t)>>, split(x, String(t)))
      PROVE  ACall
  <2>1. \A r \in split(x, String(t)) : Returns("split", <<String(t)>>, x, r)
    BY DEF Returns
  <2>2. Accounted("split", <<String(t)>>, split(x, String(t)))
    BY <2>1, TextOutcomes DEF Accounted
  <2> QED  BY <1>1, <2>2 DEF ACall
<1>2. ASSUME NEW t \in Words, Call("contains", <<String(t)>>, contains(x, String(t)))
      PROVE  ACall
  BY <1>2, TextOutcomes, NotFollowed DEF ACall, Followed
<1>3. ASSUME NEW t \in Words, Call("starts_with", <<String(t)>>, starts_with(x, String(t)))
      PROVE  ACall
  BY <1>3, TextOutcomes, NotFollowed DEF ACall, Followed
<1>4. ASSUME NEW t \in Words, Call("ends_with", <<String(t)>>, ends_with(x, String(t)))
      PROVE  ACall
  BY <1>4, TextOutcomes, NotFollowed DEF ACall, Followed
<1> QED  BY <1>1, <1>2, <1>3, <1>4 DEF SearchText

LEMMA EditCalls == EditText => ACall
<1>1. Call("trim", <<>>, trim(x)) => ACall
  <2>1. Accounted("trim", <<>>, trim(x))
    BY TextOutcomes DEF Accounted, Returns
  <2> QED  BY <2>1 DEF ACall
<1>2. ASSUME NEW s \in Words, NEW t \in Words, Call("replace", <<String(s), String(t)>>,
                  replace(x, String(s), String(t)))
      PROVE  ACall
  BY <1>2, ReplaceOutcomes, NotFollowed DEF ACall, Followed
<1>3. ASSUME NEW s \in Words, NEW t \in Words, Call("replace_all", <<String(s), String(t)>>,
                  replace_all(x, String(s), String(t)))
      PROVE  ACall
  <2>1. \A r \in replace_all(x, String(s), String(t)) : Returns("replace_all", <<String(s), String(t)>>, x, r)
    BY DEF Returns
  <2>2. Accounted("replace_all", <<String(s), String(t)>>, replace_all(x, String(s), String(t)))
    BY <2>1, TextOutcomes DEF Accounted
  <2> QED  BY <1>3, <2>2 DEF ACall
<1> QED  BY <1>1, <1>2, <1>3 DEF EditText

LEMMA StretchCalls == StretchText => ACall
<1>1. ASSUME NEW o \in Operands, Call("repeat", <<o>>, repeat(x, o))
      PROVE  ACall
  <2>1. Accounted("repeat", <<o>>, repeat(x, o))
    BY RepeatPanics DEF Accounted, Returns, Explains
  <2> QED  BY <1>1, <2>1 DEF ACall
<1>2. ASSUME NEW o \in Operands, NEW t \in Words,
             Call("pad_left", <<o, String(t)>>, pad_left(x, o, String(t)))
      PROVE  ACall
  <2>1. \A r \in pad_left(x, o, String(t)) : Returns("pad_left", <<o, String(t)>>, x, r)
    BY DEF Returns
  <2>2. Panic \in pad_left(x, o, String(t)) =>
           Explains("pad_left", <<o, String(t)>>, x)
    BY PadPanics DEF Explains, Pads, String
  <2>3. Accounted("pad_left", <<o, String(t)>>, pad_left(x, o, String(t)))
    BY <2>1, <2>2 DEF Accounted
  <2> QED  BY <1>2, <2>3 DEF ACall
<1>3. ASSUME NEW o \in Operands, NEW t \in Words,
             Call("pad_right", <<o, String(t)>>, pad_right(x, o, String(t)))
      PROVE  ACall
  <2>1. \A r \in pad_right(x, o, String(t)) : Returns("pad_right", <<o, String(t)>>, x, r)
    BY DEF Returns
  <2>2. Panic \in pad_right(x, o, String(t)) =>
           Explains("pad_right", <<o, String(t)>>, x)
    BY PadPanics DEF Explains, Pads, String
  <2>3. Accounted("pad_right", <<o, String(t)>>, pad_right(x, o, String(t)))
    BY <2>1, <2>2 DEF Accounted
  <2> QED  BY <1>3, <2>3 DEF ACall
<1> QED  BY <1>1, <1>2, <1>3 DEF StretchText

LEMMA JoinCalls == Join => ACall
<1> SUFFICES ASSUME NEW t \in Words, Call("join", <<String(t)>>, join(x, String(t)))
             PROVE  ACall
  BY DEF Join
<1>1. \A r \in join(x, String(t)) : Returns("join", <<String(t)>>, x, r)
  BY DEF Returns
<1>2. Accounted("join", <<String(t)>>, join(x, String(t)))
  BY <1>1, RecursionPanics, Recurses DEF Recursive
<1> QED  BY <1>2 DEF ACall

LEMMA EncodeCalls == Encode => ACall
<1>1. ASSUME NEW name \in {"hex", "base64"},
             Call("encode", <<String(<<name>>)>>, encode(x, name))
      PROVE  ACall
  <2>1. \A r \in encode(x, name) : Returns("encode", <<String(<<name>>)>>, x, r)
    BY DEF Returns
  <2>2. Accounted("encode", <<String(<<name>>)>>, encode(x, name))
    BY <2>1, TextOutcomes DEF Accounted
  <2> QED  BY <1>1, <2>2 DEF ACall
<1>2. ASSUME NEW name \in {"hex", "base64"},
             Call("decode", <<String(<<name>>)>>, decode(x, name))
      PROVE  ACall
  <2>1. \A r \in decode(x, name) : Returns("decode", <<String(<<name>>)>>, x, r)
    BY DEF Returns
  <2>2. Accounted("decode", <<String(<<name>>)>>, decode(x, name))
    BY <2>1, TextOutcomes DEF Accounted
  <2> QED  BY <1>2, <2>2 DEF ACall
<1> QED  BY <1>1, <1>2 DEF Encode

LEMMA TestCalls == TestType => ACall
  BY TextOutcomes, NotFollowed DEF TestType, ACall, Followed

LEMMA NotifyCalls == Notify => ACall
<1> DEFINE told == IF Is(x, "string") THEN {Undefined} ELSE {Error}
           results == IF Overflows(x) /\ IsMap(x) THEN {Panic} ELSE {Undefined}
<1>1. Panic \notin told /\ (Panic \in results => Overflows(x))
  BY Outcomes
<1>2. Call("notify", <<>>, results) => ACall
  <2> HIDE DEF results
  <2>1. Accounted("notify", <<>>, results)
    BY <1>1, Recurses DEF Recursive, Returns
  <2> QED  BY <2>1 DEF ACall
<1>3. Call("notify topic", <<>>, told) => ACall
  <2> HIDE DEF told
  <2> QED  BY <1>1, NotFollowed DEF ACall, Followed
<1> QED  BY <1>2, <1>3 DEF Notify

LEMMA EveryStep == Next /\ Shallow(x) => ACall
  BY SummarizeCalls, RearrangeCalls, SliceCalls, ContainsCalls, TakeApartCalls,
     SelectCalls, MergeCalls, CalculateCalls, CompareCalls, RandCalls, JsonCalls,
     SearchCalls, EditCalls, StretchCalls, JoinCalls, EncodeCalls, TestCalls,
     NotifyCalls DEF Next, Compute

\* Whatever values a script begins with and however it goes on.
THEOREM ScriptInvariance == Spec => []ScriptInv
<1>1. Init => ScriptInv
  BY ValuesAssumption DEF IsValue, Init, ScriptInv, TrailOK, Range
<1>2. ScriptInv /\ [Next]_vars => ScriptInv'
  <2>1. ScriptInv /\ Next => ScriptInv'
    BY EveryStep, CallKeepsInv DEF ACall, ScriptInv
  <2>2. ScriptInv /\ UNCHANGED vars => ScriptInv'
    BY DEF ScriptInv, TrailOK, vars, Range, Last
  <2> QED  BY <2>1, <2>2
<1> QED  BY <1>1, <1>2, PTL DEF Spec

\* These calls alone bring a script's server down, and each only as array.go,
\* math.go, string.go and the recursion into objects let it, for any values,
\* those with themselves in them included, and whatever memory there is.
THEOREM PanicsHaveCauses == Spec => []PanicsExplained
<1>1. ScriptInv => PanicsExplained
  BY DEF ScriptInv, PanicsExplained, Explains, Called, Arg, Was, Pads
<1> QED  BY <1>1, ScriptInvariance, PTL

-----------------------------------------------------------------------------
(* Numbers.                                                                *)

\* A number that is an integer, or a float, of h halves.
Whole(v, h) == Is(v, "int") /\ h = 2 * v.int /\ v = Int64(v.int) /\ v.int \in IntMin..IntMax
Broken(v, h) == ~Is(v, "int") /\ h = v.float /\ v = Float(h)

\* In reach integers are floats, too.
LEMMA InReachIsExact ==
    ASSUME NEW v, IsNumber(v), InReach(v)
    PROVE  /\ Exact(v) \in Int /\ Magnitude(Exact(v)) <= 2^FloatBits
           /\ toFloat64(v) = Float(Exact(v))
           /\ Whole(v, Exact(v)) \/ Broken(v, Exact(v))
<1>1. Magnitude(Exact(v)) <= 2^FloatBits
  BY DEF InReach
<1>2. CASE Is(v, "int")
  <2>1. v \in Ints
    BY <1>2 DEF IsNumber, IsFloat, Is, NaN, Inf
  <2>2. v.int \in IntMin..IntMax /\ v = Int64(v.int)
    BY <2>1 DEF Ints, Int64
  <2>3. Exact(v) = 2 * v.int /\ Exact(v) \in Int
    BY <1>2, <2>2, Bits DEF Exact
  <2>4. toFloat64(v) = Float(Nearest(2 * v.int))
    BY <1>2 DEF toFloat64
  <2> QED  BY <1>1, <1>2, <2>2, <2>3, <2>4, NearestExact DEF Whole
<1>3. CASE ~Is(v, "int")
  <2>1. Is(v, "float") /\ v \in [float : Int]
    <3>1. Is(v, "float")
      BY <1>3 DEF InReach, Finite
    <3>2. v \notin Ints /\ v \notin {NaN, Inf(1), Inf(-1)}
      BY <3>1 DEF Ints, NaN, Inf, Is
    <3> QED  BY <3>1, <3>2 DEF IsNumber, IsFloat
  <2>2. v.float \in Int /\ v = Float(v.float)
    BY <2>1 DEF Float
  <2> QED  BY <1>1, <1>3, <2>2 DEF Exact, toFloat64, Broken
<1> QED  BY <1>2, <1>3

\* An even number of halves is an integer again.
LEMMA WholeAgain ==
    ASSUME NEW i \in Int, 2 * Magnitude(i) <= 2^FloatBits + 1
    PROVE  ToInt64(Float(2 * i)) = {i}
<1> DEFINE h == 2 * i
<1>1. i \in IntMin..IntMax
  BY Bits DEF Magnitude
<1>2. Magnitude(h) \div 2 = Magnitude(i) /\ (h < 0 <=> i < 0)
  BY DEF Magnitude
<1>3. i = IF i < 0 THEN -Magnitude(i) ELSE Magnitude(i)
  BY DEF Magnitude
<1>4. ~Is(Float(h), "nan") /\ ~Is(Float(h), "inf") /\ Float(h).float = h
  BY DEF Is, Float
<1> HIDE DEF h
<1> QED  BY <1>1, <1>2, <1>3, <1>4 DEF ToInt64, h

\* A conversion to float and back, of a number in reach.
LEMMA ResultIsExact ==
    ASSUME NEW h \in Int, Magnitude(h) <= 2^FloatBits, NEW v
    PROVE  /\ Is(v, "int") => \A r \in numericResult(Float(h), v) : DOMAIN r = {"int"}
           /\ Is(v, "int") /\ h % 2 # 1 =>
                 /\ 2 * (h \div 2) = h
                 /\ numericResult(Float(h), v) = {Int64(h \div 2)}
           /\ ~Is(v, "int") => numericResult(Float(h), v) = {Float(h)}
<1>1. Is(v, "int") => \A r \in numericResult(Float(h), v) : DOMAIN r = {"int"}
  BY DEF numericResult, Int64
<1>2. ASSUME Is(v, "int"), h % 2 # 1
      PROVE  2 * (h \div 2) = h /\ numericResult(Float(h), v) = {Int64(h \div 2)}
  <2>1. h % 2 \in {0, 1} /\ h = 2 * (h \div 2) + (h % 2)
    OBVIOUS
  <2>2. 2 * (h \div 2) = h /\ h \div 2 \in Int /\ 2 * Magnitude(h \div 2) <= 2^FloatBits + 1
    BY <1>2, <2>1, Bits DEF Magnitude
  <2>3. ToInt64(Float(h)) = {h \div 2}
    BY <2>2, WholeAgain
  <2> QED  BY <1>2, <2>2, <2>3 DEF numericResult
<1>3. ~Is(v, "int") => numericResult(Float(h), v) = {Float(h)}
  BY DEF numericResult
<1> QED  BY <1>1, <1>2, <1>3

\* A number in reach that is made a float and back is kept.
LEMMA NumberKept ==
    ASSUME NEW v, IsNumber(v), InReach(v)  PROVE  numericResult(toFloat64(v), v) = {v}
<1> DEFINE h == Exact(v)
<1>1. /\ h \in Int /\ Magnitude(h) <= 2^FloatBits /\ toFloat64(v) = Float(h)
      /\ Whole(v, h) \/ Broken(v, h)
  BY InReachIsExact
<1> HIDE DEF h
<1>2. CASE Whole(v, h)
  <2>1. h = 2 * v.int /\ v.int \in Int /\ v = Int64(v.int) /\ Is(v, "int")
    BY <1>2, Bits DEF Whole
  <2>2. h % 2 # 1 /\ h \div 2 = v.int
    BY <2>1
  <2> QED  BY <1>1, <2>1, <2>2, ResultIsExact
<1>3. CASE Broken(v, h)
  BY <1>1, <1>3, ResultIsExact DEF Broken
<1> QED  BY <1>1, <1>2, <1>3

LEMMA AbsMeetsDoc ==
    ASSUME NEW v, IsNumber(v), InReach(v), NEW r \in abs(v)
    PROVE  /\ DOMAIN r = DOMAIN v
           /\ Exact(r) \in {Exact(v), -Exact(v)}
           /\ Exact(r) >= 0
<1> DEFINE h == Exact(v)
           m == Magnitude(h)
<1>1. /\ h \in Int /\ m <= 2^FloatBits /\ toFloat64(v) = Float(h)
      /\ Whole(v, h) \/ Broken(v, h)
  BY InReachIsExact
<1> HIDE DEF h
<1>2. m \in Nat /\ m \in {h, -h} /\ Magnitude(m) = m
  BY <1>1 DEF Magnitude
<1>3. r \in numericResult(Float(m), v)
  <2>1. Abs(Float(h)) = Float(m)
    BY DEF Abs, Float, Is
  <2> QED  BY <1>1, <2>1 DEF abs
<1>4. CASE Whole(v, h)
  <2>1. h = 2 * v.int /\ v.int \in Int /\ Is(v, "int")
    BY <1>4, Bits DEF Whole
  <2>2. m % 2 # 1
    BY <1>2, <2>1
  <2>3. r = Int64(m \div 2) /\ 2 * (m \div 2) = m
    BY <1>1, <1>2, <1>3, <2>1, <2>2, ResultIsExact
  <2>4. Exact(r) = m
    BY <2>3 DEF Exact, Int64, Is
  <2>5. DOMAIN r = DOMAIN v
    BY <2>1, <2>3 DEF Int64, Is
  <2> QED  BY <1>2, <2>4, <2>5 DEF h
<1>5. CASE Broken(v, h)
  <2>1. r = Float(m)
    BY <1>1, <1>2, <1>3, <1>5, ResultIsExact DEF Broken
  <2>2. Exact(r) = m
    BY <2>1 DEF Exact, Float, Is
  <2>3. DOMAIN r = DOMAIN v
    BY <1>5, <2>1 DEF Broken, Float
  <2> QED  BY <1>2, <2>2, <2>3 DEF h
<1> QED  BY <1>1, <1>4, <1>5

\* Floats in reach compare like the numbers they are.
LEMMA FloatsCompare ==
    ASSUME NEW h \in Int, NEW i \in Int
    PROVE  /\ LessEq(Float(h), Float(i)) <=> h <= i
           /\ Less(Float(h), Float(i)) <=> h < i
  BY DEF Less, LessEq, Place, Float, Is

LEMMA ExtremesMeetDocs ==
    ASSUME NEW v, NEW w, IsNumber(v), InReach(v), IsNumber(w), InReach(w)
    PROVE  /\ \A r \in min(v, w) : /\ r \in {v, w}
                                   /\ Exact(r) <= Exact(v) /\ Exact(r) <= Exact(w)
           /\ \A r \in max(v, w) : /\ r \in {v, w}
                                   /\ Exact(r) >= Exact(v) /\ Exact(r) >= Exact(w)
<1>1. /\ Exact(v) \in Int /\ toFloat64(v) = Float(Exact(v))
      /\ Exact(w) \in Int /\ toFloat64(w) = Float(Exact(w))
  BY InReachIsExact
<1>2. numericResult(toFloat64(v), v) = {v} /\ numericResult(toFloat64(w), w) = {w}
  BY NumberKept
<1>3. min(v, w) = IF Exact(v) <= Exact(w) THEN {v} ELSE {w}
  BY <1>1, <1>2, FloatsCompare DEF min, Choose2
<1>4. max(v, w) = IF Exact(w) <= Exact(v) THEN {v} ELSE {w}
  BY <1>1, <1>2, FloatsCompare DEF max, Choose2
<1> QED  BY <1>1, <1>3, <1>4

\* A bound in reach that takes the place of a number: it keeps its value,
\* unless it is fractional and the number an integer, and the number's type.
LEMMA BoundReturned ==
    ASSUME NEW v, IsNumber(v), InReach(v), NEW b, IsNumber(b), InReach(b),
           NEW r \in numericResult(toFloat64(b), v)
    PROVE  /\ DOMAIN r = DOMAIN v
           /\ Exact(r) = Exact(b) \/ (Is(v, "int") /\ Fractional(b))
<1> DEFINE h == Exact(b)
<1>1. h \in Int /\ Magnitude(h) <= 2^FloatBits /\ toFloat64(b) = Float(h)
  BY InReachIsExact
<1>2. Is(v, "int") \/ Broken(v, Exact(v))
  BY InReachIsExact DEF Whole
<1>3. Fractional(b) <=> h % 2 = 1
  BY DEF Fractional
<1> HIDE DEF h
<1>4. CASE Is(v, "int")
  <2>1. DOMAIN r = DOMAIN v
    BY <1>1, <1>4, ResultIsExact DEF Is
  <2>2. ASSUME h % 2 # 1  PROVE Exact(r) = h
    <3>1. r = Int64(h \div 2) /\ 2 * (h \div 2) = h
      BY <1>1, <1>4, <2>2, ResultIsExact
    <3> QED  BY <3>1 DEF Exact, Int64, Is
  <2> QED  BY <1>3, <1>4, <2>1, <2>2 DEF h
<1>5. CASE Broken(v, Exact(v))
  <2>1. r = Float(h)
    BY <1>1, <1>5, ResultIsExact DEF Broken
  <2>2. Exact(r) = h /\ DOMAIN r = DOMAIN v
    BY <1>5, <2>1 DEF Exact, Float, Is, Broken
  <2> QED  BY <2>2 DEF h
<1> QED  BY <1>2, <1>4, <1>5

LEMMA ClampMeetsDoc ==
    ASSUME NEW v, NEW lo, NEW hi, IsNumber(v), InReach(v), IsNumber(lo), InReach(lo),
           IsNumber(hi), InReach(hi), NEW r \in clamp(v, lo, hi)
    PROVE  /\ DOMAIN r = DOMAIN v
           /\ Exact(lo) <= Exact(hi) =>
                 \/ Exact(lo) <= Exact(r) /\ Exact(r) <= Exact(hi)
                 \/ Is(v, "int") /\ (Fractional(lo) \/ Fractional(hi))
<1>1. /\ Exact(v) \in Int /\ toFloat64(v) = Float(Exact(v))
      /\ Exact(lo) \in Int /\ toFloat64(lo) = Float(Exact(lo))
      /\ Exact(hi) \in Int /\ toFloat64(hi) = Float(Exact(hi))
  BY InReachIsExact
<1>2. \/ Exact(v) < Exact(lo) /\ r \in numericResult(toFloat64(lo), v)
      \/ Exact(hi) < Exact(v) /\ r \in numericResult(toFloat64(hi), v)
      \/ Exact(lo) <= Exact(v) /\ Exact(v) <= Exact(hi) /\ r = v
  <2> DEFINE below == Less(toFloat64(v), toFloat64(lo))
             above == Less(toFloat64(hi), toFloat64(v))
  <2>1. /\ below <=> Exact(v) < Exact(lo)
        /\ above <=> Exact(hi) < Exact(v)
    BY <1>1, FloatsCompare
  <2>2. \/ below /\ r \in numericResult(toFloat64(lo), v)
        \/ above /\ r \in numericResult(toFloat64(hi), v)
        \/ ~below /\ ~above /\ r \in numericResult(toFloat64(v), v)
    BY DEF clamp
  <2> HIDE DEF below, above
  <2> QED  BY <1>1, <2>1, <2>2, NumberKept
<1>3. ASSUME r \in numericResult(toFloat64(lo), v)
      PROVE  /\ DOMAIN r = DOMAIN v
             /\ Exact(r) = Exact(lo) \/ (Is(v, "int") /\ Fractional(lo))
  BY <1>3, BoundReturned
<1>4. ASSUME r \in numericResult(toFloat64(hi), v)
      PROVE  /\ DOMAIN r = DOMAIN v
             /\ Exact(r) = Exact(hi) \/ (Is(v, "int") /\ Fractional(hi))
  BY <1>4, BoundReturned
<1> QED  BY <1>1, <1>2, <1>3, <1>4

LEMMA IntegralReturned ==
    ASSUME NEW h \in Int, Magnitude(h) <= 2^FloatBits, NEW i \in Int,
           2 * i - h \in -1..1
    PROVE  ToInt64(Float(2 * i)) = {i} /\ Exact(Int64(i)) = 2 * i
<1>1. 2 * Magnitude(i) <= 2^FloatBits + 1
  BY Bits DEF Magnitude
<1> QED  BY <1>1, WholeAgain DEF Exact, Int64, Is

LEMMA RoundingMeetsDocs ==
    ASSUME NEW v, IsNumber(v), InReach(v)
    PROVE  /\ \A r \in round(v) : Magnitude(Exact(r) - Exact(v)) <= 1
           /\ \A r \in floor(v) : Exact(v) - Exact(r) \in {0, 1}
           /\ \A r \in ceil(v) : Exact(r) - Exact(v) \in {0, 1}
<1> DEFINE h == Exact(v)
           i == FloorOf(h)
           j == CeilOf(h)
           k == IF h < 0 THEN FloorOf(h) ELSE CeilOf(h)
<1>1. h \in Int /\ Magnitude(h) <= 2^FloatBits /\ toFloat64(v) = Float(h)
  BY InReachIsExact
<1> HIDE DEF h
<1>2. i \in Int /\ h - 2 * i \in {0, 1} /\ j \in Int /\ 2 * j - h \in {0, 1}
  BY <1>1 DEF FloorOf, CeilOf
<1>3. k \in Int /\ 2 * k - h \in -1..1 /\ 2 * i - h \in -1..1 /\ 2 * j - h \in -1..1
  BY <1>1, <1>2
<1>4. Is(Float(h), "float") /\ Float(h).float = h
  BY DEF Is, Float
<1>5. /\ round(v) = {Int64(n) : n \in ToInt64(Float(2 * k))}
      /\ floor(v) = {Int64(n) : n \in ToInt64(Float(2 * i))}
      /\ ceil(v) = {Int64(n) : n \in ToInt64(Float(2 * j))}
  BY <1>1, <1>4 DEF round, floor, ceil, Integral
<1> HIDE DEF i, j, k
<1>6. /\ ToInt64(Float(2 * k)) = {k} /\ Exact(Int64(k)) = 2 * k
      /\ ToInt64(Float(2 * i)) = {i} /\ Exact(Int64(i)) = 2 * i
      /\ ToInt64(Float(2 * j)) = {j} /\ Exact(Int64(j)) = 2 * j
  BY <1>1, <1>2, <1>3, IntegralReturned
<1>7. \A r \in round(v) : Exact(r) = 2 * k
  BY <1>5, <1>6
<1>8. \A r \in floor(v) : Exact(r) = 2 * i
  BY <1>5, <1>6
<1>9. \A r \in ceil(v) : Exact(r) = 2 * j
  BY <1>5, <1>6
<1>10. Magnitude(2 * k - h) <= 1
  BY <1>1, <1>3 DEF Magnitude
<1> QED  BY <1>1, <1>2, <1>3, <1>7, <1>8, <1>9, <1>10 DEF h

\* Numbers that floats tell apart come out of abs, min, max, clamp, round,
\* floor and ceil as math.go documents them.
THEOREM NumbersAsDocumented == Spec => []NumbersMeetDocs
<1>1. ScriptInv => NumbersMeetDocs
  <2> SUFFICES ASSUME ScriptInv  PROVE NumbersMeetDocs
    OBVIOUS
  <2> DEFINE c == Last(trail)
             fn == c.fn
             args == c.args
             v == c.was
  <2> SUFFICES ASSUME status = "running", trail # <<>>, IsNumber(v),
                      \A o \in {v} \cup ToSet(args) : IsNumber(o) /\ InReach(o)
               PROVE  /\ fn = "abs" => /\ DOMAIN x = DOMAIN v
                                       /\ Exact(x) \in {Exact(v), -Exact(v)}
                                       /\ Exact(x) >= 0
                      /\ fn = "min" => /\ x \in {v, args[1]}
                                       /\ Exact(x) <= Exact(v)
                                       /\ Exact(x) <= Exact(args[1])
                      /\ fn = "max" => /\ x \in {v, args[1]}
                                       /\ Exact(x) >= Exact(v)
                                       /\ Exact(x) >= Exact(args[1])
                      /\ fn = "clamp" =>
                            /\ DOMAIN x = DOMAIN v
                            /\ Exact(args[1]) <= Exact(args[2]) =>
                                  \/ /\ Exact(args[1]) <= Exact(x)
                                     /\ Exact(x) <= Exact(args[2])
                                  \/ /\ Is(v, "int")
                                     /\ Fractional(args[1]) \/ Fractional(args[2])
                      /\ fn = "round" => Magnitude(Exact(x) - Exact(v)) <= 1
                      /\ fn = "floor" => Exact(v) - Exact(x) \in {0, 1}
                      /\ fn = "ceil" => Exact(x) - Exact(v) \in {0, 1}
    BY DEF NumbersMeetDocs, Called, Was, Arg
  <2>1. Returns(fn, args, v, x)
    BY DEF ScriptInv
  <2>2. InReach(v) /\ \A o \in ToSet(args) : IsNumber(o) /\ InReach(o)
    OBVIOUS
  <2> HIDE DEF c, fn, args, v
  <2>3. CASE fn = "abs"
    BY <2>1, <2>2, <2>3, AbsMeetsDoc DEF Returns
  <2>4. CASE fn = "min"
    <3>1. PICK w : args = <<w>> /\ x \in min(v, w)
      BY <2>1, <2>4 DEF Returns
    <3>2. w \in ToSet(args) /\ args[1] = w
      BY <3>1 DEF ToSet
    <3> QED  BY <2>2, <2>4, <3>1, <3>2, ExtremesMeetDocs
  <2>5. CASE fn = "max"
    <3>1. PICK w : args = <<w>> /\ x \in max(v, w)
      BY <2>1, <2>5 DEF Returns
    <3>2. w \in ToSet(args) /\ args[1] = w
      BY <3>1 DEF ToSet
    <3> QED  BY <2>2, <2>5, <3>1, <3>2, ExtremesMeetDocs
  <2>6. CASE fn = "clamp"
    <3>1. PICK lo, hi : args = <<lo, hi>> /\ x \in clamp(v, lo, hi)
      BY <2>1, <2>6 DEF Returns
    <3>2. lo \in ToSet(args) /\ args[1] = lo /\ hi \in ToSet(args) /\ args[2] = hi
      BY <3>1 DEF ToSet
    <3> QED  BY <2>2, <2>6, <3>1, <3>2, ClampMeetsDoc
  <2>7. CASE fn \in {"round", "floor", "ceil"}
    BY <2>1, <2>2, <2>7, RoundingMeetsDocs DEF Returns
  <2> QED  BY <2>3, <2>4, <2>5, <2>6, <2>7
<1> QED  BY <1>1, ScriptInvariance, PTL

-----------------------------------------------------------------------------
(* Arrays.                                                                 *)

\* A sequence of all the elements of a finite set is a bijection.
LEMMA SequenceOfAll ==
    ASSUME NEW S, IsFiniteSet(S), NEW q \in SetToSeqs(S)
    PROVE  /\ q \in [1..Cardinality(S) -> S] /\ Cardinality(S) \in Nat
           /\ \A i, j \in 1..Cardinality(S) : q[i] = q[j] => i = j
           /\ \A o \in S : \E i \in 1..Cardinality(S) : q[i] = o
<1> DEFINE D == 1..Cardinality(S)
<1>1. Cardinality(S) \in Nat
  BY FS_CardinalityType
<1>2. q \in [D -> S] /\ \A i, j \in D : q[i] = q[j] => i = j
  BY DEF SetToSeqs
<1>3. Cardinality(D) = Cardinality(S)
  BY <1>1, FS_Interval
<1> HIDE DEF D
<1>4. q \in Injection(D, S)
  BY <1>2 DEF Injection, IsInjective
<1>5. q \in Surjection(D, S)
  BY <1>3, <1>4, FS_Injection
<1>6. \A o \in S : \E i \in D : q[i] = o
  BY <1>5 DEF Surjection
<1> QED  BY <1>1, <1>2, <1>6 DEF D

LEMMA MinOfInterval ==
    ASSUME NEW i \in Int, NEW j \in Int, i <= j  PROVE  Min(i..j) = i
  BY DEF Min

\* r is the part of v after its first start and up to its first end elements.
SliceOf(r, v, start, end) ==
    LET within == {i \in DOMAIN v.array : start < i /\ i <= end}
    IN  r.array = [n \in 1..Cardinality(within) |-> v.array[Min(within) + n - 1]]

LEMMA SliceOfArray ==
    ASSUME NEW v, NEW start \in Int, NEW end \in Int,
           NEW r \in slice_array(v, start, end), r \notin {Error, Panic}
    PROVE  SliceOf(r, v, start, end)
<1> DEFINE a == v.array
           e == IF end > Len(a) THEN Len(a) ELSE end
           s == IF start < 0 THEN 0 ELSE start
           from == IF s > e THEN e ELSE s
           within == {i \in DOMAIN a : start < i /\ i <= end}
<1>1. IsArray(v)
  BY DEF slice_array
<1>2. a \in Seq(Parts(v)) /\ Len(a) \in Nat /\ DOMAIN a = 1..Len(a)
  BY <1>1 DEF IsArray
<1>3. ~(from < 0) /\ r = Array(SubSeq(a, from + 1, e))
  BY <1>1 DEF slice_array
<1>4. from \in Nat /\ e \in Nat /\ from <= e /\ e <= Len(a)
  BY <1>2, <1>3
<1>5. within = (from + 1)..e
  <2>1. \A i \in 1..Len(a) : start < i /\ i <= end <=> from + 1 <= i /\ i <= e
    BY <1>2
  <2>2. from + 1 >= 1 /\ e <= Len(a) /\ e \in Int
    BY <1>4
  <2> HIDE DEF from, e, s, a
  <2> QED  BY <1>2, <1>4, <2>1, <2>2
<1> HIDE DEF e, s, from, within
<1>6. IsFiniteSet(within) /\ Cardinality(within) = e - from
  <2>1. from + 1 \in Int /\ e \in Int
    BY <1>4
  <2>2. /\ IsFiniteSet((from + 1)..e)
        /\ Cardinality((from + 1)..e) = IF from + 1 > e THEN 0 ELSE e - (from + 1) + 1
    BY <2>1, FS_Interval
  <2>3. (IF from + 1 > e THEN 0 ELSE e - (from + 1) + 1) = e - from
    BY <1>4
  <2> QED  BY <1>5, <2>2, <2>3
<1>7. \A n \in 1..(e - from) : Min(within) = from + 1
  BY <1>4, <1>5, MinOfInterval
<1>8. /\ SubSeq(a, from + 1, e) \in Seq(Parts(v))
      /\ Len(SubSeq(a, from + 1, e)) = e - from
      /\ \A n \in 1..(e - from) : SubSeq(a, from + 1, e)[n] = a[from + 1 + n - 1]
  <2>1. \A i \in (from + 1)..e : a[i] \in Parts(v)
    BY <1>2, <1>4
  <2>2. from + 1 \in Int /\ e \in Int /\ (from + 1 <= e => e - (from + 1) + 1 = e - from)
        /\ (~(from + 1 <= e) => e - from = 0) /\ e - (from + 1) + 1 = e - from
    BY <1>4
  <2> QED  BY <2>1, <2>2, SubSeqProperties
<1>9. r.array = SubSeq(a, from + 1, e)
  BY <1>3 DEF Array
<1>10. r.array = [n \in 1..(e - from) |-> a[Min(within) + n - 1]]
  <2>1. r.array = [n \in 1..(e - from) |-> r.array[n]]
    BY <1>4, <1>8, <1>9
  <2> QED  BY <1>4, <1>7, <1>8, <1>9, <2>1
<1> QED  BY <1>6, <1>10 DEF within, SliceOf

\* sort_array rearranges.
LEMMA SortedIsRearranged ==
    ASSUME NEW v, NEW r \in sort_array(v), r \notin {Error, Panic}
    PROVE  \E p \in SetToSeqs(DOMAIN v.array) :
              /\ IsArray(v) /\ r = Array(At(v.array, p))
              /\ Numeric(v.array) /\ NaN \notin Parts(v) =>
                    \A i, j \in DOMAIN r.array :
                       i < j => ~Less(toFloat64(r.array[j]), toFloat64(r.array[i]))
<1>1. IsArray(v) /\ r \in SortBy(v, Numeric(v.array))
  BY DEF sort_array
<1>2. PICK c : /\ r = Array(c) /\ c \in {At(v.array, p) : p \in SetToSeqs(DOMAIN v.array)}
               /\ Numeric(v.array) /\ NaN \notin Parts(v) =>
                    \A i, j \in DOMAIN c :
                       i < j => ~Less(toFloat64(c[j]), toFloat64(c[i]))
  BY <1>1 DEF SortBy
<1>3. r.array = c
  BY <1>2 DEF Array
<1> QED  BY <1>1, <1>2, <1>3

LEMMA PartsOfArray ==
    \A v : Is(v, "array") => Parts(v) = {v.array[i] : i \in DOMAIN v.array}
<1> SUFFICES ASSUME NEW v, Is(v, "array")
             PROVE  Parts(v) = {v.array[i] : i \in DOMAIN v.array}
  OBVIOUS
<1>1. ~Is(v, "map")
  BY DEF Is
<1> QED  BY <1>1 DEF Parts

LEMMA IndicesOfArray ==
    ASSUME NEW v, IsArray(v)
    PROVE  /\ DOMAIN v.array = 1..Len(v.array) /\ Len(v.array) \in Nat
           /\ IsFiniteSet(DOMAIN v.array) /\ Cardinality(DOMAIN v.array) = Len(v.array)
           /\ Parts(v) = {v.array[i] : i \in DOMAIN v.array}
<1>1. v.array \in Seq(Parts(v))
  BY DEF IsArray
<1>2. DOMAIN v.array = 1..Len(v.array) /\ Len(v.array) \in Nat
  BY <1>1
<1>3. IsFiniteSet(1..Len(v.array)) /\ Cardinality(1..Len(v.array)) = Len(v.array)
  BY <1>2, FS_Interval
<1>4. Parts(v) = {v.array[i] : i \in DOMAIN v.array}
  BY PartsOfArray DEF IsArray
<1> QED  BY <1>2, <1>3, <1>4

\* r has every element as often as v.
Rearranged(r, v) ==
    /\ DOMAIN r.array = DOMAIN v.array
    /\ Parts(r) = Parts(v)
    /\ \A o : Cardinality({i \in DOMAIN r.array : r.array[i] = o})
                = Cardinality({i \in DOMAIN v.array : v.array[i] = o})

LEMMA RearrangedKeeps ==
    ASSUME NEW v, IsArray(v), NEW p \in SetToSeqs(DOMAIN v.array), NEW r,
           r = Array(At(v.array, p))
    PROVE  Rearranged(r, v)
<1> DEFINE D == DOMAIN v.array
<1>1. /\ D = 1..Len(v.array) /\ IsFiniteSet(D) /\ Cardinality(D) = Len(v.array)
      /\ Parts(v) = {v.array[i] : i \in D}
  BY IndicesOfArray
<1> HIDE DEF D
<1>2. /\ p \in [D -> D] /\ \A i, j \in D : p[i] = p[j] => i = j
      /\ \A o \in D : \E i \in D : p[i] = o
  <2>1. p \in SetToSeqs(D) /\ D = 1..Cardinality(D) /\ IsFiniteSet(D)
    BY <1>1 DEF D
  <2>2. /\ p \in [1..Cardinality(D) -> D]
        /\ \A i, j \in 1..Cardinality(D) : p[i] = p[j] => i = j
        /\ \A o \in D : \E i \in 1..Cardinality(D) : p[i] = o
    BY <2>1, SequenceOfAll, Zenon
  <2> QED  BY <2>1, <2>2, Zenon
<1>3. r.array = [i \in D |-> v.array[p[i]]] /\ Is(r, "array")
  BY <1>2 DEF Array, At, Is
<1>4. Parts(r) = {r.array[i] : i \in D} /\ DOMAIN r.array = D
  BY <1>3, PartsOfArray
<1>5. Parts(r) = Parts(v)
  <2>1. \A i \in D : r.array[i] \in {v.array[j] : j \in D}
    BY <1>2, <1>3
  <2>2. \A j \in D : v.array[j] \in {r.array[i] : i \in D}
    BY <1>2, <1>3
  <2>3. {r.array[i] : i \in D} = {v.array[j] : j \in D}
    BY <2>1, <2>2, Zenon
  <2> QED  BY <1>1, <1>4, <2>3
<1>6. ASSUME NEW o
      PROVE  Cardinality({i \in D : r.array[i] = o})
               = Cardinality({i \in D : v.array[i] = o})
  <2> DEFINE S == {i \in D : r.array[i] = o}
             T == {i \in D : v.array[i] = o}
             f == [i \in S |-> p[i]]
  <2>1. f \in [S -> T] /\ \A i \in S : f[i] = p[i]
    BY <1>2, <1>3
  <2>2. \A i, j \in S : f[i] = f[j] => i = j
    BY <1>2, <2>1
  <2>3. \A t \in T : \E i \in S : f[i] = t
    BY <1>2, <1>3, <2>1
  <2>4. IsFiniteSet(S)
    BY <1>1, FS_Subset
  <2> HIDE DEF S, T, f
  <2>5. f \in Bijection(S, T)
    BY <2>1, <2>2, <2>3, Fun_IsBij
  <2>6. Cardinality(T) = Cardinality(S)
    BY <2>4, <2>5, FS_Bijection DEF ExistsBijection
  <2> QED  BY <2>6 DEF S, T
<1>7. DOMAIN v.array = D
  BY DEF D
<1> QED  BY <1>4, <1>5, <1>6, <1>7 DEF Rearranged

\* Numbers that the floats next to them tell apart compare like these.
LEMMA FloatsOrder ==
    ASSUME NEW v, NEW w, IsNumber(v), Finite(v), IsNumber(w), Finite(w),
           ~Less(toFloat64(w), toFloat64(v))
    PROVE  Exact(v) <= Exact(w) \/ toFloat64(v) = toFloat64(w)
<1>1. ASSUME NEW o, IsNumber(o), Finite(o)
      PROVE  /\ Exact(o) \in Int /\ Magnitude(Exact(o)) < Infinite
             /\ toFloat64(o) = Float(Nearest(Exact(o)))
  <2>1. CASE Is(o, "int")
    <3>1. o.int \in IntMin..IntMax
      BY <1>1, <2>1 DEF IsNumber, IsFloat, Is, NaN, Inf, Ints
    <3>2. Exact(o) = 2 * o.int /\ toFloat64(o) = Float(Nearest(2 * o.int))
      BY <2>1 DEF Exact, toFloat64
    <3>3. 2^IntBits > 0
      BY Bits, TwoPositive
    <3>4. Magnitude(2 * o.int) < Infinite
      BY <3>1, <3>3, Bits DEF Magnitude
    <3> QED  BY <3>1, <3>2, <3>4, Bits
  <2>2. CASE ~Is(o, "int")
    <3>1. Is(o, "float")
      BY <1>1, <2>2 DEF Finite
    <3>2. o \notin Ints /\ o \notin {NaN, Inf(1), Inf(-1)}
      BY <3>1 DEF Ints, NaN, Inf, Is
    <3>3. /\ o \in [float : Int] /\ Magnitude(o.float) < Infinite
          /\ Nearest(o.float) = o.float
      BY <1>1, <3>2 DEF IsNumber, IsFloat
    <3>4. Exact(o) = o.float /\ toFloat64(o) = o /\ o = Float(o.float) /\ o.float \in Int
      BY <2>2, <3>3 DEF Exact, toFloat64, Float
    <3> QED  BY <3>3, <3>4
  <2> QED  BY <2>1, <2>2
<1> DEFINE h == Exact(v)
           i == Exact(w)
<1>2. /\ h \in Int /\ Magnitude(h) < Infinite /\ toFloat64(v) = Float(Nearest(h))
      /\ i \in Int /\ Magnitude(i) < Infinite /\ toFloat64(w) = Float(Nearest(i))
  BY <1>1
<1> HIDE DEF h, i
<1>3. SUFFICES ASSUME i < h  PROVE toFloat64(v) = toFloat64(w)
  BY <1>2 DEF h, i
<1>4. Nearest(i) \in Int /\ Nearest(h) \in Int /\ Nearest(i) <= Nearest(h)
  BY <1>2, <1>3, NearestGrows
<1>5. ~(Nearest(i) < Nearest(h))
  BY <1>2, <1>4, FloatsCompare
<1> QED  BY <1>2, <1>4, <1>5

\* map_to_pairs lists every key with its value once, so pairs_to_map finds
\* each of them again.
LEMMA PairsAreTheMap ==
    ASSUME NEW v, NEW w \in map_to_pairs(v), w \notin {Error, Panic},
           NEW r \in pairs_to_map(w), r \notin {Error, Panic}
    PROVE  r = v
<1> DEFINE m == v.map
           K == DOMAIN m
<1>1. IsMap(v) /\ IsFiniteSet(K) /\ v = Map(m) /\ m \in [K -> Parts(v)]
  BY DEF map_to_pairs, IsMap, Map
<1>2. PICK q \in SetToSeqs(K) :
         w = Array([i \in DOMAIN q |-> Array(<<String(q[i]), m[q[i]]>>)])
  BY <1>1 DEF map_to_pairs, Iterations
<1> DEFINE D == 1..Cardinality(K)
           Key(p) == p.array[1].string
           Latest(k) == Max({i \in DOMAIN w.array : Key(w.array[i]) = k})
<1> HIDE DEF m, K
<1>3. /\ q \in [D -> K] /\ \A i, j \in D : q[i] = q[j] => i = j
      /\ \A k \in K : \E i \in D : q[i] = k
      /\ D \subseteq Int
  BY <1>1, <1>2, SequenceOfAll
<1> HIDE DEF D
<1>4. /\ w.array = [i \in D |-> Array(<<String(q[i]), m[q[i]]>>)] /\ Is(w, "array")
  BY <1>2, <1>3 DEF Array, Is
<1>5. \A i \in D : Key(w.array[i]) = q[i] /\ w.array[i].array[2] = m[q[i]]
  BY <1>4 DEF Array, String
<1>6. DOMAIN w.array = D /\ Parts(w) = {w.array[i] : i \in D}
  BY <1>4, PartsOfArray
<1>7. {Key(p) : p \in Parts(w)} = K
  <2> HIDE DEF Key
  <2>1. \A p \in Parts(w) : Key(p) \in K
    BY <1>3, <1>5, <1>6
  <2>2. ASSUME NEW k \in K  PROVE \E p \in Parts(w) : Key(p) = k
    <3>1. PICK i \in D : q[i] = k
      BY <1>3
    <3>2. w.array[i] \in Parts(w)
      BY <1>6
    <3> QED  BY <1>5, <3>1, <3>2
  <2> QED  BY <2>1, <2>2, Zenon
<1>8. r = Map([k \in {Key(p) : p \in Parts(w)} |-> w.array[Latest(k)].array[2]])
  BY Zenon DEF pairs_to_map
<1> HIDE DEF Key
<1>9. ASSUME NEW k \in K  PROVE w.array[Latest(k)].array[2] = m[k]
  <2>1. PICK i \in D : q[i] = k
    BY <1>3
  <2>2. \A j \in D : Key(w.array[j]) = k <=> j = i
    BY <1>3, <1>5, <2>1
  <2>3. {j \in DOMAIN w.array : Key(w.array[j]) = k} = {i}
    BY <1>6, <2>1, <2>2
  <2>4. Latest(k) = Max({i})
    BY <2>3
  <2>5. Max({i}) = i
    BY <1>3 DEF Max
  <2> HIDE DEF Latest
  <2> QED  BY <1>5, <2>1, <2>4, <2>5
<1> HIDE DEF Latest
<1>10. [k \in K |-> w.array[Latest(k)].array[2]] = m
  <2>1. m = [k \in K |-> m[k]]
    BY <1>1
  <2> QED  BY <1>9, <2>1
<1> QED  BY <1>1, <1>7, <1>8, <1>10

\* slice_array, sort_array and the pairs of a map do as array.go and map.go
\* document, for all values: a slice is the range, a sorted array is a
\* rearrangement in order, and a map is what its pairs make.
THEOREM ArraysAsDocumented == Spec => []ArraysMeetDocs
<1>1. ScriptInv => ArraysMeetDocs
  <2> SUFFICES ASSUME ScriptInv  PROVE SliceIsRange /\ SortedCopy /\ PairsRoundTrip
    BY DEF ArraysMeetDocs
  <2>1. ASSUME NEW fn, Returned(fn)
        PROVE  /\ x \notin {Error, Panic} /\ Last(trail).fn = fn
               /\ Returns(fn, Last(trail).args, Was, x)
    BY <2>1 DEF ScriptInv, Returned, Called, Was
  <2>2. SliceIsRange
    <3> SUFFICES ASSUME Returned("slice_array")
                 PROVE  LET within == {i \in DOMAIN Was.array :
                                          Arg(1).int < i /\ i <= Arg(2).int}
                        IN  x.array = [n \in 1..Cardinality(within) |->
                                          Was.array[Min(within) + n - 1]]
      BY DEF SliceIsRange
    <3>1. PICK start, end \in Int : /\ Last(trail).args = <<Int64(start), Int64(end)>>
                                    /\ x \in slice_array(Was, start, end)
      BY <2>1 DEF Returns
    <3>2. Arg(1).int = start /\ Arg(2).int = end
      BY <3>1 DEF Arg, Int64
    <3>3. x \notin {Error, Panic}
      BY <2>1
    <3>4. SliceOf(x, Was, start, end)
      BY <3>1, <3>3, SliceOfArray
    <3>5. SliceOf(x, Was, Arg(1).int, Arg(2).int)
      BY <3>2, <3>4
    <3> QED  BY <3>5 DEF SliceOf
  <2>3. SortedCopy
    <3> SUFFICES ASSUME Returned("sort_array")
                 PROVE  /\ \A o \in Parts(x) \cup Parts(Was) :
                              Cardinality({i \in DOMAIN x.array : x.array[i] = o})
                                = Cardinality({i \in DOMAIN Was.array : Was.array[i] = o})
                        /\ (\A o \in Parts(x) : IsNumber(o) /\ Finite(o)) =>
                              \A i, j \in DOMAIN x.array :
                                 i < j => \/ Exact(x.array[i]) <= Exact(x.array[j])
                                          \/ toFloat64(x.array[i]) = toFloat64(x.array[j])
      BY DEF SortedCopy
    <3>1. x \in sort_array(Was) /\ x \notin {Error, Panic}
      BY <2>1 DEF Returns
    <3> DEFINE v == Was
    <3> HIDE DEF v
    <3>2. PICK p \in SetToSeqs(DOMAIN v.array) :
             /\ IsArray(v) /\ x = Array(At(v.array, p))
             /\ Numeric(v.array) /\ NaN \notin Parts(v) =>
                   \A i, j \in DOMAIN x.array :
                      i < j => ~Less(toFloat64(x.array[j]), toFloat64(x.array[i]))
      BY <3>1, SortedIsRearranged DEF v
    <3>3. Rearranged(x, v)
      BY <3>2, RearrangedKeeps
    <3>4. ASSUME \A o \in Parts(x) : IsNumber(o) /\ Finite(o),
                 NEW i \in DOMAIN x.array, NEW j \in DOMAIN x.array, i < j
          PROVE  \/ Exact(x.array[i]) <= Exact(x.array[j])
                 \/ toFloat64(x.array[i]) = toFloat64(x.array[j])
      <4>1. Parts(x) = {x.array[k] : k \in DOMAIN x.array}
        BY <3>2, PartsOfArray DEF Array, Is
      <4>2. Numeric(v.array)
        BY <3>2, <3>3, <3>4, PartsOfArray DEF Numeric, IsArray, Rearranged
      <4>3. NaN \notin Parts(v)
        BY <3>3, <3>4 DEF Finite, NaN, Is, Rearranged
      <4>4. ~Less(toFloat64(x.array[j]), toFloat64(x.array[i]))
        BY <3>2, <3>4, <4>2, <4>3
      <4>5. /\ IsNumber(x.array[i]) /\ Finite(x.array[i])
            /\ IsNumber(x.array[j]) /\ Finite(x.array[j])
        BY <3>4, <4>1
      <4> QED  BY <4>4, <4>5, FloatsOrder
    <3> QED  BY <3>3, <3>4 DEF v, Rearranged
  <2>4. PairsRoundTrip
    <3> SUFFICES ASSUME ReturnedBoth("map_to_pairs", "pairs_to_map")  PROVE x = Origin
      BY DEF PairsRoundTrip
    <3> DEFINE n == Len(trail) - 1
    <3>1. /\ x \notin {Error, Panic} /\ x \in pairs_to_map(Was)
      BY <2>1 DEF ReturnedBoth, Returns
    <3>2. Len(trail) \in Nat
      BY DEF ScriptInv, TrailOK
    <3>3. n \in 1..(Len(trail) - 1) /\ n + 1 = Len(trail) /\ trail[n].fn = "map_to_pairs"
      BY <3>2 DEF ReturnedBoth
    <3>4. Was = trail[n + 1].was /\ Origin = trail[n].was
      BY <3>3 DEF Was, Last, Origin
    <3> HIDE DEF n
    <3>5. /\ trail[n + 1].was \notin {Error, Panic}
          /\ Returns(trail[n].fn, trail[n].args, trail[n].was, trail[n + 1].was)
      BY <3>3 DEF ScriptInv
    <3>6. Was \notin {Error, Panic} /\ Was \in map_to_pairs(Origin)
      BY <3>3, <3>4, <3>5 DEF Returns
    <3> QED  BY <3>1, <3>6, PairsAreTheMap
  <2> QED  BY <2>2, <2>3, <2>4
<1> QED  BY <1>1, ScriptInvariance, PTL

-----------------------------------------------------------------------------
(* What occurs in texts.                                                   *)

\* What begins in s at i.
OccursAt(s, sub, i) ==
    /\ i \in 1..(Len(s) + 1)
    /\ i + Len(sub) - 1 <= Len(s)
    /\ \A k \in 1..Len(sub) : s[i + k - 1] = sub[k]

LEMMA OccurrencesAre ==
    ASSUME NEW C, NEW s \in Seq(C), NEW sub \in Seq(C), NEW i
    PROVE  i \in Occurrences(s, sub) <=> OccursAt(s, sub, i)
<1> SUFFICES ASSUME i \in 1..(Len(s) + 1)
             PROVE  IsPrefix(sub, SubSeq(s, i, Len(s)))
                       <=> /\ i + Len(sub) - 1 <= Len(s)
                           /\ \A k \in 1..Len(sub) : s[i + k - 1] = sub[k]
  BY DEF Occurrences, OccursAt
<1> DEFINE t == SubSeq(s, i, Len(s))
<1>1. t \in Seq(C) /\ Len(t) = Len(s) - i + 1 /\ \A k \in 1..Len(t) : t[k] = s[i + k - 1]
  OBVIOUS
<1> HIDE DEF t
<1>2. CASE Len(sub) > Len(t)
  BY <1>1, <1>2 DEF IsPrefix
<1>3. CASE Len(sub) <= Len(t)
  <2> DEFINE p == SubSeq(sub, 1, Len(sub))
             q == SubSeq(t, 1, Len(sub))
  <2>1. p \in Seq(C) /\ Len(p) = Len(sub) /\ \A k \in 1..Len(sub) : p[k] = sub[k]
    OBVIOUS
  <2>2. q \in Seq(C) /\ Len(q) = Len(sub) /\ \A k \in 1..Len(sub) : q[k] = t[k]
    BY <1>1, <1>3
  <2> HIDE DEF p, q
  <2>3. p = q <=> \A k \in 1..Len(sub) : p[k] = q[k]
    BY <2>1, <2>2, SeqEqual
  <2>4. (\A k \in 1..Len(sub) : p[k] = q[k])
           <=> \A k \in 1..Len(sub) : s[i + k - 1] = sub[k]
    BY <1>1, <1>3, <2>1, <2>2
  <2>5. IsPrefix(sub, t) <=> p = q
    BY <1>3 DEF IsPrefix, p, q
  <2> QED  BY <1>1, <1>3, <2>3, <2>4, <2>5 DEF t
<1> QED  BY <1>1, <1>2, <1>3 DEF t

LEMMA OccurrencesInText ==
    ASSUME NEW C, NEW s \in Seq(C), NEW sub \in Seq(C), NEW i \in Occurrences(s, sub)
    PROVE  i \in 1..(Len(s) + 1) /\ i + Len(sub) <= Len(s) + 1
  BY OccurrencesAre DEF OccursAt

-----------------------------------------------------------------------------
(* Pieces of a text.                                                       *)

\* Where the separator comes next.
Ahead(s, sep, i) == {j \in Occurrences(s, sep) : i <= j}
Cut(s, sep, i) == Min(Ahead(s, sep, i))

LEMMA NextCut ==
    ASSUME NEW C, NEW s \in Seq(C), NEW sep \in Seq(C), NEW i \in 1..(Len(s) + 1),
           Ahead(s, sep, i) # {}
    PROVE  /\ Cut(s, sep, i) \in Ahead(s, sep, i)
           /\ \A j \in Ahead(s, sep, i) : Cut(s, sep, i) <= j
<1>1. Ahead(s, sep, i) \in SUBSET Nat
  BY OccurrencesInText DEF Ahead
<1>2. \E n \in Ahead(s, sep, i) : \A m \in Ahead(s, sep, i) : n <= m
  BY <1>1, Least
<1> QED  BY <1>2 DEF Cut, Min

\* The pieces of s from i on, when g has those from later places on.
PiecesAt(g, s, sep, i) ==
    LET at == {j \in Occurrences(s, sep) : i <= j}
    IN  IF at = {} THEN <<SubSeq(s, i, Len(s))>>
        ELSE <<SubSeq(s, i, Min(at) - 1)>> \o g[Min(at) + Len(sep)]

PiecesFrom(g, s, sep, a) ==
    g = [i \in a..(Len(s) + 1) |->
            LET at == {j \in Occurrences(s, sep) : i <= j}
            IN  IF at = {} THEN <<SubSeq(s, i, Len(s))>>
                ELSE <<SubSeq(s, i, Min(at) - 1)>> \o g[Min(at) + Len(sep)]]

LEMMA PiecesFromAre ==
    ASSUME NEW g, NEW s, NEW sep, NEW a
    PROVE  PiecesFrom(g, s, sep, a)
              <=> g = [i \in a..(Len(s) + 1) |-> PiecesAt(g, s, sep, i)]
  BY DEF PiecesFrom, PiecesAt

LEMMA PiecesAtLater ==
    ASSUME NEW C, NEW s \in Seq(C), NEW sep \in Seq(C), sep # <<>>,
           NEW i \in 1..(Len(s) + 1), NEW g, NEW h,
           \A j \in (i + 1)..(Len(s) + 1) : g[j] = h[j]
    PROVE  PiecesAt(g, s, sep, i) = PiecesAt(h, s, sep, i)
<1>1. CASE Ahead(s, sep, i) = {}
  BY <1>1 DEF PiecesAt, Ahead
<1>2. CASE Ahead(s, sep, i) # {}
  <2>1. Cut(s, sep, i) \in Occurrences(s, sep) /\ i <= Cut(s, sep, i)
    BY <1>2, NextCut DEF Ahead
  <2>2. Len(sep) > 0 /\ Len(sep) \in Nat
    BY EmptySeq
  <2>3. Cut(s, sep, i) + Len(sep) \in (i + 1)..(Len(s) + 1)
    BY <2>1, <2>2, OccurrencesInText
  <2>4. g[Cut(s, sep, i) + Len(sep)] = h[Cut(s, sep, i) + Len(sep)]
    BY <2>3
  <2> QED  BY <1>2, <2>4 DEF PiecesAt, Ahead, Cut
<1> QED  BY <1>1, <1>2

\* From the end back to the beginning: there is no last place without.
LEMMA PiecesFromExist ==
    ASSUME NEW C, NEW s \in Seq(C), NEW sep \in Seq(C), sep # <<>>
    PROVE  \E g : PiecesFrom(g, s, sep, 1)
<1> DEFINE L == Len(s) + 1
           Bad == {m \in Nat : m < L /\ \A g : ~PiecesFrom(g, s, sep, L - m)}
<1>1. L \in Nat /\ L > 0
  OBVIOUS
<1>2. SUFFICES ASSUME Bad # {}  PROVE FALSE
  <2>1. L - 1 \in Nat /\ L - 1 < L /\ L - 1 \notin Bad
    BY <1>1, <1>2
  <2>2. L - (L - 1) = 1
    BY <1>1
  <2> QED  BY <2>1, <2>2
<1>3. PICK m \in Bad : \A k \in Bad : m <= k
  <2>1. Bad \in SUBSET Nat
    OBVIOUS
  <2> HIDE DEF Bad
  <2> QED  BY <1>2, <2>1, Least
<1> DEFINE a == L - m
<1>4. PICK h : PiecesFrom(h, s, sep, a + 1)
  <2>1. CASE m = 0
    <3>1. a + 1 = Len(s) + 2 /\ (a + 1)..(Len(s) + 1) = {}
      BY <2>1, <1>1
    <3> DEFINE e == [i \in (a + 1)..(Len(s) + 1) |-> <<>>]
    <3>2. e = [i \in (a + 1)..(Len(s) + 1) |-> PiecesAt(e, s, sep, i)]
      <4>1. \A i \in (a + 1)..(Len(s) + 1) : FALSE
        BY <3>1
      <4> QED  BY <4>1
    <3> HIDE DEF e
    <3> QED  BY <3>2, PiecesFromAre
  <2>2. CASE m # 0
    <3>1. m - 1 \in Nat /\ m - 1 < L /\ m - 1 \notin Bad
      BY <1>3, <2>2
    <3>2. L - (m - 1) = a + 1
      BY <1>1, <1>3
    <3> QED  BY <3>1, <3>2
  <2> QED  BY <2>1, <2>2
<1>5. a \in 1..L /\ L = Len(s) + 1
  BY <1>1, <1>3
<1>9. \A g : ~PiecesFrom(g, s, sep, a)
  BY <1>3
<1> HIDE DEF a
<1> DEFINE g == [i \in a..(Len(s) + 1) |-> IF i = a THEN PiecesAt(h, s, sep, a) ELSE h[i]]
<1>6. \A i \in a..(Len(s) + 1) : g[i] = PiecesAt(g, s, sep, i)
  <2> SUFFICES ASSUME NEW i \in a..(Len(s) + 1)
               PROVE  g[i] = PiecesAt(g, s, sep, i)
    OBVIOUS
  <2>1. \A j \in (i + 1)..(Len(s) + 1) : g[j] = h[j]
    BY <1>5
  <2>2. i \in 1..(Len(s) + 1)
    BY <1>5
  <2>3. h = [j \in (a + 1)..(Len(s) + 1) |-> PiecesAt(h, s, sep, j)]
    BY <1>4, PiecesFromAre
  <2>4. g[i] = PiecesAt(h, s, sep, i)
    <3>1. CASE i = a
      BY <3>1
    <3>2. CASE i # a
      <4>1. i \in (a + 1)..(Len(s) + 1) /\ g[i] = h[i]
        BY <1>5, <3>2
      <4> HIDE DEF g
      <4> QED  BY <2>3, <4>1
    <3> QED  BY <3>1, <3>2
  <2> HIDE DEF g
  <2> QED  BY <2>1, <2>2, <2>4, PiecesAtLater
<1>7. g = [i \in a..(Len(s) + 1) |-> PiecesAt(g, s, sep, i)]
  <2>1. g = [i \in a..(Len(s) + 1) |-> g[i]]
    OBVIOUS
  <2> HIDE DEF g
  <2> QED  BY <1>6, <2>1
<1>8. PiecesFrom(g, s, sep, a)
  <2> HIDE DEF g
  <2> QED  BY <1>7, PiecesFromAre
<1> QED  BY <1>8, <1>9

-----------------------------------------------------------------------------
(* Joining texts.                                                          *)

\* Concatenation, which the provers take apart better under a name.
Cat(a, b) == a \o b

IsCat(d, a, b) ==
    /\ Len(d) = Len(a) + Len(b)
    /\ \A i \in 1..Len(a) : d[i] = a[i]
    /\ \A i \in 1..Len(b) : d[Len(a) + i] = b[i]

LEMMA CatIs ==
    ASSUME NEW C, NEW a \in Seq(C), NEW b \in Seq(C)
    PROVE  Cat(a, b) \in Seq(C) /\ IsCat(Cat(a, b), a, b)
  BY ConcatProperties DEF Cat, IsCat

LEMMA CatAssociative ==
    ASSUME NEW C, NEW a \in Seq(C), NEW b \in Seq(C), NEW c \in Seq(C)
    PROVE  Cat(Cat(a, b), c) = Cat(a, Cat(b, c))
<1> DEFINE ab == Cat(a, b)
           bc == Cat(b, c)
           l == Cat(ab, c)
           r == Cat(a, bc)
<1>1. ab \in Seq(C) /\ bc \in Seq(C) /\ IsCat(ab, a, b) /\ IsCat(bc, b, c)
  BY CatIs
<1> HIDE DEF ab, bc
<1>2. l \in Seq(C) /\ r \in Seq(C) /\ IsCat(l, ab, c) /\ IsCat(r, a, bc)
  BY <1>1, CatIs
<1> HIDE DEF l, r
<1>5. Len(a) \in Nat /\ Len(b) \in Nat /\ Len(c) \in Nat /\ Len(l) = Len(r)
  BY <1>1, <1>2 DEF IsCat
<1>6. ASSUME NEW i \in 1..Len(l)  PROVE l[i] = r[i]
  <2>0. Len(ab) = Len(a) + Len(b) /\ Len(bc) = Len(b) + Len(c) /\ Len(l) = Len(ab) + Len(c)
    BY <1>1, <1>2 DEF IsCat
  <2>1. CASE i <= Len(a)
    <3>1. i \in 1..Len(a) /\ i \in 1..Len(ab)
      BY <1>5, <2>0, <2>1
    <3> QED  BY <1>1, <1>2, <3>1 DEF IsCat
  <2>2. CASE Len(a) < i /\ i <= Len(a) + Len(b)
    <3> DEFINE k == i - Len(a)
    <3>1. k \in 1..Len(b) /\ k \in 1..Len(bc) /\ Len(a) + k = i /\ i \in 1..Len(ab)
      BY <1>5, <2>0, <2>2
    <3> HIDE DEF k
    <3>2. l[i] = ab[i]
      BY <1>2, <3>1 DEF IsCat
    <3>3. ab[i] = b[k]
      BY <1>1, <3>1 DEF IsCat
    <3>4. r[i] = bc[k]
      BY <1>2, <3>1 DEF IsCat
    <3>5. bc[k] = b[k]
      BY <1>1, <3>1 DEF IsCat
    <3> QED  BY <3>2, <3>3, <3>4, <3>5
  <2>3. CASE Len(a) + Len(b) < i
    <3> DEFINE k == i - (Len(a) + Len(b))
               m == Len(b) + k
    <3>1. k \in 1..Len(c) /\ Len(ab) + k = i
      BY <1>5, <2>0, <2>3
    <3>2. m \in 1..Len(bc) /\ Len(a) + m = i /\ m = Len(b) + k
      BY <1>5, <2>0, <2>3
    <3> HIDE DEF k, m
    <3>3. l[i] = c[k]
      BY <1>2, <3>1 DEF IsCat
    <3>4. r[i] = bc[m]
      BY <1>2, <3>2 DEF IsCat
    <3>5. bc[m] = c[k]
      BY <1>1, <3>1, <3>2 DEF IsCat
    <3> QED  BY <3>3, <3>4, <3>5
  <2> QED  BY <1>5, <2>1, <2>2, <2>3
<1> QED  BY <1>2, <1>5, <1>6, SeqEqual DEF l, r, ab, bc

JoinedMore(u, parts, sep, m) ==
    IF m = 1 THEN parts[1] ELSE Cat(Cat(u[m - 1], sep), parts[m])
JoinedUpTo(u, parts, sep, n) == u = [m \in 1..n |-> JoinedMore(u, parts, sep, m)]

LEMMA JoinedUpToExist ==
    ASSUME NEW parts, NEW sep, NEW n \in Nat
    PROVE  \E u : JoinedUpTo(u, parts, sep, n)
<1> DEFINE Bad == {m \in Nat : \A u : ~JoinedUpTo(u, parts, sep, m)}
<1>1. SUFFICES ASSUME Bad # {}  PROVE FALSE
  OBVIOUS
<1>2. PICK m \in Bad : \A k \in Bad : m <= k
  <2>1. Bad \in SUBSET Nat
    OBVIOUS
  <2> HIDE DEF Bad
  <2> QED  BY <1>1, <2>1, Least
<1>3. m # 0
  <2> DEFINE u == [i \in 1..0 |-> <<>>]
  <2>1. JoinedUpTo(u, parts, sep, 0)
    BY DEF JoinedUpTo
  <2> QED  BY <2>1
<1>4. PICK t : JoinedUpTo(t, parts, sep, m - 1)
  <2>1. m - 1 \in Nat /\ m - 1 \notin Bad
    BY <1>2, <1>3
  <2> QED  BY <2>1
<1> DEFINE u == [i \in 1..m |-> IF i = m THEN JoinedMore(t, parts, sep, m) ELSE t[i]]
<1>5. \A i \in 1..m : u[i] = JoinedMore(u, parts, sep, i)
  <2> SUFFICES ASSUME NEW i \in 1..m  PROVE u[i] = JoinedMore(u, parts, sep, i)
    OBVIOUS
  <2>1. i = 1 \/ u[i - 1] = t[i - 1]
    OBVIOUS
  <2>2. JoinedMore(u, parts, sep, i) = JoinedMore(t, parts, sep, i)
    <3> HIDE DEF u
    <3> QED  BY <2>1 DEF JoinedMore
  <2>3. CASE i = m
    BY <2>2, <2>3
  <2>4. CASE i # m
    <3>1. i \in 1..(m - 1) /\ u[i] = t[i]
      BY <2>4
    <3>2. t[i] = JoinedMore(t, parts, sep, i)
      BY <1>4, <3>1 DEF JoinedUpTo
    <3> HIDE DEF u
    <3> QED  BY <2>2, <3>1, <3>2
  <2> QED  BY <2>3, <2>4
<1>6. JoinedUpTo(u, parts, sep, m)
  <2>1. u = [i \in 1..m |-> u[i]]
    OBVIOUS
  <2> HIDE DEF u
  <2> QED  BY <1>5, <2>1 DEF JoinedUpTo
<1> QED  BY <1>6

JoinedIn(u, parts, sep) ==
    /\ Joined(parts, sep) = u[Len(parts)]
    /\ u[1] = parts[1]
    /\ \A m \in 2..Len(parts) : u[m] = Cat(Cat(u[m - 1], sep), parts[m])

LEMMA JoinedSteps ==
    ASSUME NEW C, NEW parts \in Seq(Seq(C)), parts # <<>>, NEW sep \in Seq(C)
    PROVE  \E u : JoinedIn(u, parts, sep)
<1> DEFINE u == CHOOSE u : JoinedUpTo(u, parts, sep, Len(parts))
<1>1. Joined(parts, sep) = u[Len(parts)]
  BY Zenon DEF Joined, JoinedUpTo, JoinedMore, Cat
<1>2. Len(parts) \in Nat /\ Len(parts) > 0
  BY EmptySeq
<1>3. JoinedUpTo(u, parts, sep, Len(parts))
  BY <1>2, JoinedUpToExist
<1> HIDE DEF u
<1>4. u[1] = parts[1]
  BY <1>2, <1>3 DEF JoinedUpTo, JoinedMore
<1>5. ASSUME NEW m \in 2..Len(parts)
      PROVE  u[m] = Cat(Cat(u[m - 1], sep), parts[m])
  <2>1. m \in 1..Len(parts) /\ m # 1
    OBVIOUS
  <2>2. u[m] = JoinedMore(u, parts, sep, m)
    BY <1>3, <2>1 DEF JoinedUpTo
  <2> QED  BY <2>1, <2>2 DEF JoinedMore
<1> QED  BY <1>1, <1>4, <1>5 DEF JoinedIn

LEMMA JoinedIsText ==
    ASSUME NEW C, NEW parts \in Seq(Seq(C)), parts # <<>>, NEW sep \in Seq(C), NEW u,
           JoinedIn(u, parts, sep)
    PROVE  \A m \in 1..Len(parts) : u[m] \in Seq(C)
<1> DEFINE Bad == {m \in 1..Len(parts) : u[m] \notin Seq(C)}
<1>1. SUFFICES ASSUME Bad # {}  PROVE FALSE
  OBVIOUS
<1>2. PICK m \in Bad : \A k \in Bad : m <= k
  <2>1. Bad \in SUBSET Nat
    OBVIOUS
  <2> HIDE DEF Bad
  <2> QED  BY <1>1, <2>1, Least
<1>3. m # 1
  BY <1>2 DEF JoinedIn
<1>4. m - 1 \in 1..Len(parts) /\ u[m - 1] \in Seq(C)
  BY <1>2, <1>3
<1>5. parts[m] \in Seq(C) /\ u[m] = Cat(Cat(u[m - 1], sep), parts[m])
  BY <1>2, <1>3 DEF JoinedIn
<1>6. Cat(Cat(u[m - 1], sep), parts[m]) \in Seq(C)
  BY <1>4, <1>5, CatIs
<1> QED  BY <1>2, <1>5, <1>6

\* A text more in front.
LEMMA JoinedFront ==
    ASSUME NEW C, NEW rest \in Seq(Seq(C)), rest # <<>>, NEW sep \in Seq(C),
           NEW p \in Seq(C)
    PROVE  Joined(Cat(<<p>>, rest), sep) = Cat(Cat(p, sep), Joined(rest, sep))
<1> DEFINE parts == Cat(<<p>>, rest)
           front == Cat(p, sep)
<1>1. /\ parts \in Seq(Seq(C)) /\ Len(parts) = Len(rest) + 1 /\ parts[1] = p
      /\ \A n \in 1..Len(rest) : parts[n + 1] = rest[n]
  <2>1. <<p>> \in Seq(Seq(C)) /\ Len(<<p>>) = 1 /\ <<p>>[1] = p
    OBVIOUS
  <2> DEFINE one == <<p>>
  <2>2. parts \in Seq(Seq(C)) /\ IsCat(parts, one, rest)
    BY <2>1, CatIs
  <2> HIDE DEF one, parts
  <2>3. Len(one) = 1 /\ one[1] = p /\ Len(rest) \in Nat
    BY <2>1 DEF one
  <2>4. \A n \in 1..Len(rest) : n + 1 = Len(one) + n
    BY <2>3
  <2> QED  BY <2>2, <2>3, <2>4 DEF IsCat
<1>2. front \in Seq(C)
  BY CatIs
<1>3. Len(rest) \in Nat /\ Len(rest) > 0 /\ parts # <<>>
  BY <1>1, EmptySeq
<1> HIDE DEF parts
<1>4. PICK u : JoinedIn(u, rest, sep)
  BY JoinedSteps
<1>5. PICK w : JoinedIn(w, parts, sep)
  BY <1>1, <1>3, JoinedSteps
<1>6. \A m \in 1..Len(rest) : u[m] \in Seq(C)
  BY <1>4, JoinedIsText
<1>7. \A n \in 1..Len(rest) : w[n + 1] = Cat(Cat(w[n], sep), rest[n])
  <2> SUFFICES ASSUME NEW n \in 1..Len(rest)  PROVE w[n + 1] = Cat(Cat(w[n], sep), rest[n])
    OBVIOUS
  <2>1. n + 1 \in 2..Len(parts) /\ parts[n + 1] = rest[n] /\ (n + 1) - 1 = n
    BY <1>1
  <2>2. w[n + 1] = Cat(Cat(w[(n + 1) - 1], sep), parts[n + 1])
    BY <1>5, <2>1 DEF JoinedIn
  <2> QED  BY <2>1, <2>2
<1> DEFINE Bad == {n \in Nat : n \in 1..Len(rest) /\ w[n + 1] # Cat(front, u[n])}
<1>8. Bad = {}
  <2>1. SUFFICES ASSUME Bad # {}  PROVE FALSE
    OBVIOUS
  <2>2. PICK n \in Bad : \A k \in Bad : n <= k
    <3>1. Bad \in SUBSET Nat
      OBVIOUS
    <3> HIDE DEF Bad
    <3> QED  BY <2>1, <3>1, Least
  <2>3. CASE n = 1
    <3>1. w[1 + 1] = Cat(Cat(w[1], sep), rest[1])
      BY <1>3, <1>7
    <3>2. w[1] = p /\ u[1] = rest[1]
      BY <1>1, <1>4, <1>5 DEF JoinedIn
    <3>3. w[n + 1] = Cat(front, u[n])
      BY <2>3, <3>1, <3>2
    <3> QED  BY <2>2, <3>3
  <2>4. CASE n # 1
    <3>1. n - 1 \in 1..Len(rest) /\ n - 1 \notin Bad /\ (n - 1) + 1 = n
      BY <2>2, <2>4
    <3>2. w[n] = Cat(front, u[n - 1])
      BY <3>1
    <3>3. u[n - 1] \in Seq(C) /\ rest[n] \in Seq(C)
      BY <1>6, <2>2, <3>1
    <3>4. w[n + 1] = Cat(Cat(Cat(front, u[n - 1]), sep), rest[n])
      BY <1>7, <2>2, <3>2
    <3>5. u[n] = Cat(Cat(u[n - 1], sep), rest[n])
      BY <1>4, <2>2, <2>4 DEF JoinedIn
    <3>6. Cat(Cat(Cat(front, u[n - 1]), sep), rest[n]) = Cat(front, Cat(Cat(u[n - 1], sep), rest[n]))
      <4> HIDE DEF front
      <4>1. Cat(u[n - 1], sep) \in Seq(C)
        BY <3>3, CatIs
      <4>2. Cat(Cat(front, u[n - 1]), sep) = Cat(front, Cat(u[n - 1], sep))
        BY <1>2, <3>3, CatAssociative
      <4>3. Cat(Cat(front, Cat(u[n - 1], sep)), rest[n])
               = Cat(front, Cat(Cat(u[n - 1], sep), rest[n]))
        BY <1>2, <3>3, <4>1, CatAssociative
      <4> QED  BY <4>2, <4>3
    <3>7. w[n + 1] = Cat(front, u[n])
      BY <3>4, <3>5, <3>6
    <3> QED  BY <2>2, <3>7
  <2> QED  BY <2>3, <2>4
<1>9. Len(rest) \in 1..Len(rest)
  BY <1>3
<1>10. w[Len(rest) + 1] = Cat(front, u[Len(rest)])
  BY <1>8, <1>9
<1>11. Joined(parts, sep) = Cat(front, Joined(rest, sep))
  BY <1>1, <1>4, <1>5, <1>10 DEF JoinedIn
<1> QED  BY <1>11 DEF parts

LEMMA PartOf ==
    ASSUME NEW C, NEW s \in Seq(C), NEW a \in 1..(Len(s) + 1), NEW b \in (a - 1)..Len(s)
    PROVE  /\ SubSeq(s, a, b) \in Seq(C) /\ Len(SubSeq(s, a, b)) = b - a + 1
           /\ \A k \in 1..(b - a + 1) : SubSeq(s, a, b)[k] = s[a + k - 1]
<1>1. \A k \in a..b : s[k] \in C
  OBVIOUS
<1>2. a \in Int /\ b \in Int
  OBVIOUS
<1> QED  BY <1>1, <1>2, SubSeqProperties

LEMMA OccursWithin ==
    ASSUME NEW C, NEW s \in Seq(C), NEW sep \in Seq(C),
           NEW a \in 1..(Len(s) + 1), NEW b \in (a - 1)..Len(s),
           NEW j \in Occurrences(SubSeq(s, a, b), sep)
    PROVE  /\ a + j - 1 \in Occurrences(s, sep)
           /\ j >= 1 /\ a + j - 1 + Len(sep) <= b + 1
<1> DEFINE t == SubSeq(s, a, b)
<1>1. /\ t \in Seq(C) /\ Len(t) = b - a + 1
      /\ \A k \in 1..(b - a + 1) : t[k] = s[a + k - 1]
  BY PartOf
<1>2. j \in Occurrences(t, sep)
  OBVIOUS
<1> HIDE DEF t
<1>3. OccursAt(t, sep, j)
  BY <1>1, <1>2, OccurrencesAre
<1>4. j \in 1..(Len(t) + 1) /\ j + Len(sep) - 1 <= Len(t) /\ Len(sep) \in Nat
  BY <1>3 DEF OccursAt
<1>5. ASSUME NEW k \in 1..Len(sep)  PROVE s[(a + j - 1) + k - 1] = sep[k]
  <2>1. j + k - 1 \in 1..(b - a + 1) /\ a + (j + k - 1) - 1 = (a + j - 1) + k - 1
    BY <1>1, <1>4
  <2>2. t[j + k - 1] = sep[k]
    BY <1>3 DEF OccursAt
  <2> QED  BY <1>1, <2>1, <2>2
<1>6. a + j - 1 \in 1..(Len(s) + 1) /\ (a + j - 1) + Len(sep) - 1 <= Len(s)
  BY <1>1, <1>4
<1>7. OccursAt(s, sep, a + j - 1)
  BY <1>5, <1>6 DEF OccursAt
<1>8. a + j - 1 \in Occurrences(s, sep)
  BY <1>7, OccurrencesAre
<1> QED  BY <1>1, <1>4, <1>8

\* What pieces from i on are: joined they are the rest of the text, and the
\* separator does not occur in any of them.
PiecesOf(parts, s, sep, i, C) ==
    /\ parts \in Seq(Seq(C)) /\ parts # <<>>
    /\ Joined(parts, sep) = SubSeq(s, i, Len(s))
    /\ \A n \in 1..Len(parts) : Occurrences(parts[n], sep) = {}

LEMMA LastPiece ==
    ASSUME NEW C, NEW s \in Seq(C), NEW sep \in Seq(C), NEW i \in 1..(Len(s) + 1),
           Ahead(s, sep, i) = {}
    PROVE  PiecesOf(<<SubSeq(s, i, Len(s))>>, s, sep, i, C)
<1> DEFINE p == SubSeq(s, i, Len(s))
           parts == <<p>>
<1>1. p \in Seq(C) /\ Len(s) \in (i - 1)..Len(s)
  BY PartOf
<1>2. parts \in Seq(Seq(C)) /\ parts # <<>> /\ Len(parts) = 1 /\ parts[1] = p
  BY <1>1
<1>3. Joined(parts, sep) = p
  <2> HIDE DEF parts
  <2>1. PICK u : JoinedIn(u, parts, sep)
    BY <1>2, JoinedSteps
  <2> QED  BY <1>2, <2>1 DEF JoinedIn
<1>4. ASSUME NEW j \in Occurrences(p, sep)  PROVE FALSE
  <2>1. j \in Int
    <3> HIDE DEF p
    <3>1. p \in Seq(C) /\ Len(p) \in Nat
      BY <1>1
    <3> QED  BY <3>1, OccurrencesInText
  <2>2. i + j - 1 \in Occurrences(s, sep) /\ j >= 1
    BY <1>1, OccursWithin
  <2>3. i + j - 1 \in Ahead(s, sep, i)
    BY <2>1, <2>2 DEF Ahead
  <2> QED  BY <2>3
<1>5. \A n \in 1..Len(parts) : Occurrences(parts[n], sep) = {}
  <2> HIDE DEF p, parts
  <2> QED  BY <1>2, <1>4
<1> QED  BY <1>2, <1>3, <1>5 DEF PiecesOf

LEMMA NextPiece ==
    ASSUME NEW C, NEW s \in Seq(C), NEW sep \in Seq(C), sep # <<>>,
           NEW i \in 1..(Len(s) + 1), Ahead(s, sep, i) # {}, NEW rest,
           PiecesOf(rest, s, sep, Cut(s, sep, i) + Len(sep), C)
    PROVE  PiecesOf(Cat(<<SubSeq(s, i, Cut(s, sep, i) - 1)>>, rest), s, sep, i, C)
<1> DEFINE c == Cut(s, sep, i)
           l == Len(sep)
           p == SubSeq(s, i, c - 1)
           one == <<p>>
           parts == Cat(one, rest)
           q == SubSeq(s, c + l, Len(s))
           all == SubSeq(s, i, Len(s))
           head == Cat(p, sep)
<1>1. c \in Occurrences(s, sep) /\ i <= c /\ \A j \in Ahead(s, sep, i) : c <= j
  BY NextCut DEF Ahead
<1>2. c \in 1..(Len(s) + 1) /\ c + l <= Len(s) + 1 /\ l \in Nat /\ l > 0
  <2>1. l \in Nat /\ l > 0
    BY EmptySeq
  <2> QED  BY <1>1, <2>1, OccurrencesInText
<1>3. OccursAt(s, sep, c)
  BY <1>1, OccurrencesAre
<1> HIDE DEF c
<1>4. /\ p \in Seq(C) /\ Len(p) = c - i
      /\ \A k \in 1..(c - i) : p[k] = s[i + k - 1]
  <2>1. c - 1 \in (i - 1)..Len(s) /\ (c - 1) - i + 1 = c - i
    BY <1>1, <1>2
  <2> QED  BY <2>1, PartOf
<1>5. /\ q \in Seq(C) /\ Len(q) = Len(s) + 1 - (c + l)
      /\ \A k \in 1..(Len(s) + 1 - (c + l)) : q[k] = s[c + l + k - 1]
  <2>1. c + l \in 1..(Len(s) + 1) /\ Len(s) \in ((c + l) - 1)..Len(s)
        /\ Len(s) - (c + l) + 1 = Len(s) + 1 - (c + l)
    BY <1>2
  <2> HIDE DEF l
  <2> QED  BY <2>1, PartOf
<1>6. /\ all \in Seq(C) /\ Len(all) = Len(s) - i + 1
      /\ \A k \in 1..(Len(s) - i + 1) : all[k] = s[i + k - 1]
  <2>1. Len(s) \in (i - 1)..Len(s)
    OBVIOUS
  <2> QED  BY <2>1, PartOf
<1>7. /\ rest \in Seq(Seq(C)) /\ rest # <<>> /\ Joined(rest, sep) = q
      /\ \A n \in 1..Len(rest) : Occurrences(rest[n], sep) = {}
  BY DEF PiecesOf, c
<1>8. one \in Seq(Seq(C)) /\ Len(one) = 1 /\ one[1] = p
  BY <1>4
<1> HIDE DEF p, q, one, all
<1>9. parts \in Seq(Seq(C)) /\ IsCat(parts, one, rest)
  BY <1>7, <1>8, CatIs
<1>10. Joined(parts, sep) = Cat(head, q)
  BY <1>4, <1>7, JoinedFront DEF one
<1>11. head \in Seq(C) /\ IsCat(head, p, sep)
  BY <1>4, CatIs
<1> HIDE DEF head, parts
<1>12. Cat(head, q) \in Seq(C) /\ IsCat(Cat(head, q), head, q)
  BY <1>5, <1>11, CatIs
<1>13. Cat(head, q) = all
  <2> DEFINE d == Cat(head, q)
  <2>1. Len(head) = (c - i) + l /\ Len(d) = Len(all) /\ d \in Seq(C)
    <3>1. Len(head) = Len(p) + l
      BY <1>11 DEF IsCat
    <3>2. Len(d) = Len(head) + Len(q) /\ d \in Seq(C)
      BY <1>12 DEF IsCat
    <3>3. c \in Int /\ i \in Int /\ l \in Int /\ Len(s) \in Int
      BY <1>2
    <3> HIDE DEF d, l
    <3> QED  BY <1>4, <1>5, <1>6, <3>1, <3>2, <3>3
  <2>2. IsCat(d, head, q)
    BY <1>12
  <2> HIDE DEF d
  <2>3. ASSUME NEW k \in 1..Len(all)  PROVE d[k] = all[k]
    <3>0. all[k] = s[i + k - 1]
      BY <1>6
    <3>1. CASE k <= c - i
      <4>1. k \in 1..Len(head) /\ k \in 1..Len(p)
        BY <1>1, <1>2, <1>4, <2>1, <3>1
      <4>2. d[k] = head[k] /\ head[k] = p[k]
        BY <1>11, <2>2, <4>1 DEF IsCat
      <4> QED  BY <1>4, <3>0, <4>1, <4>2
    <3>2. CASE c - i < k /\ k <= (c - i) + l
      <4> DEFINE e == k - (c - i)
      <4>1. /\ k \in 1..Len(head) /\ e \in 1..Len(sep) /\ Len(p) + e = k
            /\ c + e - 1 = i + k - 1
        BY <1>1, <1>2, <1>4, <2>1, <3>2
      <4> HIDE DEF e
      <4>2. d[k] = head[k]
        BY <2>2, <4>1 DEF IsCat
      <4>3. head[k] = sep[e]
        BY <1>11, <4>1 DEF IsCat
      <4>4. s[c + e - 1] = sep[e]
        BY <1>3, <4>1 DEF OccursAt, c
      <4> QED  BY <3>0, <4>1, <4>2, <4>3, <4>4
    <3>3. CASE (c - i) + l < k
      <4> DEFINE e == k - ((c - i) + l)
      <4>1. /\ e \in 1..Len(q) /\ e \in 1..(Len(s) + 1 - (c + l)) /\ Len(head) + e = k
            /\ c + l + e - 1 = i + k - 1
        BY <1>1, <1>2, <1>5, <1>6, <2>1, <3>3
      <4> HIDE DEF e
      <4>2. d[k] = q[e]
        BY <2>2, <4>1 DEF IsCat
      <4>3. q[e] = s[c + l + e - 1]
        BY <1>5, <4>1
      <4> QED  BY <3>0, <4>1, <4>2, <4>3
    <3>4. k \in Int /\ c \in Int /\ l \in Int
      BY <1>2
    <3> QED  BY <3>1, <3>2, <3>3, <3>4
  <2>4. d = all
    BY <1>6, <2>1, <2>3, SeqEqual
  <2> QED  BY <2>4 DEF d
<1>14. Occurrences(p, sep) = {}
  <2> SUFFICES ASSUME NEW j \in Occurrences(p, sep)  PROVE FALSE
    OBVIOUS
  <2>1. c - 1 \in (i - 1)..Len(s)
    BY <1>1, <1>2
  <2>2. /\ i + j - 1 \in Occurrences(s, sep) /\ j >= 1
        /\ i + j - 1 + Len(sep) <= (c - 1) + 1
    BY <2>1, OccursWithin DEF p
  <2>3. j \in Int
    BY <1>4, OccurrencesInText
  <2>4. i + j - 1 \in Ahead(s, sep, i)
    BY <2>2, <2>3 DEF Ahead
  <2>5. c <= i + j - 1
    BY <1>1, <2>4
  <2> QED  BY <1>2, <2>2, <2>3, <2>5
<1>15. ASSUME NEW n \in 1..Len(parts)  PROVE Occurrences(parts[n], sep) = {}
  <2>1. CASE n = 1
    <3>1. parts[n] = p
      BY <1>8, <1>9, <2>1 DEF IsCat
    <3> QED  BY <1>14, <3>1
  <2>2. CASE n # 1
    <3>1. n - 1 \in 1..Len(rest) /\ Len(one) + (n - 1) = n
      BY <1>7, <1>8, <1>9, <2>2 DEF IsCat
    <3>2. parts[n] = rest[n - 1]
      BY <1>9, <3>1 DEF IsCat
    <3> QED  BY <1>7, <3>1, <3>2
  <2> QED  BY <2>1, <2>2
<1>16. parts # <<>>
  <2>1. Len(parts) # 0
    BY <1>7, <1>8, <1>9 DEF IsCat
  <2> QED  BY <2>1
<1>17. Joined(parts, sep) = all
  BY <1>10, <1>13
<1>18. PiecesOf(parts, s, sep, i, C)
  BY <1>9, <1>15, <1>16, <1>17 DEF PiecesOf, all
<1> QED  BY <1>18 DEF parts, one, p, c

\* From the end back to the beginning.
LEMMA AllPieces ==
    ASSUME NEW C, NEW s \in Seq(C), NEW sep \in Seq(C), sep # <<>>,
           NEW g, PiecesFrom(g, s, sep, 1)
    PROVE  PiecesOf(g[1], s, sep, 1, C)
<1> DEFINE L == Len(s) + 1
           Bad == {m \in Nat : m < L /\ ~PiecesOf(g[L - m], s, sep, L - m, C)}
<1>1. L \in Nat /\ L > 0
  OBVIOUS
<1>2. SUFFICES ASSUME Bad # {}  PROVE FALSE
  <2>1. L - 1 \in Nat /\ L - 1 < L /\ L - 1 \notin Bad
    BY <1>1, <1>2
  <2>2. L - (L - 1) = 1
    BY <1>1
  <2> QED  BY <2>1, <2>2
<1>3. PICK m \in Bad : \A k \in Bad : m <= k
  <2>1. Bad \in SUBSET Nat
    OBVIOUS
  <2> HIDE DEF Bad
  <2> QED  BY <1>2, <2>1, Least
<1> DEFINE i == L - m
<1>4. i \in 1..(Len(s) + 1) /\ ~PiecesOf(g[i], s, sep, i, C)
  BY <1>1, <1>3
<1>5. \A j \in (i + 1)..(Len(s) + 1) : PiecesOf(g[j], s, sep, j, C)
  <2> SUFFICES ASSUME NEW j \in (i + 1)..(Len(s) + 1)
               PROVE  PiecesOf(g[j], s, sep, j, C)
    OBVIOUS
  <2>1. L - j \in Nat /\ L - j < L /\ L - j < m /\ L - (L - j) = j
    BY <1>1, <1>3
  <2>2. L - j \notin Bad
    BY <1>3, <2>1
  <2> QED  BY <2>1, <2>2
<1> HIDE DEF i
<1>6. g[i] = PiecesAt(g, s, sep, i)
  BY <1>4, PiecesFromAre
<1>7. CASE Ahead(s, sep, i) = {}
  <2>1. g[i] = <<SubSeq(s, i, Len(s))>>
    BY <1>6, <1>7 DEF PiecesAt, Ahead
  <2> QED  BY <1>4, <1>7, <2>1, LastPiece
<1>8. CASE Ahead(s, sep, i) # {}
  <2> DEFINE j == Cut(s, sep, i) + Len(sep)
  <2>1. g[i] = Cat(<<SubSeq(s, i, Cut(s, sep, i) - 1)>>, g[j])
    BY <1>6, <1>8 DEF PiecesAt, Ahead, Cut, Cat
  <2>2. j \in (i + 1)..(Len(s) + 1)
    <3>1. Cut(s, sep, i) \in Occurrences(s, sep) /\ i <= Cut(s, sep, i)
      BY <1>4, <1>8, NextCut DEF Ahead
    <3>2. Len(sep) \in Nat /\ Len(sep) > 0
      BY EmptySeq
    <3> QED  BY <1>4, <3>1, <3>2, OccurrencesInText
  <2>3. PiecesOf(g[j], s, sep, j, C)
    BY <1>5, <2>2
  <2> QED  BY <1>4, <1>8, <2>1, <2>3, NextPiece
<1> QED  BY <1>4, <1>7, <1>8

LEMMA PiecesMeet ==
    ASSUME NEW C, NEW s \in Seq(C), NEW sep \in Seq(C), sep # <<>>
    PROVE  /\ Pieces(s, sep) \in Seq(Seq(C)) /\ Pieces(s, sep) # <<>>
           /\ Joined(Pieces(s, sep), sep) = s
           /\ \A n \in 1..Len(Pieces(s, sep)) : Occurrences(Pieces(s, sep)[n], sep) = {}
<1> DEFINE g == CHOOSE g : PiecesFrom(g, s, sep, 1)
<1>1. Pieces(s, sep) = g[1]
  BY DEF Pieces, PiecesFrom
<1>2. PiecesFrom(g, s, sep, 1)
  BY PiecesFromExist
<1> HIDE DEF g
<1>3. PiecesOf(g[1], s, sep, 1, C)
  BY <1>2, AllPieces
<1>4. SubSeq(s, 1, Len(s)) = s
  BY SubSeqFull
<1> QED  BY <1>1, <1>3, <1>4 DEF PiecesOf

\* The characters of a text, joined by nothing.
LEMMA CharactersMeet ==
    ASSUME NEW C, NEW s \in Seq(C)
    PROVE  /\ Pieces(s, <<>>) \in Seq(Seq(C))
           /\ Joined(Pieces(s, <<>>), <<>>) = s
<1> DEFINE parts == [i \in DOMAIN s |-> <<s[i]>>]
<1>1. Pieces(s, <<>>) = parts
  BY DEF Pieces
<1>2. DOMAIN s = 1..Len(s) /\ Len(s) \in Nat
  OBVIOUS
<1>3. \A i \in 1..Len(s) : <<s[i]>> \in Seq(C)
  OBVIOUS
<1>4. /\ parts \in Seq(Seq(C)) /\ Len(parts) = Len(s)
      /\ \A i \in 1..Len(s) : parts[i] = <<s[i]>>
  BY <1>2, <1>3
<1> HIDE DEF parts
<1>5. Joined(parts, <<>>) = s
  <2>1. CASE s = <<>>
    <3>1. parts = <<>>
      BY <1>4, <2>1
    <3> QED  BY <2>1, <3>1 DEF Joined
  <2>2. CASE s # <<>>
    <3>1. Len(s) > 0 /\ parts # <<>>
      BY <1>2, <1>4, <2>2, EmptySeq
    <3>2. <<>> \in Seq(C)
      OBVIOUS
    <3>3. PICK u : JoinedIn(u, parts, <<>>)
      BY <1>4, <3>1, <3>2, JoinedSteps
    <3>4. \A m \in 1..Len(s) : u[m] \in Seq(C)
      BY <1>4, <3>1, <3>2, <3>3, JoinedIsText
    <3> DEFINE Right(m) == Len(u[m]) = m /\ \A k \in 1..m : u[m][k] = s[k]
               Bad == {m \in 1..Len(s) : ~Right(m)}
    <3>5. Bad = {}
      <4>1. SUFFICES ASSUME Bad # {}  PROVE FALSE
        OBVIOUS
      <4>2. PICK m \in Bad : \A k \in Bad : m <= k
        <5>1. Bad \in SUBSET Nat
          OBVIOUS
        <5> HIDE DEF Bad
        <5> QED  BY <4>1, <5>1, Least
      <4>3. CASE m = 1
        <5>1. u[1] = <<s[1]>>
          BY <1>2, <1>4, <3>1, <3>3 DEF JoinedIn
        <5>2. Len(<<s[1]>>) = 1 /\ <<s[1]>>[1] = s[1]
          OBVIOUS
        <5>3. Len(u[m]) = m /\ \A k \in 1..m : u[m][k] = s[k]
          BY <4>3, <5>1, <5>2
        <5> QED  BY <4>2, <5>3
      <4>4. CASE m # 1
        <5>1. m - 1 \in 1..Len(s) /\ m - 1 \notin Bad /\ m \in 2..Len(parts)
          BY <1>4, <4>2, <4>4
        <5>2. Len(u[m - 1]) = m - 1 /\ \A k \in 1..(m - 1) : u[m - 1][k] = s[k]
          BY <5>1
        <5>3. u[m] = Cat(Cat(u[m - 1], <<>>), <<s[m]>>)
          BY <1>4, <3>3, <5>1 DEF JoinedIn
        <5> DEFINE a == u[m - 1]
                   e == <<s[m]>>
                   b == Cat(a, <<>>)
        <5>4. a \in Seq(C) /\ e \in Seq(C) /\ Len(e) = 1 /\ e[1] = s[m]
          BY <3>4, <5>1
        <5>5. b \in Seq(C) /\ IsCat(b, a, <<>>) /\ IsCat(u[m], b, e)
          <6>1. b \in Seq(C) /\ IsCat(b, a, <<>>)
            BY <3>2, <5>4, CatIs
          <6> HIDE DEF a, b, e
          <6>2. IsCat(Cat(b, e), b, e)
            BY <5>4, <6>1, CatIs
          <6> QED  BY <5>3, <6>1, <6>2 DEF a, b, e
        <5>6. Len(a) = m - 1 /\ \A k \in 1..(m - 1) : a[k] = s[k]
          BY <5>2
        <5> HIDE DEF a, b, e
        <5>7. Len(b) = m - 1 /\ \A k \in 1..(m - 1) : b[k] = s[k]
          <6>1. Len(<<>>) = 0
            OBVIOUS
          <6> QED  BY <5>1, <5>5, <5>6, <6>1 DEF IsCat
        <5>8. Len(u[m]) = m /\ \A k \in 1..(m - 1) : u[m][k] = s[k]
          BY <5>1, <5>4, <5>5, <5>7 DEF IsCat
        <5>9. u[m][m] = s[m]
          <6>1. Len(b) + 1 = m /\ 1 \in 1..Len(e)
            BY <5>1, <5>4, <5>7
          <6> QED  BY <5>4, <5>5, <6>1 DEF IsCat
        <5>10. Right(m)
          <6>1. \A k \in 1..m : k \in 1..(m - 1) \/ k = m
            BY <5>1
          <6> QED  BY <5>8, <5>9, <6>1
        <5> QED  BY <4>2, <5>10
      <4> QED  BY <4>3, <4>4
    <3>6. Len(s) \in 1..Len(s) /\ u[Len(s)] \in Seq(C)
      BY <1>2, <3>1, <3>4
    <3>7. Right(Len(s))
      BY <3>5, <3>6
    <3>8. u[Len(s)] = s
      BY <3>6, <3>7, SeqEqual
    <3> QED  BY <1>4, <3>3, <3>8 DEF JoinedIn
  <2> QED  BY <2>1, <2>2
<1> QED  BY <1>1, <1>4, <1>5

LEMMA SplitJoined ==
    ASSUME NEW C, NEW s \in Seq(C), NEW sep \in Seq(C)
    PROVE  /\ Pieces(s, sep) \in Seq(Seq(C))
           /\ Joined(Pieces(s, sep), sep) = s
<1>1. CASE sep = <<>>
  BY <1>1, CharactersMeet
<1>2. CASE sep # <<>>
  BY <1>2, PiecesMeet
<1> QED  BY <1>1, <1>2

-----------------------------------------------------------------------------
(* What the builtins on texts return.                                      *)

LEMMA SplitThenJoin ==
    ASSUME NEW v, NEW t, NEW w \in split(v, String(t)), w # Error,
           NEW r \in join(w, String(t)), r \notin {Error, Panic}
    PROVE  r = v
<1> DEFINE s == v.string
           parts == Pieces(s, t)
           texts == [i \in DOMAIN parts |-> String(parts[i])]
<1>1. String(t).string = t
  BY DEF String
<1>2. IsText(v) /\ IsText(String(t)) /\ w = Array(texts)
  <2>1. Strings(<<v, String(t)>>)
    BY DEF split
  <2>2. w = Array(texts)
    BY <1>1, <2>1 DEF split
  <2>3. \A i \in DOMAIN <<v, String(t)>> : IsText(<<v, String(t)>>[i])
    BY <2>1 DEF Strings
  <2>4. IsText(<<v, String(t)>>[1]) /\ IsText(<<v, String(t)>>[2])
    BY <2>3
  <2> QED  BY <2>2, <2>4
<1>3. PICK C : s \in Seq(C) /\ t \in Seq(C)
  BY <1>2, TextIs, Alphabet DEF IsText
<1>4. parts \in Seq(Seq(C)) /\ Joined(parts, t) = s
  BY <1>3, SplitJoined
<1>5. v = String(s)
  BY <1>2 DEF IsText
<1> HIDE DEF parts, s
<1>6. w.array = texts
  BY <1>2 DEF Array
<1>7. [i \in DOMAIN texts |-> texts[i].string] = parts
  <2>1. DOMAIN texts = DOMAIN parts /\ \A i \in DOMAIN parts : texts[i].string = parts[i]
    BY DEF String
  <2>2. parts = [i \in DOMAIN parts |-> parts[i]]
    BY <1>4
  <2> HIDE DEF texts
  <2> QED  BY <2>1, <2>2
<1> HIDE DEF texts
<1>8. r = String(Joined([i \in DOMAIN w.array |-> w.array[i].string], t))
  BY <1>1 DEF join
<1> QED  BY <1>4, <1>5, <1>6, <1>7, <1>8

\* Two texts without an occurrence, and between them a text that has no
\* character of it.
LEMMA NothingBetween ==
    ASSUME NEW C, NEW a \in Seq(C), NEW b \in Seq(C), NEW old \in Seq(C), NEW new \in Seq(C),
           old # <<>>, new # <<>>, ToSet(old) \cap ToSet(new) = {},
           Occurrences(a, old) = {}, Occurrences(b, old) = {}
    PROVE  Occurrences(Cat(Cat(a, new), b), old) = {}
<1> DEFINE an == Cat(a, new)
           d == Cat(an, b)
<1>1. an \in Seq(C) /\ IsCat(an, a, new)
  BY CatIs
<1> HIDE DEF an
<1>2. d \in Seq(C) /\ IsCat(d, an, b)
  BY <1>1, CatIs
<1> HIDE DEF d
<1> SUFFICES ASSUME NEW j \in Occurrences(d, old)  PROVE FALSE
  BY DEF d, an
<1>3. OccursAt(d, old, j)
  BY <1>2, OccurrencesAre
<1>4. /\ Len(old) \in Nat /\ Len(old) > 0 /\ Len(new) \in Nat /\ Len(new) > 0
      /\ Len(a) \in Nat /\ Len(b) \in Nat
  BY EmptySeq
<1>5. Len(an) = Len(a) + Len(new) /\ Len(d) = Len(an) + Len(b)
  BY <1>1, <1>2 DEF IsCat
<1>6. j \in 1..(Len(d) + 1) /\ j + Len(old) - 1 <= Len(d)
  BY <1>3 DEF OccursAt
<1>7. \A k \in 1..Len(old), m \in 1..Len(new) : old[k] # new[m]
  <2>1. \A k \in 1..Len(old) : old[k] \in ToSet(old)
    BY DEF ToSet
  <2>2. \A m \in 1..Len(new) : new[m] \in ToSet(new)
    BY DEF ToSet
  <2> QED  BY <2>1, <2>2
<1>8. \A m \in 1..Len(new) : d[Len(a) + m] = new[m]
  <2> SUFFICES ASSUME NEW m \in 1..Len(new)  PROVE d[Len(a) + m] = new[m]
    OBVIOUS
  <2>1. Len(a) + m \in 1..Len(an)
    BY <1>4, <1>5
  <2>2. d[Len(a) + m] = an[Len(a) + m]
    BY <1>2, <2>1 DEF IsCat
  <2> QED  BY <1>1, <2>2 DEF IsCat
<1>9. \A k \in 1..Len(old) : d[j + k - 1] = old[k]
  BY <1>3 DEF OccursAt
<1>10. CASE j + Len(old) - 1 <= Len(a)
  <2>1. ASSUME NEW k \in 1..Len(old)  PROVE a[j + k - 1] = old[k]
    <3>1. j + k - 1 \in 1..Len(a) /\ j + k - 1 \in 1..Len(an)
      BY <1>4, <1>5, <1>6, <1>10
    <3>2. d[j + k - 1] = an[j + k - 1] /\ an[j + k - 1] = a[j + k - 1]
      BY <1>1, <1>2, <3>1 DEF IsCat
    <3> QED  BY <1>9, <3>2
  <2>2. OccursAt(a, old, j)
    BY <1>4, <1>6, <1>10, <2>1 DEF OccursAt
  <2> QED  BY <2>2, OccurrencesAre
<1>11. CASE Len(an) < j
  <2> DEFINE i == j - Len(an)
  <2>1. i \in 1..(Len(b) + 1) /\ i + Len(old) - 1 <= Len(b)
    BY <1>4, <1>5, <1>6, <1>11
  <2>2. ASSUME NEW k \in 1..Len(old)  PROVE b[i + k - 1] = old[k]
    <3>1. i + k - 1 \in 1..Len(b) /\ Len(an) + (i + k - 1) = j + k - 1
      BY <1>4, <1>5, <1>6, <2>1
    <3> HIDE DEF i
    <3>2. d[Len(an) + (i + k - 1)] = b[i + k - 1]
      BY <1>2, <3>1 DEF IsCat
    <3> QED  BY <1>9, <3>1, <3>2
  <2> HIDE DEF i
  <2>3. OccursAt(b, old, i)
    BY <2>1, <2>2 DEF OccursAt
  <2> QED  BY <2>3, OccurrencesAre
<1>12. CASE Len(a) < j /\ j <= Len(an)
  <2>1. j - Len(a) \in 1..Len(new) /\ Len(a) + (j - Len(a)) = j /\ 1 \in 1..Len(old)
        /\ j + 1 - 1 = j
    BY <1>4, <1>5, <1>6, <1>12
  <2>2. d[j] = old[1]
    BY <1>9, <2>1
  <2>3. d[j] = new[j - Len(a)]
    BY <1>8, <2>1
  <2> QED  BY <1>7, <2>1, <2>2, <2>3
<1>13. CASE j <= Len(a) /\ Len(a) < j + Len(old) - 1
  <2> DEFINE k == Len(a) + 2 - j
  <2>1. k \in 1..Len(old) /\ j + k - 1 = Len(a) + 1 /\ 1 \in 1..Len(new)
    BY <1>4, <1>6, <1>13
  <2> HIDE DEF k
  <2>2. d[Len(a) + 1] = old[k]
    BY <1>9, <2>1
  <2>3. d[Len(a) + 1] = new[1]
    BY <1>8, <2>1
  <2> QED  BY <1>7, <2>1, <2>2, <2>3
<1> QED  BY <1>4, <1>5, <1>6, <1>10, <1>11, <1>12, <1>13

LEMMA JoinedWithout ==
    ASSUME NEW C, NEW parts \in Seq(Seq(C)), parts # <<>>,
           NEW old \in Seq(C), NEW new \in Seq(C),
           old # <<>>, new # <<>>, ToSet(old) \cap ToSet(new) = {},
           \A n \in 1..Len(parts) : Occurrences(parts[n], old) = {}
    PROVE  Joined(parts, new) \in Seq(C) /\ Occurrences(Joined(parts, new), old) = {}
<1>1. PICK u : JoinedIn(u, parts, new)
  BY JoinedSteps
<1>2. \A m \in 1..Len(parts) : u[m] \in Seq(C)
  BY <1>1, JoinedIsText
<1> DEFINE Bad == {m \in 1..Len(parts) : Occurrences(u[m], old) # {}}
<1>3. Bad = {}
  <2>1. SUFFICES ASSUME Bad # {}  PROVE FALSE
    OBVIOUS
  <2>2. PICK m \in Bad : \A k \in Bad : m <= k
    <3>1. Bad \in SUBSET Nat
      OBVIOUS
    <3> HIDE DEF Bad
    <3> QED  BY <2>1, <3>1, Least
  <2>3. m # 1
    BY <1>1, <2>2 DEF JoinedIn
  <2>4. m - 1 \in 1..Len(parts) /\ m - 1 \notin Bad /\ m \in 2..Len(parts)
    <3>1. m \in 1..Len(parts)
      BY <2>2
    <3>2. m - 1 \in 1..Len(parts) /\ ~(m <= m - 1) /\ m \in 2..Len(parts)
      BY <2>3, <3>1
    <3> HIDE DEF Bad
    <3> QED  BY <2>2, <3>2
  <2>5. Occurrences(u[m - 1], old) = {} /\ u[m - 1] \in Seq(C) /\ parts[m] \in Seq(C)
    BY <1>2, <2>4
  <2>6. Occurrences(Cat(Cat(u[m - 1], new), parts[m]), old) = {}
    BY <2>4, <2>5, NothingBetween
  <2>7. u[m] = Cat(Cat(u[m - 1], new), parts[m])
    BY <1>1, <2>4 DEF JoinedIn
  <2> QED  BY <2>2, <2>6, <2>7
<1>4. Len(parts) \in 1..Len(parts)
  BY EmptySeq
<1>5. Occurrences(u[Len(parts)], old) = {} /\ u[Len(parts)] \in Seq(C)
  BY <1>2, <1>3, <1>4
<1> QED  BY <1>1, <1>5 DEF JoinedIn

LEMMA ReplacedIsGone ==
    ASSUME NEW v, NEW old, NEW new, NEW r \in replace_all(v, String(old), String(new)),
           r # Error, old # <<>>, new # <<>>, ToSet(old) \cap ToSet(new) = {}
    PROVE  contains(r, String(old)) = {Bool(FALSE)}
<1> DEFINE s == v.string
           parts == Pieces(s, old)
           d == Joined(parts, new)
<1>1. String(old).string = old /\ String(new).string = new
  BY DEF String
<1>2. IsText(v) /\ IsText(String(old)) /\ IsText(String(new)) /\ r = String(d)
  <2> DEFINE args == <<v, String(old), String(new)>>
  <2>1. Strings(args)
    BY DEF replace_all
  <2>2. r = String(d)
    BY <1>1, <2>1 DEF replace_all
  <2>3. \A i \in DOMAIN args : IsText(args[i])
    BY <2>1 DEF Strings
  <2>4. IsText(args[1]) /\ IsText(args[2]) /\ IsText(args[3])
    BY <2>3
  <2> QED  BY <2>2, <2>4
<1>3. IsSequence(s) /\ IsSequence(old) /\ IsSequence(new)
  BY <1>2, TextIs DEF IsText
<1> DEFINE C == Range(s) \cup Range(old) \cup Range(new)
<1>4. s \in Seq(C) /\ old \in Seq(C) /\ new \in Seq(C)
  BY <1>3, SequenceIs
<1> HIDE DEF C, s
<1>5. /\ parts \in Seq(Seq(C)) /\ parts # <<>>
      /\ \A n \in 1..Len(parts) : Occurrences(parts[n], old) = {}
  BY <1>4, PiecesMeet
<1> HIDE DEF parts
<1>6. d \in Seq(C) /\ Occurrences(d, old) = {}
  BY <1>4, <1>5, JoinedWithout
<1> HIDE DEF d
<1>7. IsText(r) /\ r.string = d
  <2>1. IsSequence(d)
    BY <1>6, Sequences
  <2> QED  BY <1>2, <2>1 DEF IsText, String, Is
<1>8. Strings(<<r, String(old)>>)
  <2>1. \A i \in DOMAIN <<r, String(old)>> : i = 1 \/ i = 2
    OBVIOUS
  <2>2. \A i \in DOMAIN <<r, String(old)>> : IsText(<<r, String(old)>>[i])
    BY <1>2, <1>7, <2>1
  <2> QED  BY <2>2 DEF Strings
<1>9. contains(r, String(old)) = {Bool(Occurrences(d, old) # {})}
  BY <1>1, <1>7, <1>8 DEF contains
<1>10. (Occurrences(d, old) # {}) = FALSE
  BY <1>6
<1> QED  BY <1>9, <1>10

\* What trim keeps: all characters from the first one that is not white space
\* to the last one.
TrimMeets(v, r) ==
    /\ r.string # <<>> => Space \notin {r.string[1], Last(r.string)}
    /\ \E i \in Occurrences(v.string, r.string) :
          \A j \in DOMAIN v.string \ (i..(i + Len(r.string) - 1)) : v.string[j] = Space

LEMMA MinMaxOfPlaces ==
    ASSUME NEW n \in Nat, NEW T \in SUBSET (1..n), T # {}
    PROVE  /\ Min(T) \in T /\ \A j \in T : Min(T) <= j
           /\ Max(T) \in T /\ \A j \in T : j <= Max(T)
<1>1. \E i \in T : \A j \in T : i <= j
  <2>1. T \in SUBSET Nat
    OBVIOUS
  <2> QED  BY <2>1, Least
<1>2. \E i \in T : \A j \in T : j <= i
  <2> DEFINE D == {n - j : j \in T}
  <2>1. D \in SUBSET Nat /\ D # {}
    <3>1. PICK j \in T : TRUE
      OBVIOUS
    <3>2. n - j \in D
      OBVIOUS
    <3>3. \A k \in T : n - k \in Nat
      OBVIOUS
    <3> QED  BY <3>2, <3>3
  <2>2. PICK d \in D : \A e \in D : d <= e
    <3> HIDE DEF D
    <3> QED  BY <2>1, Least
  <2>3. PICK i \in T : d = n - i
    OBVIOUS
  <2>4. ASSUME NEW j \in T  PROVE j <= i
    <3>1. n - j \in D
      OBVIOUS
    <3>2. n - i <= n - j
      BY <2>2, <2>3, <3>1
    <3>3. i \in Int /\ j \in Int
      OBVIOUS
    <3> QED  BY <3>2, <3>3
  <2> QED  BY <2>4
<1> QED  BY <1>1, <1>2 DEF Min, Max

LEMMA TrimMeetsDoc ==
    ASSUME NEW v, NEW r \in trim(v), r # Error
    PROVE  TrimMeets(v, r)
<1> DEFINE s == v.string
           ink == {i \in DOMAIN s : s[i] # Space}
           d == IF ink = {} THEN <<>> ELSE SubSeq(s, Min(ink), Max(ink))
<1>1. IsText(v) /\ r = String(d)
  <2>1. IsText(v)
    BY DEF trim
  <2> QED  BY <2>1 DEF trim
<1>2. s \in Seq(Range(s)) /\ Len(s) \in Nat
  BY <1>1, SequenceIs DEF IsText
<1>3. r.string = d
  BY <1>1 DEF String
<1>4. DOMAIN s = 1..Len(s)
  BY <1>2
<1> DEFINE C == Range(s)
<1> HIDE DEF s, d, C
<1>5. s \in Seq(C)
  BY <1>2 DEF C
<1>6. CASE ink = {}
  <2>1. d = <<>>
    BY <1>6 DEF d
  <2>2. 1 \in Occurrences(s, <<>>)
    <3>1. <<>> \in Seq(C) /\ Len(<<>>) = 0
      OBVIOUS
    <3>2. OccursAt(s, <<>>, 1)
      BY <1>2, <3>1 DEF OccursAt
    <3> QED  BY <1>5, <3>1, <3>2, OccurrencesAre
  <2>3. \A j \in DOMAIN s : s[j] = Space
    BY <1>6
  <2> QED  BY <1>3, <2>1, <2>2, <2>3 DEF TrimMeets, s
<1>7. CASE ink # {}
  <2> DEFINE a == Min(ink)
             b == Max(ink)
  <2>1. a \in ink /\ b \in ink /\ \A j \in ink : a <= j /\ j <= b
    <3>1. ink \in SUBSET (1..Len(s))
      BY <1>4
    <3> HIDE DEF ink
    <3> QED  BY <1>2, <1>7, <3>1, MinMaxOfPlaces
  <2> HIDE DEF a, b
  <2>2. a \in 1..Len(s) /\ b \in a..Len(s) /\ s[a] # Space /\ s[b] # Space
    BY <1>4, <2>1
  <2>3. d = SubSeq(s, a, b)
    BY <1>7 DEF d, a, b
  <2>4. /\ d \in Seq(C) /\ Len(d) = b - a + 1
        /\ \A k \in 1..(b - a + 1) : d[k] = s[a + k - 1]
    <3>1. a \in 1..(Len(s) + 1) /\ b \in (a - 1)..Len(s)
      BY <1>2, <2>2
    <3> QED  BY <1>5, <2>3, <3>1, PartOf
  <2>5. d[1] = s[a] /\ d[Len(d)] = s[b]
    <3>1. 1 \in 1..(b - a + 1) /\ a + 1 - 1 = a
      BY <2>2
    <3>2. Len(d) \in 1..(b - a + 1) /\ a + Len(d) - 1 = b
      BY <2>2, <2>4
    <3> QED  BY <2>4, <3>1, <3>2
  <2>6. Space \notin {d[1], Last(d)}
    BY <2>2, <2>5 DEF Last
  <2>7. a \in Occurrences(s, d)
    <3>1. a \in 1..(Len(s) + 1) /\ a + Len(d) - 1 <= Len(s)
      BY <1>2, <2>2, <2>4
    <3>2. OccursAt(s, d, a)
      BY <2>4, <3>1 DEF OccursAt
    <3> QED  BY <1>5, <2>4, <3>2, OccurrencesAre
  <2>8. ASSUME NEW j \in DOMAIN s \ (a..(a + Len(d) - 1))  PROVE s[j] = Space
    <3>1. j \in 1..Len(s) /\ ~(a <= j /\ j <= b)
      BY <1>4, <2>2, <2>4
    <3> QED  BY <1>4, <2>1, <3>1
  <2> QED  BY <1>3, <2>6, <2>7, <2>8 DEF TrimMeets, s
<1> QED  BY <1>6, <1>7

\* What was encoded is decoded again.
LEMMA DecodedAgain ==
    ASSUME NEW v, NEW name, NEW w \in encode(v, name), w # Error,
           NEW r \in decode(w, name), r # Error
    PROVE  r = IF Is(v, "bytes") THEN v ELSE Bytes(v.string)
<1> DEFINE t == IF IsText(v) THEN v.string ELSE v.bytes
           e == Encoding(name, t)
<1>1. IsText(v) \/ IsBytes(v)
  BY DEF encode
<1>2. IsText(v) => ~Is(v, "bytes")
  BY DEF IsText, Is
<1>3. IsSequence(t)
  BY <1>1 DEF IsText, IsBytes
<1>4. w = String(e)
  BY <1>1, <1>2 DEF encode, IsBytes
<1>5. IF Is(v, "bytes") THEN v = Bytes(t) ELSE t = v.string
  BY <1>1, <1>2 DEF IsText, IsBytes
<1> HIDE DEF t
<1>6. r = Bytes(t)
  <2> HIDE DEF e
  <2>1. w.string = e
    BY <1>4 DEF String
  <2>2. r \in CASE e = <<>> -> {Bytes(<<>>)}
                [] e # <<>> /\ e[1] = name -> {Bytes(Tail(e))}
                [] OTHER -> {Error, Bytes(<<"garbled">>)}
    BY <2>1 DEF decode
  <2>3. CASE t = <<>>
    <3>1. e = <<>>
      BY <2>3 DEF e, Encoding
    <3> QED  BY <2>2, <2>3, <3>1
  <2>4. CASE t # <<>>
    <3> DEFINE D == Range(t) \cup {name}
    <3>1. t \in Seq(D) /\ <<name>> \in Seq(D)
      BY <1>3, SequenceIs
    <3>2. e = Cat(<<name>>, t)
      BY <2>4 DEF e, Encoding, Cat
    <3> HIDE DEF D
    <3> DEFINE one == <<name>>
    <3>3. one \in Seq(D) /\ Len(one) = 1 /\ one[1] = name
      BY <3>1
    <3> HIDE DEF one
    <3>4. e \in Seq(D) /\ IsCat(e, one, t)
      BY <3>1, <3>2, <3>3, CatIs DEF one
    <3>5. e[1] = name /\ Len(e) = 1 + Len(t) /\ \A k \in 1..Len(t) : e[1 + k] = t[k]
      BY <3>3, <3>4 DEF IsCat
    <3>6. e # <<>>
      <4>1. Len(t) \in Nat /\ Len(e) # 0
        BY <3>1, <3>5
      <4> QED  BY <4>1
    <3>7. Tail(e) = t
      <4>1. /\ Tail(e) \in Seq(D) /\ Len(Tail(e)) = Len(e) - 1
            /\ \A k \in 1..Len(Tail(e)) : Tail(e)[k] = e[k + 1]
        BY <3>4, <3>6, HeadTailProperties
      <4>2. Len(Tail(e)) = Len(t) /\ Len(t) \in Nat
        BY <3>1, <3>5, <4>1
      <4>3. \A k \in 1..Len(t) : Tail(e)[k] = t[k]
        <5> SUFFICES ASSUME NEW k \in 1..Len(t)  PROVE Tail(e)[k] = t[k]
          OBVIOUS
        <5>1. k + 1 = 1 + k
          OBVIOUS
        <5> QED  BY <3>5, <4>1, <4>2, <5>1
      <4> QED  BY <3>1, <4>1, <4>2, <4>3, SeqEqual
    <3> QED  BY <2>2, <3>5, <3>6, <3>7
  <2> QED  BY <2>3, <2>4
<1> QED  BY <1>5, <1>6

LEMMA SuffixOf ==
    ASSUME NEW C, NEW p \in Seq(C), NEW s \in Seq(C)
    PROVE  IsSuffix(s, Cat(p, s))
<1> DEFINE d == Cat(p, s)
           b == Reverse(s)
           e == Reverse(d)
<1>1. d \in Seq(C) /\ IsCat(d, p, s)
  BY CatIs
<1> HIDE DEF d
<1>2. Len(d) = Len(p) + Len(s) /\ Len(p) \in Nat /\ Len(s) \in Nat /\ Len(d) \in Nat
  BY <1>1 DEF IsCat
<1>3. /\ b \in Seq(C) /\ Len(b) = Len(s)
      /\ \A i \in 1..Len(s) : b[i] = s[(Len(s) - i) + 1]
  BY <1>2 DEF Reverse
<1>4. /\ e \in Seq(C) /\ Len(e) = Len(d)
      /\ \A i \in 1..Len(d) : e[i] = d[(Len(d) - i) + 1]
  BY <1>1, <1>2 DEF Reverse
<1> HIDE DEF b, e
<1>5. ASSUME NEW i \in 1..Len(s)  PROVE e[i] = b[i]
  <2> DEFINE k == (Len(s) - i) + 1
  <2>1. k \in 1..Len(s) /\ i \in 1..Len(d) /\ (Len(d) - i) + 1 = Len(p) + k
    BY <1>2
  <2>2. d[Len(p) + k] = s[k]
    BY <1>1, <2>1 DEF IsCat
  <2> QED  BY <1>3, <1>4, <2>1, <2>2
<1>6. SubSeq(b, 1, Len(b)) = SubSeq(e, 1, Len(b))
  <2>1. Len(b) \in (1 - 1)..Len(b) /\ Len(b) \in (1 - 1)..Len(e) /\ 1 \in 1..(Len(b) + 1) /\ 1 \in 1..(Len(e) + 1)
        /\ Len(b) - 1 + 1 = Len(b)
    BY <1>2, <1>3, <1>4
  <2> DEFINE f == SubSeq(b, 1, Len(b))
             g == SubSeq(e, 1, Len(b))
  <2>2. /\ f \in Seq(C) /\ Len(f) = Len(b) - 1 + 1
        /\ \A k \in 1..(Len(b) - 1 + 1) : f[k] = b[1 + k - 1]
    BY <1>3, <2>1, PartOf
  <2>3. /\ g \in Seq(C) /\ Len(g) = Len(b) - 1 + 1
        /\ \A k \in 1..(Len(b) - 1 + 1) : g[k] = e[1 + k - 1]
    BY <1>4, <2>1, PartOf
  <2> HIDE DEF f, g
  <2>4. Len(f) = Len(g) /\ \A k \in 1..Len(f) : f[k] = g[k]
    <3>1. \A k \in 1..Len(b) : 1 + k - 1 = k
      BY <1>3
    <3> QED  BY <1>3, <1>5, <2>1, <2>2, <2>3, <3>1
  <2>5. f = g
    BY <2>2, <2>3, <2>4, SeqEqual
  <2> QED  BY <2>5 DEF f, g
<1>7. Len(b) <= Len(e)
  BY <1>2, <1>3, <1>4
<1>8. IsPrefix(b, e)
  BY <1>6, <1>7 DEF IsPrefix
<1> QED  BY <1>8 DEF IsSuffix, b, e, d

LEMMA PrefixOf ==
    ASSUME NEW C, NEW s \in Seq(C), NEW p \in Seq(C)
    PROVE  IsPrefix(s, Cat(s, p))
<1> DEFINE d == Cat(s, p)
           f == SubSeq(s, 1, Len(s))
           g == SubSeq(d, 1, Len(s))
<1>1. d \in Seq(C) /\ IsCat(d, s, p)
  BY CatIs
<1> HIDE DEF d
<1>2. Len(d) = Len(s) + Len(p) /\ Len(s) \in Nat /\ Len(p) \in Nat /\ Len(d) \in Nat
  BY <1>1 DEF IsCat
<1>3. f \in Seq(C) /\ Len(f) = Len(s) /\ \A k \in 1..Len(s) : f[k] = s[k]
  OBVIOUS
<1>4. g \in Seq(C) /\ Len(g) = Len(s) /\ \A k \in 1..Len(s) : g[k] = d[k]
  BY <1>1, <1>2
<1> HIDE DEF f, g
<1>5. \A k \in 1..Len(f) : f[k] = g[k]
  BY <1>1, <1>3, <1>4 DEF IsCat
<1>6. f = g
  BY <1>3, <1>4, <1>5, SeqEqual
<1>7. Len(s) <= Len(d)
  BY <1>2
<1> QED  BY <1>6, <1>7 DEF IsPrefix, f, g, d

PadMeets(v, r, width, pad) ==
    /\ Len(r.string) >= width
    /\ r # v => Len(r.string) < width + Len(pad)

LEMMA PadLeftMeetsDoc ==
    ASSUME NEW v, NEW width, NEW t, NEW r \in pad_left(v, width, String(t)),
           r \notin {Error, Panic}
    PROVE  IsSuffix(v.string, r.string) /\ PadMeets(v, r, width.int, t)
<1> DEFINE s == v.string
           p == Padding(s, width.int, t)
           d == Cat(p, s)
<1>1. PadTypes(v, width, String(t))
  BY DEF pad_left
<1>2. r = String(d)
  BY <1>1 DEF pad_left, String, Cat
<1>3. PICK C : s \in Seq(C) /\ t \in Seq(C)
  BY <1>1, PadTypesAre
<1>4. v = String(s) /\ width.int \in Int /\ t # <<>>
  BY <1>1, PadTypesAre
<1> HIDE DEF s
<1>5. /\ p \in Seq(C) /\ Len(s) + Len(p) >= width.int
      /\ p = <<>> \/ Len(s) + Len(p) < width.int + Len(t)
  BY <1>3, <1>4, PaddingMeets
<1> HIDE DEF p
<1>6. d \in Seq(C) /\ IsCat(d, p, s) /\ IsSuffix(s, d)
  BY <1>3, <1>5, CatIs, SuffixOf
<1>7. p = <<>> => d = s
  BY <1>3, ConcatEmptySeq DEF d, Cat
<1> HIDE DEF d
<1>8. r.string = d
  BY <1>2 DEF String
<1>9. Len(d) = Len(p) + Len(s) /\ Len(p) \in Nat /\ Len(s) \in Nat
  BY <1>3, <1>5, <1>6 DEF IsCat
<1>10. Len(d) >= width.int /\ (r # v => Len(d) < width.int + Len(t))
  BY <1>2, <1>4, <1>5, <1>7, <1>9
<1> QED  BY <1>6, <1>8, <1>10 DEF PadMeets, s

LEMMA PadRightMeetsDoc ==
    ASSUME NEW v, NEW width, NEW t, NEW r \in pad_right(v, width, String(t)),
           r \notin {Error, Panic}
    PROVE  IsPrefix(v.string, r.string) /\ PadMeets(v, r, width.int, t)
<1> DEFINE s == v.string
           p == Padding(s, width.int, t)
           d == Cat(s, p)
<1>1. PadTypes(v, width, String(t))
  BY DEF pad_right
<1>2. r = String(d)
  BY <1>1 DEF pad_right, String, Cat
<1>3. PICK C : s \in Seq(C) /\ t \in Seq(C)
  BY <1>1, PadTypesAre
<1>4. v = String(s) /\ width.int \in Int /\ t # <<>>
  BY <1>1, PadTypesAre
<1> HIDE DEF s
<1>5. /\ p \in Seq(C) /\ Len(s) + Len(p) >= width.int
      /\ p = <<>> \/ Len(s) + Len(p) < width.int + Len(t)
  BY <1>3, <1>4, PaddingMeets
<1> HIDE DEF p
<1>6. d \in Seq(C) /\ IsCat(d, s, p) /\ IsPrefix(s, d)
  BY <1>3, <1>5, CatIs, PrefixOf
<1>7. p = <<>> => d = s
  BY <1>3, ConcatEmptySeq DEF d, Cat
<1> HIDE DEF d
<1>8. r.string = d
  BY <1>2 DEF String
<1>9. Len(d) = Len(p) + Len(s) /\ Len(p) \in Nat /\ Len(s) \in Nat
  BY <1>3, <1>5, <1>6 DEF IsCat
<1>10. Len(d) >= width.int /\ (r # v => Len(d) < width.int + Len(t))
  BY <1>2, <1>4, <1>5, <1>7, <1>9
<1> QED  BY <1>6, <1>8, <1>10 DEF PadMeets, s

\* Texts come out of split and join, replace_all, trim, the pads, encode and
\* decode as string.go and encoding.go document them, whatever the texts.
THEOREM TextsAsDocumented == Spec => []TextsMeetDocs
<1>1. ScriptInv => TextsMeetDocs
  <2> SUFFICES ASSUME ScriptInv  PROVE TextsMeetDocs
    OBVIOUS
  <2>1. ASSUME NEW fn, Returned(fn)
        PROVE  /\ x \notin {Error, Panic} /\ Last(trail).fn = fn
               /\ Returns(fn, Last(trail).args, Was, x)
    BY <2>1 DEF ScriptInv, Returned, Called, Was
  <2>2. ASSUME NEW f, NEW g, ReturnedBoth(f, g)
        PROVE  /\ Was # Error
               /\ Returns(f, trail[Len(trail) - 1].args, Origin, Was)
    <3> DEFINE n == Len(trail) - 1
    <3>1. Len(trail) \in Nat
      BY DEF ScriptInv, TrailOK
    <3>2. n \in 1..(Len(trail) - 1) /\ n + 1 = Len(trail) /\ trail[n].fn = f
      BY <2>2, <3>1 DEF ReturnedBoth
    <3>3. Was = trail[n + 1].was /\ Origin = trail[n].was
      BY <3>2 DEF Was, Last, Origin
    <3>4. /\ trail[n + 1].was \notin {Error, Panic}
          /\ Returns(trail[n].fn, trail[n].args, trail[n].was, trail[n + 1].was)
      <4> HIDE DEF n
      <4> QED  BY <3>2 DEF ScriptInv
    <3> QED  BY <3>2, <3>3, <3>4
  <2>3. ASSUME ReturnedBoth("split", "join"),
               trail[Len(trail) - 1].args = Last(trail).args
        PROVE  x = Origin
    <3>1. PICK s : /\ trail[Len(trail) - 1].args = <<String(s)>>
                   /\ Was \in split(Origin, String(s))
      BY <2>2, <2>3 DEF Returns
    <3>2. x \notin {Error, Panic} /\ Returns("join", Last(trail).args, Was, x)
      BY <2>1, <2>3 DEF ReturnedBoth
    <3>3. PICK t : Last(trail).args = <<String(t)>> /\ x \in join(Was, String(t))
      BY <3>2 DEF Returns
    <3>4. String(s) = String(t)
      <4>1. <<String(s)>> = <<String(t)>>
        BY <2>3, <3>1, <3>3, Zenon
      <4>2. <<String(s)>>[1] = <<String(t)>>[1]
        BY <4>1, Zenon
      <4> QED  BY <4>2
    <3>5. Was # Error
      BY <2>2, <2>3
    <3> QED  BY <3>1, <3>2, <3>3, <3>4, <3>5, SplitThenJoin
  <2>4. ASSUME Returned("replace_all"), Arg(1).string # <<>>, Arg(2).string # <<>>,
               ToSet(Arg(1).string) \cap ToSet(Arg(2).string) = {}
        PROVE  contains(x, Arg(1)) = {Bool(FALSE)}
    <3>1. x # Error
      BY <2>1, <2>4
    <3>2. PICK s, t : /\ Last(trail).args = <<String(s), String(t)>>
                      /\ x \in replace_all(Was, String(s), String(t))
      BY <2>1, <2>4 DEF Returns
    <3>3. Arg(1) = String(s) /\ Arg(1).string = s /\ Arg(2).string = t
      BY <3>2 DEF Arg, String
    <3>4. contains(x, String(s)) = {Bool(FALSE)}
      BY <2>4, <3>1, <3>2, <3>3, ReplacedIsGone
    <3> QED  BY <3>3, <3>4
  <2>5. Returned("trim") => TrimMeets(Was, x)
    BY <2>1, TrimMeetsDoc DEF Returns
  <2>6. ASSUME Returned("pad_left")
        PROVE  /\ IsSuffix(Was.string, x.string)
               /\ PadMeets(Was, x, Arg(1).int, Arg(2).string)
    <3>1. PICK o, t : /\ Last(trail).args = <<o, String(t)>>
                      /\ x \in pad_left(Was, o, String(t))
      BY <2>1, <2>6 DEF Returns
    <3>2. Arg(1) = o /\ Arg(2).string = t
      BY <3>1 DEF Arg, String
    <3> QED  BY <2>1, <2>6, <3>1, <3>2, PadLeftMeetsDoc
  <2>7. ASSUME Returned("pad_right")
        PROVE  /\ IsPrefix(Was.string, x.string)
               /\ PadMeets(Was, x, Arg(1).int, Arg(2).string)
    <3>1. PICK o, t : /\ Last(trail).args = <<o, String(t)>>
                      /\ x \in pad_right(Was, o, String(t))
      BY <2>1, <2>7 DEF Returns
    <3>2. Arg(1) = o /\ Arg(2).string = t
      BY <3>1 DEF Arg, String
    <3> QED  BY <2>1, <2>7, <3>1, <3>2, PadRightMeetsDoc
  <2>8. ASSUME ReturnedBoth("encode", "decode"),
               trail[Len(trail) - 1].args = Last(trail).args
        PROVE  x = IF Is(Origin, "bytes") THEN Origin ELSE Bytes(Origin.string)
    <3>1. PICK name : /\ trail[Len(trail) - 1].args = <<String(<<name>>)>>
                      /\ Was \in encode(Origin, name)
      BY <2>2, <2>8 DEF Returns
    <3>2. x # Error /\ Returns("decode", Last(trail).args, Was, x)
      BY <2>1, <2>8 DEF ReturnedBoth
    <3>3. PICK same : Last(trail).args = <<String(<<same>>)>> /\ x \in decode(Was, same)
      BY <3>2 DEF Returns
    <3>4. name = same
      <4>1. <<String(<<name>>)>> = <<String(<<same>>)>>
        BY <2>8, <3>1, <3>3, Zenon
      <4>2. <<String(<<name>>)>>[1].string[1] = <<String(<<same>>)>>[1].string[1]
        BY <4>1, Zenon
      <4> QED  BY <4>2 DEF String
    <3>5. Was # Error
      BY <2>2, <2>8
    <3> QED  BY <3>1, <3>2, <3>3, <3>4, <3>5, DecodedAgain
  <2>9. ASSUME NEW pad \in {"pad_left", "pad_right"}, Returned(pad)
        PROVE  /\ IF pad = "pad_left" THEN IsSuffix(Was.string, x.string)
                                      ELSE IsPrefix(Was.string, x.string)
               /\ Len(x.string) >= Arg(1).int
               /\ x # Was => Len(x.string) < Arg(1).int + Len(Arg(2).string)
    BY <2>6, <2>7, <2>9 DEF PadMeets
  <2> QED  BY <2>3, <2>4, <2>5, <2>8, <2>9 DEF TextsMeetDocs, TrimMeets
<1> QED  BY <1>1, ScriptInvariance, PTL

-----------------------------------------------------------------------------
(* The text of a value.                                                    *)

\* What may be read of sequences, or of functions.
LEMMA SelectionsAre ==
    ASSUME NEW S
    PROVE  \A r : r \in Selections(S) <=>
              /\ r = [i \in DOMAIN S |-> r[i]]
              /\ \A i \in DOMAIN S : r[i] \in S[i]
<1> SUFFICES ASSUME NEW r
             PROVE  r \in Selections(S) <=> /\ r = [i \in DOMAIN S |-> r[i]]
                                            /\ \A i \in DOMAIN S : r[i] \in S[i]
  OBVIOUS
<1>1. \A i \in DOMAIN S : \A z \in S[i] : z \in UNION Range(S)
  BY DEF Range
<1>2. ASSUME r \in Selections(S)
      PROVE  r = [i \in DOMAIN S |-> r[i]] /\ \A i \in DOMAIN S : r[i] \in S[i]
  BY <1>2 DEF Selections
<1>3. ASSUME r = [i \in DOMAIN S |-> r[i]], \A i \in DOMAIN S : r[i] \in S[i]
      PROVE  r \in Selections(S)
  <2>1. r \in [DOMAIN S -> UNION Range(S)]
    BY <1>1, <1>3
  <2> QED  BY <1>3, <2>1 DEF Selections
<1> QED  BY <1>2, <1>3

LEMMA ListIs ==
    ASSUME NEW s, NEW t
    PROVE  \A r : r \in Listed(s, t) <=> /\ r = [i \in DOMAIN s |-> r[i]]
                                       /\ \A i \in DOMAIN s : r[i] \in t[s[i]]
<1> DEFINE S == [i \in DOMAIN s |-> t[s[i]]]
<1>1. DOMAIN S = DOMAIN s /\ \A i \in DOMAIN s : S[i] = t[s[i]]
  OBVIOUS
<1>2. Listed(s, t) = Selections(S)
  BY DEF Listed
<1> HIDE DEF S
<1> QED  BY <1>1, <1>2, SelectionsAre

LEMMA KindsApart ==
    \A p : /\ IsArray(p) => /\ ~IsMap(p) /\ ~Is(p, "int") /\ ~Is(p, "float")
                             /\ ~Is(p, "string") /\ ~Is(p, "map")
           /\ IsMap(p) => /\ ~Is(p, "int") /\ ~Is(p, "float") /\ ~Is(p, "string")
                           /\ ~IsArray(p) /\ ~Is(p, "array")
           /\ Is(p, "int") => ~Is(p, "float") /\ ~Is(p, "string")
           /\ Is(p, "float") => ~Is(p, "string")
           /\ Is(p, "int") \/ Is(p, "float") \/ Is(p, "string") =>
                 ~Is(p, "array") /\ ~Is(p, "map")
  BY DEF IsArray, IsMap, Is

\* The five kinds of text.
Bracketed(r) == <<"[", r>>
Braced(q, r) == <<"{", q, r>>

LEMMA ArrayText ==
    ASSUME NEW p, IsArray(p), NEW t
    PROVE  \A s : s \in TextOf(p, t) <=> \E r \in Listed(p.array, t) : s = Bracketed(r)
<1>1. TextOf(p, t) = ArrayTexts(p, t)
  BY KindsApart DEF TextOf
<1>2. \A s : s \in ArrayTexts(p, t) <=> \E r \in Listed(p.array, t) : s = Bracketed(r)
  BY DEF ArrayTexts, Bracketed
<1> QED  BY <1>1, <1>2

LEMMA MapText ==
    ASSUME NEW p, IsMap(p), NEW t
    PROVE  \A s : s \in TextOf(p, t) <=>
              \E q \in Iterations(p.map) :
                 \E r \in Listed(At(p.map, q), t) : s = Braced(q, r)
<1> DEFINE One(q) == {Braced(q, r) : r \in Listed(At(p.map, q), t)}
<1>1. TextOf(p, t) = MapTexts(p, t)
  BY KindsApart DEF TextOf
<1>2. MapTexts(p, t) = UNION {One(q) : q \in Iterations(p.map)}
  BY DEF MapTexts, Braced
<1>3. \A q, s : s \in One(q) <=> \E r \in Listed(At(p.map, q), t) : s = Braced(q, r)
  OBVIOUS
<1> HIDE DEF One
<1>4. \A s : s \in UNION {One(q) : q \in Iterations(p.map)}
               <=> \E q \in Iterations(p.map) : s \in One(q)
  BY Zenon
<1> QED  BY <1>1, <1>2, <1>3, <1>4

Leaf(p) == ~IsArray(p) /\ ~IsMap(p)

LEMMA LeafText ==
    ASSUME NEW p, Leaf(p), NEW t
    PROVE  TextOf(p, t) = CASE Is(p, "int") -> {<<"number", 2 * p.int>>}
                            [] Is(p, "float") -> {<<"number", p.float>>}
                            [] Is(p, "string") -> {<<"quoted", p.string>>}
                            [] OTHER -> {<<"other", p>>}
  BY KindsApart DEF TextOf, Leaf

\* The values of a map are parts of it, whatever the iteration.
LEMMA MapParts ==
    ASSUME NEW p, IsMap(p), NEW q \in Iterations(p.map)
    PROVE  /\ \A k \in DOMAIN p.map : p.map[k] \in Parts(p)
           /\ DOMAIN At(p.map, q) = 1..Cardinality(DOMAIN p.map)
           /\ \A i \in DOMAIN At(p.map, q) :
                 q[i] \in DOMAIN p.map /\ At(p.map, q)[i] = p.map[q[i]]
           /\ \A k \in DOMAIN p.map : \E i \in DOMAIN At(p.map, q) : q[i] = k
           /\ DOMAIN q = 1..Cardinality(DOMAIN p.map)
           /\ Cardinality(DOMAIN p.map) \in Nat
<1> DEFINE D == DOMAIN p.map
           n == Cardinality(D)
<1>1. \A k \in D : p.map[k] \in Parts(p)
  BY KindsApart DEF Parts, IsMap, Is
<1>2. IsFiniteSet(D) /\ q \in SetToSeqs(D)
  BY DEF IsMap, Iterations
<1> HIDE DEF D
<1>3. /\ q \in [1..n -> D] /\ n \in Nat
      /\ \A o \in D : \E i \in 1..n : q[i] = o
  BY <1>2, SequenceOfAll
<1>4. DOMAIN q = 1..n
  BY <1>3
<1>5. DOMAIN At(p.map, q) = 1..n /\ \A i \in 1..n : At(p.map, q)[i] = p.map[q[i]]
  BY <1>4 DEF At
<1> QED  BY <1>1, <1>3, <1>4, <1>5 DEF D

LEMMA ArrayParts ==
    ASSUME NEW p, IsArray(p)
    PROVE  \A i \in DOMAIN p.array : p.array[i] \in Parts(p)
  BY PartsOfArray DEF IsArray

\* The text of a value depends on the texts of its parts alone.
LEMMA ListedDepends ==
    ASSUME NEW s, NEW g, NEW h, \A i \in DOMAIN s : g[s[i]] = h[s[i]]
    PROVE  Listed(s, g) = Listed(s, h)
<1>1. [i \in DOMAIN s |-> g[s[i]]] = [i \in DOMAIN s |-> h[s[i]]]
  OBVIOUS
<1> QED  BY <1>1 DEF Listed

LEMMA TextDepends ==
    ASSUME NEW p, NEW g, NEW h, \A q \in Parts(p) : g[q] = h[q]
    PROVE  TextOf(p, g) = TextOf(p, h)
<1>1. CASE IsArray(p)
  <2>1. Listed(p.array, g) = Listed(p.array, h)
    BY <1>1, ArrayParts, ListedDepends
  <2> QED  BY <1>1, <2>1, KindsApart DEF TextOf, ArrayTexts
<1>2. CASE IsMap(p)
  <2>1. ASSUME NEW q \in Iterations(p.map)
        PROVE  Listed(At(p.map, q), g) = Listed(At(p.map, q), h)
    <3> DEFINE a == At(p.map, q)
    <3>1. /\ \A k \in DOMAIN p.map : p.map[k] \in Parts(p)
          /\ \A i \in DOMAIN a : q[i] \in DOMAIN p.map /\ a[i] = p.map[q[i]]
      BY <1>2, MapParts
    <3> HIDE DEF a
    <3>2. \A i \in DOMAIN a : g[a[i]] = h[a[i]]
      BY <3>1
    <3>3. Listed(a, g) = Listed(a, h)
      BY <3>2, ListedDepends
    <3> QED  BY <3>3 DEF a
  <2>2. \A s : s \in TextOf(p, g) <=> s \in TextOf(p, h)
    <3>1. \A s : s \in TextOf(p, g) <=>
             \E q \in Iterations(p.map) :
                \E r \in Listed(At(p.map, q), g) : s = Braced(q, r)
      BY <1>2, MapText
    <3>2. \A s : s \in TextOf(p, h) <=>
             \E q \in Iterations(p.map) :
                \E r \in Listed(At(p.map, q), h) : s = Braced(q, r)
      BY <1>2, MapText
    <3> QED  BY <2>1, <3>1, <3>2
  <2>3. TextOf(p, g) = MapTexts(p, g) /\ TextOf(p, h) = MapTexts(p, h)
    BY <1>2, KindsApart DEF TextOf
  <2>4. MapTexts(p, g) = MapTexts(p, h)
    <3>1. \A s : s \in MapTexts(p, g) <=> s \in MapTexts(p, h)
      BY <2>2, <2>3
    <3> HIDE DEF MapTexts
    <3>2. MapTexts(p, g) \subseteq MapTexts(p, h) /\ MapTexts(p, h) \subseteq MapTexts(p, g)
      BY <3>1, Zenon
    <3> QED  BY <3>2, Zenon
  <2> QED  BY <2>3, <2>4
<1>3. CASE Leaf(p)
  BY <1>3, LeafText
<1> QED  BY <1>1, <1>2, <1>3 DEF Leaf

\* Texts of all that is in o, each made of those of its parts.
Spells(t, o) == t = [p \in Inside(o) |-> TextOf(p, t)]

LEMMA TextsExist ==
    ASSUME NEW o, Shallow(o)  PROVE \E t : Spells(t, o)
<1> DEFINE From(n) == {p \in Inside(o) : \E m \in n..MaxNesting : p \in Levels(o)[m]}
           Right(t, n) == /\ DOMAIN t = Inside(o)
                          /\ t = [p \in Inside(o) |-> t[p]]
                          /\ \A p \in From(n) : t[p] = TextOf(p, t)
           Good == {k \in 0..MaxNesting : \E t : Right(t, MaxNesting - k)}
           Bad == (0..MaxNesting) \ Good
<1>1. MaxNesting \in Nat
  BY BitsAssumption
<1>2. ASSUME NEW t, NEW u, NEW n \in 0..MaxNesting,
             \A m \in (n + 1)..MaxNesting : \A p \in Levels(o)[m] : t[p] = TextOf(p, t),
             u = [p \in Inside(o) |-> TextOf(p, t)]
      PROVE  Right(u, n)
  <2>1. ASSUME NEW p \in From(n)  PROVE u[p] = TextOf(p, u)
    <3>1. PICK m \in n..MaxNesting : p \in Levels(o)[m]
      OBVIOUS
    <3>2. m \in 0..MaxNesting /\ p \in Inside(o)
      BY <1>1, <3>1
    <3>3. ASSUME NEW q \in Parts(p)  PROVE u[q] = t[q]
      <4>1. m < MaxNesting /\ q \in Levels(o)[m + 1] /\ q \in Inside(o)
        BY <3>1, <3>2, InsideClosed
      <4>2. m + 1 \in (n + 1)..MaxNesting
        BY <1>1, <4>1
      <4>3. u[q] = TextOf(q, t)
        BY <1>2, <4>1
      <4> QED  BY <1>2, <4>1, <4>2, <4>3
    <3>4. TextOf(p, u) = TextOf(p, t)
      BY <3>3, TextDepends
    <3> QED  BY <1>2, <3>2, <3>4
  <2>2. DOMAIN u = Inside(o) /\ u = [p \in Inside(o) |-> u[p]]
    BY <1>2
  <2> QED  BY <2>1, <2>2
<1>3. 0 \in Good
  <2> DEFINE t == [p \in Inside(o) |-> {}]
             u == [p \in Inside(o) |-> TextOf(p, t)]
  <2>1. \A m \in (MaxNesting + 1)..MaxNesting :
           \A p \in Levels(o)[m] : t[p] = TextOf(p, t)
    BY <1>1
  <2>2. MaxNesting \in 0..MaxNesting /\ 0 \in 0..MaxNesting /\ MaxNesting - 0 = MaxNesting
    BY <1>1
  <2> HIDE DEF t, Right
  <2>3. u = [p \in Inside(o) |-> TextOf(p, t)]
    OBVIOUS
  <2> HIDE DEF u
  <2>4. Right(u, MaxNesting)
    BY <1>2, <2>1, <2>2, <2>3
  <2> QED  BY <2>2, <2>4
<1>4. ASSUME NEW k \in Good, k < MaxNesting  PROVE k + 1 \in Good
  <2>1. PICK t : Right(t, MaxNesting - k)
    OBVIOUS
  <2> DEFINE n == MaxNesting - (k + 1)
             u == [p \in Inside(o) |-> TextOf(p, t)]
  <2>2. /\ k + 1 \in 0..MaxNesting /\ n \in 0..MaxNesting /\ n + 1 = MaxNesting - k
        /\ MaxNesting - k \in 0..MaxNesting
    BY <1>1, <1>4
  <2>3. ASSUME NEW m \in (n + 1)..MaxNesting, NEW p \in Levels(o)[m]
        PROVE  t[p] = TextOf(p, t)
    <3>1. m \in (MaxNesting - k)..MaxNesting /\ m \in 0..MaxNesting
      BY <1>1, <2>2
    <3>2. p \in Inside(o)
      BY <3>1, <2>3, InsideIs
    <3>3. p \in From(MaxNesting - k)
      BY <2>3, <3>1, <3>2
    <3> HIDE DEF From
    <3> QED  BY <2>1, <3>3
  <2>4. u = [p \in Inside(o) |-> TextOf(p, t)]
    OBVIOUS
  <2> HIDE DEF u, n, Right
  <2>5. Right(u, n)
    BY <1>2, <2>2, <2>3, <2>4
  <2>6. Right(u, MaxNesting - (k + 1))
    BY <2>5 DEF n
  <2> QED  BY <2>2, <2>6
<1>5. MaxNesting \in Good
  <2>1. SUFFICES ASSUME Bad # {}  PROVE MaxNesting \in Good
    <3>1. MaxNesting \in 0..MaxNesting
      BY <1>1
    <3> HIDE DEF Good
    <3> QED  BY <2>1, <3>1
  <2>2. PICK m \in Bad : \A k \in Bad : m <= k
    <3>1. Bad \in SUBSET Nat
      BY <1>1
    <3> HIDE DEF Bad
    <3> QED  BY <2>1, <3>1, Least
  <2> HIDE DEF Good
  <2>3. m # 0 /\ m \in 0..MaxNesting /\ m \notin Good
    BY <1>3, <2>2
  <2>4. m - 1 \in Good
    BY <1>1, <2>2, <2>3
  <2> DEFINE k == m - 1
  <2>5. k + 1 = m /\ k < MaxNesting /\ k \in Good
    BY <1>1, <2>3, <2>4
  <2> HIDE DEF k
  <2> QED  BY <1>4, <2>3, <2>5
<1>6. PICK t : Right(t, 0)
  <2>1. PICK t : Right(t, MaxNesting - MaxNesting)
    BY <1>5
  <2>2. MaxNesting - MaxNesting = 0
    BY <1>1
  <2> HIDE DEF Right
  <2> QED  BY <2>1, <2>2
<1>7. \A p \in Inside(o) : p \in From(0)
  BY InsideIs
<1>8. \A p \in Inside(o) : t[p] = TextOf(p, t)
  BY <1>6, <1>7
<1>9. t = [p \in Inside(o) |-> TextOf(p, t)]
  BY <1>6, <1>8
<1> QED  BY <1>9 DEF Spells

LEMMA TextIsSpelled ==
    ASSUME NEW o, Shallow(o)
    PROVE  \E t : /\ StringOf(o) = t[o]
                  /\ \A p \in Inside(o) : t[p] = TextOf(p, t)
<1> DEFINE t == CHOOSE t : Spells(t, o)
<1>1. Spells(t, o)
  BY TextsExist
<1>2. StringOf(o) = t[o]
  BY DEF StringOf, Spells
<1> HIDE DEF t
<1>3. \A p \in Inside(o) : t[p] = TextOf(p, t)
  BY <1>1 DEF Spells
<1> QED  BY <1>2, <1>3

\* What has no map of two keys in it has one text at most.
LEMMA ListedOnce ==
    ASSUME NEW a, NEW t, NEW r \in Listed(a, t), NEW u \in Listed(a, t),
           \A i \in DOMAIN a : \A y, z \in t[a[i]] : y = z
    PROVE  r = u
<1>1. /\ r = [i \in DOMAIN a |-> r[i]] /\ \A i \in DOMAIN a : r[i] \in t[a[i]]
      /\ u = [i \in DOMAIN a |-> u[i]] /\ \A i \in DOMAIN a : u[i] \in t[a[i]]
  BY ListIs
<1>2. \A i \in DOMAIN a : r[i] = u[i]
  BY <1>1
<1> QED  BY <1>1, <1>2

LEMMA OneIteration ==
    ASSUME NEW p, IsMap(p), Cardinality(DOMAIN p.map) <= 1,
           NEW q \in Iterations(p.map), NEW r \in Iterations(p.map)
    PROVE  q = r
<1> DEFINE D == DOMAIN p.map
           n == Cardinality(D)
<1>1. IsFiniteSet(D) /\ q \in SetToSeqs(D) /\ r \in SetToSeqs(D)
  BY DEF IsMap, Iterations
<1>2. n <= 1
  OBVIOUS
<1> HIDE DEF D
<1>3. /\ q \in [1..n -> D] /\ r \in [1..n -> D] /\ n \in Nat
      /\ \A o \in D : \E i \in 1..n : q[i] = o
  BY <1>1, SequenceOfAll
<1> HIDE DEF n
<1>4. \A i \in 1..n : i = 1
  BY <1>2, <1>3
<1>5. \A i \in 1..n : q[i] = r[i]
  BY <1>3, <1>4
<1> QED  BY <1>3, <1>5

LEMMA OneTextOf ==
    ASSUME NEW p, NEW t, IsMap(p) => Cardinality(DOMAIN p.map) <= 1,
           \A c \in Parts(p) : \A y, z \in t[c] : y = z
    PROVE  \A y, z \in TextOf(p, t) : y = z
<1> SUFFICES ASSUME NEW y \in TextOf(p, t), NEW z \in TextOf(p, t)  PROVE y = z
  OBVIOUS
<1>1. CASE IsArray(p)
  <2>1. PICK r, u \in Listed(p.array, t) : y = Bracketed(r) /\ z = Bracketed(u)
    BY <1>1, ArrayText
  <2>2. \A i \in DOMAIN p.array : \A c, d \in t[p.array[i]] : c = d
    BY <1>1, ArrayParts
  <2>3. r = u
    BY <2>2, ListedOnce
  <2> QED  BY <2>1, <2>3
<1>2. CASE IsMap(p)
  <2>1. PICK q \in Iterations(p.map) : \E r \in Listed(At(p.map, q), t) : y = Braced(q, r)
    BY <1>2, MapText
  <2>2. PICK q2 \in Iterations(p.map) : \E u \in Listed(At(p.map, q2), t) : z = Braced(q2, u)
    BY <1>2, MapText
  <2>3. q2 = q
    BY <1>2, OneIteration
  <2> DEFINE a == At(p.map, q)
  <2>4. PICK r \in Listed(a, t), u \in Listed(a, t) : y = Braced(q, r) /\ z = Braced(q, u)
    BY <2>1, <2>2, <2>3
  <2>5. /\ \A k \in DOMAIN p.map : p.map[k] \in Parts(p)
        /\ \A i \in DOMAIN a : q[i] \in DOMAIN p.map /\ a[i] = p.map[q[i]]
    BY <1>2, MapParts
  <2> HIDE DEF a
  <2>6. \A i \in DOMAIN a : \A c, d \in t[a[i]] : c = d
    BY <2>5
  <2>7. r = u
    BY <2>6, ListedOnce
  <2> QED  BY <2>4, <2>7
<1>3. CASE Leaf(p)
  BY <1>3, LeafText
<1> QED  BY <1>1, <1>2, <1>3 DEF Leaf

LEMMA SteadyHasOneText ==
    ASSUME NEW o, Shallow(o), Steady(o), NEW y \in StringOf(o), NEW z \in StringOf(o)
    PROVE  y = z
<1>1. MaxNesting \in Nat
  BY BitsAssumption
<1>2. PICK t : /\ StringOf(o) = t[o]
               /\ \A p \in Inside(o) : t[p] = TextOf(p, t)
  BY TextIsSpelled
<1> DEFINE One(p) == \A c, d \in t[p] : c = d
           Bad == {k \in 0..MaxNesting : \E p \in Levels(o)[MaxNesting - k] : ~One(p)}
<1>3. ASSUME NEW n \in 0..MaxNesting, NEW p \in Levels(o)[n],
             n < MaxNesting => \A c \in Levels(o)[n + 1] : One(c)
      PROVE  One(p)
  <2>1. p \in Inside(o)
    BY InsideIs
  <2>2. IsMap(p) => Cardinality(DOMAIN p.map) <= 1
    BY <2>1 DEF Steady
  <2>3. \A c \in Parts(p) : One(c)
    <3> HIDE DEF One
    <3> QED  BY <1>3, InsideClosed
  <2>4. \A c, d \in TextOf(p, t) : c = d
    BY <2>2, <2>3, OneTextOf
  <2> QED  BY <1>2, <2>1, <2>4
<1>4. Bad = {}
  <2>1. SUFFICES ASSUME Bad # {}  PROVE FALSE
    OBVIOUS
  <2>2. PICK m \in Bad : \A k \in Bad : m <= k
    <3>1. Bad \in SUBSET Nat
      BY <1>1
    <3> HIDE DEF Bad
    <3> QED  BY <2>1, <3>1, Least
  <2> HIDE DEF One
  <2> DEFINE n == MaxNesting - m
  <2>3. m \in 0..MaxNesting /\ n \in 0..MaxNesting
    BY <1>1, <2>2
  <2>4. PICK p \in Levels(o)[n] : ~One(p)
    BY <2>2
  <2>5. ASSUME n < MaxNesting  PROVE \A c \in Levels(o)[n + 1] : One(c)
    <3>1. m - 1 \in 0..MaxNesting /\ MaxNesting - (m - 1) = n + 1 /\ m - 1 < m
      BY <1>1, <2>3, <2>5
    <3>2. m - 1 \notin Bad
      <4> HIDE DEF Bad, n
      <4>1. m - 1 \in Bad => m <= m - 1
        BY <2>2
      <4> QED  BY <2>3, <3>1, <4>1
    <3>3. \A c \in Levels(o)[MaxNesting - (m - 1)] : One(c)
      BY <3>1, <3>2
    <3> HIDE DEF n
    <3> QED  BY <3>1, <3>3
  <2> HIDE DEF n
  <2> QED  BY <1>3, <2>3, <2>4, <2>5
<1>5. One(o)
  <2>1. 0 \in 0..MaxNesting /\ MaxNesting \in 0..MaxNesting /\ MaxNesting - MaxNesting = 0
    BY <1>1
  <2>2. o \in Levels(o)[0]
    BY LevelsAre
  <2> HIDE DEF One
  <2> QED  BY <1>4, <2>1, <2>2
<1> QED  BY <1>2, <1>5

\* A text tells of what kind its value is, and the texts of its parts.
LEMMA TextsTell ==
    /\ \A r, u : Bracketed(r) = Bracketed(u) => r = u
    /\ \A q, r, k, u : Braced(q, r) = Braced(k, u) => q = k /\ r = u
    /\ \A q, r, u : Bracketed(u) # Braced(q, r)
    /\ \A n, q, r : /\ <<"number", n>> # Bracketed(r) /\ <<"number", n>> # Braced(q, r)
                    /\ <<"quoted", n>> # Bracketed(r) /\ <<"quoted", n>> # Braced(q, r)
                    /\ <<"other", n>> # Bracketed(r) /\ <<"other", n>> # Braced(q, r)
    /\ \A n, m : /\ <<"number", n>> # <<"quoted", m>> /\ <<"number", n>> # <<"other", m>>
                 /\ <<"quoted", n>> # <<"other", m>>
                 /\ <<"other", n>> = <<"other", m>> => n = m
  BY DEF Bracketed, Braced

LEMMA LeafTextApart ==
    ASSUME NEW p, Leaf(p), NEW t, NEW s \in TextOf(p, t)
    PROVE  \A q, r : s # Bracketed(r) /\ s # Braced(q, r)
  BY LeafText, TextsTell

Share(S, T) == \E s \in S : s \in T

\* Two values that have a text in common are the same, or alike in all parts.
Matches(p, q, g, h) ==
    \/ p = q
    \/ /\ \A c \in Parts(q) : \E d \in Parts(p) : Share(g[d], h[c])
       /\ IsMap(q) => IsMap(p) /\ DOMAIN p.map = DOMAIN q.map

LEMMA ArraysMatch ==
    ASSUME NEW p, NEW q, NEW g, NEW h, NEW s \in TextOf(p, g), s \in TextOf(q, h), IsArray(q)
    PROVE  Matches(p, q, g, h)
<1>1. PICK u \in Listed(q.array, h) : s = Bracketed(u)
  BY ArrayText
<1>2. IsArray(p)
  <2>1. ~Leaf(p)
    BY <1>1, LeafTextApart
  <2>2. ~IsMap(p)
    BY <1>1, MapText, TextsTell
  <2> QED  BY <2>1, <2>2 DEF Leaf
<1>3. PICK r \in Listed(p.array, g) : s = Bracketed(r)
  BY <1>2, ArrayText
<1>4. r = u
  BY <1>1, <1>3, TextsTell
<1>5. /\ r = [i \in DOMAIN p.array |-> r[i]] /\ \A i \in DOMAIN p.array : r[i] \in g[p.array[i]]
      /\ r = [i \in DOMAIN q.array |-> r[i]] /\ \A i \in DOMAIN q.array : r[i] \in h[q.array[i]]
  BY <1>3, <1>4, ListIs
<1>6. DOMAIN p.array = DOMAIN q.array
  BY <1>5
<1>7. ASSUME NEW c \in Parts(q)  PROVE \E d \in Parts(p) : Share(g[d], h[c])
  <2>1. PICK i \in DOMAIN q.array : c = q.array[i]
    BY PartsOfArray DEF IsArray
  <2>2. p.array[i] \in Parts(p)
    BY <1>2, <1>6, ArrayParts
  <2> QED  BY <1>5, <1>6, <2>1, <2>2 DEF Share
<1> QED  BY <1>7, KindsApart DEF Matches

LEMMA MapsMatch ==
    ASSUME NEW p, NEW q, NEW g, NEW h, NEW s \in TextOf(p, g), s \in TextOf(q, h), IsMap(q)
    PROVE  Matches(p, q, g, h)
<1>1. PICK l \in Iterations(q.map) : \E u \in Listed(At(q.map, l), h) : s = Braced(l, u)
  BY MapText
<1>2. IsMap(p)
  <2>1. ~Leaf(p)
    BY <1>1, LeafTextApart
  <2>2. ~IsArray(p)
    BY <1>1, ArrayText, TextsTell
  <2> QED  BY <2>1, <2>2 DEF Leaf
<1>3. PICK k \in Iterations(p.map) : \E r \in Listed(At(p.map, k), g) : s = Braced(k, r)
  BY <1>2, MapText
<1>4. k = l
  BY <1>1, <1>3, TextsTell
<1> DEFINE a == At(p.map, k)
           b == At(q.map, k)
<1>5. PICK r \in Listed(a, g) : r \in Listed(b, h)
  <2>1. PICK r \in Listed(a, g) : s = Braced(k, r)
    BY <1>3
  <2>2. PICK u \in Listed(b, h) : s = Braced(k, u)
    BY <1>1, <1>4
  <2>3. r = u
    BY <2>1, <2>2, TextsTell
  <2> QED  BY <2>2, <2>3
<1>6. /\ \A i \in DOMAIN p.map : p.map[i] \in Parts(p)
      /\ DOMAIN a = DOMAIN k
      /\ \A i \in DOMAIN k : k[i] \in DOMAIN p.map /\ a[i] = p.map[k[i]]
      /\ \A o \in DOMAIN p.map : \E i \in DOMAIN k : k[i] = o
  BY <1>2, MapParts
<1>7. /\ DOMAIN b = DOMAIN k
      /\ \A i \in DOMAIN k : k[i] \in DOMAIN q.map /\ b[i] = q.map[k[i]]
      /\ \A o \in DOMAIN q.map : \E i \in DOMAIN k : k[i] = o
  <2>1. k \in Iterations(q.map)
    BY <1>4
  <2> QED  BY <2>1, MapParts
<1> HIDE DEF a, b
<1>8. DOMAIN p.map = DOMAIN q.map
  BY <1>6, <1>7
<1>9. \A i \in DOMAIN k : r[i] \in g[a[i]] /\ r[i] \in h[b[i]]
  <2>1. /\ \A i \in DOMAIN a : r[i] \in g[a[i]]
        /\ \A i \in DOMAIN b : r[i] \in h[b[i]]
    BY <1>5, ListIs
  <2> QED  BY <1>6, <1>7, <2>1
<1>10. ASSUME NEW c \in Parts(q)  PROVE \E d \in Parts(p) : Share(g[d], h[c])
  <2>1. PICK o \in DOMAIN q.map : c = q.map[o]
    BY KindsApart DEF Parts, IsMap
  <2>2. PICK i \in DOMAIN k : k[i] = o
    BY <1>7
  <2>3. b[i] = c /\ a[i] \in Parts(p)
    BY <1>6, <1>7, <2>1, <2>2
  <2>4. Share(g[a[i]], h[c])
    BY <1>9, <2>3 DEF Share
  <2> QED  BY <2>3, <2>4
<1> QED  BY <1>2, <1>8, <1>10 DEF Matches

LEMMA LeavesMatch ==
    ASSUME NEW p, NEW q, NEW g, NEW h, NEW s \in TextOf(p, g), s \in TextOf(q, h), Leaf(q)
    PROVE  Matches(p, q, g, h)
<1>1. Leaf(p)
  <2>1. ~IsArray(p)
    BY LeafTextApart, ArrayText
  <2>2. ~IsMap(p)
    BY LeafTextApart, MapText
  <2> QED  BY <2>1, <2>2 DEF Leaf
<1>2. CASE Is(q, "int") \/ Is(q, "float") \/ Is(q, "string")
  <2>1. Parts(q) = {} /\ ~IsMap(q)
    BY <1>2, KindsApart DEF Parts
  <2> QED  BY <2>1 DEF Matches
<1>3. CASE ~(Is(q, "int") \/ Is(q, "float") \/ Is(q, "string"))
  <2>1. s = <<"other", q>>
    BY <1>3, LeafText
  <2>2. s = <<"other", p>>
    BY <1>1, <2>1, LeafText, TextsTell
  <2> QED  BY <2>1, <2>2, TextsTell DEF Matches
<1> QED  BY <1>2, <1>3

LEMMA TextsMatch ==
    ASSUME NEW p, NEW q, NEW g, NEW h, NEW s \in TextOf(p, g), s \in TextOf(q, h)
    PROVE  Matches(p, q, g, h)
  BY ArraysMatch, MapsMatch, LeavesMatch DEF Leaf

\* A value with a text of a steady one is steady.
LEMMA SteadyText ==
    ASSUME NEW a, NEW b, Shallow(a), Shallow(b), Steady(a),
           NEW s \in StringOf(a), s \in StringOf(b)
    PROVE  Steady(b)
<1>1. MaxNesting \in Nat
  BY BitsAssumption
<1>2. PICK g : /\ StringOf(a) = g[a]
               /\ \A p \in Inside(a) : g[p] = TextOf(p, g)
  BY TextIsSpelled
<1>3. PICK h : /\ StringOf(b) = h[b]
               /\ \A p \in Inside(b) : h[p] = TextOf(p, h)
  BY TextIsSpelled
<1> DEFINE Twin(p, q) == p = q \/ Share(g[p], h[q])
           Bad == {n \in 0..MaxNesting :
                      \E q \in Levels(b)[n] : \A p \in Levels(a)[n] : ~Twin(p, q)}
<1>4. ASSUME NEW p \in Inside(a), NEW q \in Inside(b), Twin(p, q)
      PROVE  Matches(p, q, g, h)
  <2>1. CASE p = q
    BY <2>1 DEF Matches
  <2>2. CASE Share(g[p], h[q])
    BY <1>2, <1>3, <2>2, TextsMatch DEF Share
  <2> QED  BY <1>4, <2>1, <2>2
<1>5. Bad = {}
  <2>1. SUFFICES ASSUME Bad # {}  PROVE FALSE
    OBVIOUS
  <2>2. PICK m \in Bad : \A k \in Bad : m <= k
    <3>1. Bad \in SUBSET Nat
      BY <1>1
    <3> HIDE DEF Bad
    <3> QED  BY <2>1, <3>1, Least
  <2>3. PICK q \in Levels(b)[m] : \A p \in Levels(a)[m] : ~Twin(p, q)
    BY <2>2
  <2>4. m \in 0..MaxNesting
    BY <2>2
  <2>5. m # 0
    <3>1. Twin(a, b)
      BY <1>2, <1>3 DEF Share
    <3>2. Levels(a)[0] = {a} /\ Levels(b)[0] = {b}
      BY LevelsAre
    <3> HIDE DEF Twin
    <3>3. ASSUME m = 0  PROVE FALSE
      <4>1. q = b /\ a \in Levels(a)[m]
        BY <2>3, <3>2, <3>3
      <4> QED  BY <2>3, <3>1, <4>1
    <3> QED  BY <3>3
  <2> DEFINE n == m - 1
  <2>6. n \in 0..MaxNesting /\ n \in Nat /\ n < MaxNesting /\ n + 1 = m /\ n < m
    BY <1>1, <2>4, <2>5
  <2>7. n \notin Bad
    <3> HIDE DEF Bad, n
    <3> QED  BY <2>2, <2>4, <2>6
  <2>8. \A c \in Levels(b)[n] : \E p \in Levels(a)[n] : Twin(p, c)
    <3> HIDE DEF n, Twin
    <3> QED  BY <2>6, <2>7
  <2> HIDE DEF n, Bad
  <2>9. PICK r \in Levels(b)[n] : q \in Parts(r)
    <3>1. q \in Levels(b)[n + 1]
      BY <2>3, <2>6
    <3> QED  BY <2>6, <3>1, NextLevel
  <2>10. PICK p \in Levels(a)[n] : Twin(p, r)
    BY <2>8, <2>9
  <2>11. p \in Inside(a) /\ r \in Inside(b)
    BY <2>6, <2>9, <2>10, InsideIs
  <2>12. Matches(p, r, g, h)
    <3> HIDE DEF Twin
    <3> QED  BY <1>4, <2>10, <2>11
  <2>13. PICK d \in Parts(p) : Twin(d, q)
    BY <2>9, <2>12 DEF Matches
  <2>14. d \in Levels(a)[n + 1]
    BY <2>6, <2>10, <2>13, NextLevel
  <2>15. d \in Levels(a)[m]
    BY <2>6, <2>14
  <2> HIDE DEF Twin
  <2> QED  BY <2>3, <2>13, <2>15
<1>6. ASSUME NEW q \in Inside(b), IsMap(q)  PROVE Cardinality(DOMAIN q.map) <= 1
  <2>1. PICK n \in 0..MaxNesting : q \in Levels(b)[n]
    BY InsideIs
  <2>2. PICK p \in Levels(a)[n] : Twin(p, q)
    <3> HIDE DEF Twin
    <3> QED  BY <1>5, <2>1
  <2>3. p \in Inside(a)
    BY <2>1, <2>2, InsideIs
  <2>4. Matches(p, q, g, h)
    <3> HIDE DEF Twin
    <3> QED  BY <1>4, <2>2, <2>3
  <2>5. IsMap(p) /\ DOMAIN p.map = DOMAIN q.map
    BY <1>6, <2>4 DEF Matches
  <2> QED  BY <2>3, <2>5 DEF Steady
<1> QED  BY <1>6 DEF Steady

\* The first index of each text, in order.
Rising(q) == \A i, j \in DOMAIN q : i < j => q[i] < q[j]

LEMMA RisingExists ==
    ASSUME NEW n \in Nat, NEW F \in SUBSET (1..n)
    PROVE  \E q \in SetToSeqs(F) : Rising(q)
<1> DEFINE Bad == {m \in Nat : \E G \in SUBSET (1..m) : \A q \in SetToSeqs(G) : ~Rising(q)}
<1>1. SUFFICES ASSUME Bad # {}  PROVE FALSE
  OBVIOUS
<1>2. PICK m \in Bad : \A k \in Bad : m <= k
  <2>1. Bad \in SUBSET Nat
    OBVIOUS
  <2> HIDE DEF Bad
  <2> QED  BY <1>1, <2>1, Least
<1>3. PICK G \in SUBSET (1..m) : \A q \in SetToSeqs(G) : ~Rising(q)
  BY <1>2
<1>4. m # 0
  <2> SUFFICES ASSUME m = 0  PROVE FALSE
    OBVIOUS
  <2> DEFINE q == [i \in 1..0 |-> 0]
  <2>1. G = {}
    OBVIOUS
  <2>2. Cardinality(G) = 0
    BY <2>1, FS_EmptySet
  <2>3. q \in SetToSeqs(G)
    BY <2>1, <2>2 DEF SetToSeqs
  <2>4. Rising(q)
    BY DEF Rising
  <2> QED  BY <1>3, <2>3, <2>4
<1> DEFINE k == m - 1
           H == G \ {m}
<1>5. k \in Nat /\ k + 1 = m /\ k \notin Bad
  <2>1. m \in Nat /\ k \in Nat /\ k + 1 = m /\ k < m
    BY <1>2, <1>4
  <2> HIDE DEF Bad, k
  <2> QED  BY <1>2, <2>1
<1>6. H \in SUBSET (1..k)
  BY <1>5
<1>7. PICK q \in SetToSeqs(H) : Rising(q)
  <2> HIDE DEF H, k
  <2> QED  BY <1>5, <1>6
<1>8. m \in G
  BY <1>3, <1>7
<1> DEFINE c == Cardinality(H)
           u == [i \in 1..(c + 1) |-> IF i = c + 1 THEN m ELSE q[i]]
<1>9. IsFiniteSet(H) /\ c \in Nat
  <2>1. IsFiniteSet(1..k)
    BY <1>5, FS_Interval
  <2> HIDE DEF H, k
  <2>2. IsFiniteSet(H)
    BY <1>6, <2>1, FS_Subset
  <2> QED  BY <2>2, FS_CardinalityType
<1>10. G = H \cup {m} /\ m \notin H
  BY <1>8
<1> HIDE DEF H
<1>11. Cardinality(G) = c + 1
  BY <1>9, <1>10, FS_AddElement
<1>12. q \in [1..c -> H] /\ \A i, j \in 1..c : i # j => q[i] # q[j]
  BY <1>7 DEF SetToSeqs
<1> HIDE DEF c
<1>13. \A i \in 1..c : q[i] \in Int /\ q[i] < m /\ q[i] \in G
  <2>1. \A o \in H : o \in 1..k /\ o \in G
    BY <1>6, <1>10
  <2>2. k \in Nat /\ k + 1 = m /\ m \in Nat
    BY <1>2, <1>5
  <2> HIDE DEF k
  <2>3. \A o \in H : o \in Int /\ o < m /\ o \in G
    BY <2>1, <2>2
  <2>4. \A i \in 1..c : q[i] \in H
    BY <1>12
  <2> QED  BY <2>3, <2>4
<1>14. /\ DOMAIN u = 1..(c + 1) /\ u[c + 1] = m
       /\ \A i \in 1..c : u[i] = q[i]
       /\ \A i \in 1..(c + 1) : i \in 1..c \/ i = c + 1
       /\ c + 1 \in 1..(c + 1) /\ \A i \in 1..c : i \in 1..(c + 1)
  BY <1>9
<1>15. u \in [1..(c + 1) -> G]
  <2>1. u = [i \in 1..(c + 1) |-> u[i]]
    OBVIOUS
  <2> HIDE DEF u
  <2>2. \A i \in 1..(c + 1) : u[i] \in G
    BY <1>8, <1>13, <1>14
  <2> QED  BY <2>1, <2>2
<1> HIDE DEF u
<1>16. ASSUME NEW i \in 1..(c + 1), NEW j \in 1..(c + 1)
       PROVE  /\ i # j => u[i] # u[j]
              /\ i < j => u[i] < u[j]
  <2>1. DOMAIN q = 1..c
    BY <1>12
  <2>2. i \in 1..c /\ i < j => u[i] < u[j]
    <3>1. CASE j = c + 1
      BY <1>13, <1>14, <3>1
    <3>2. CASE j \in 1..c
      BY <1>7, <1>14, <2>1, <3>2 DEF Rising
    <3> QED  BY <1>14, <3>1, <3>2
  <2>3. i \in 1..c /\ i # j => u[i] # u[j]
    <3>1. CASE j = c + 1
      BY <1>2, <1>13, <1>14, <3>1
    <3>2. CASE j \in 1..c
      BY <1>12, <1>14, <3>2
    <3> QED  BY <1>14, <3>1, <3>2
  <2>4. i = c + 1 /\ i # j => u[i] # u[j]
    BY <1>2, <1>13, <1>14
  <2>5. i = c + 1 => ~(i < j)
    BY <1>9
  <2> QED  BY <1>14, <2>2, <2>3, <2>4, <2>5
<1>17. u \in SetToSeqs(G)
  BY <1>11, <1>15, <1>16 DEF SetToSeqs
<1>18. Rising(u)
  BY <1>14, <1>16 DEF Rising
<1> QED  BY <1>3, <1>17, <1>18

LEMMA FirstsAre ==
    ASSUME NEW f, NEW n \in Nat, DOMAIN f = 1..n
    PROVE  LET q == Firsts(f)
           IN  /\ \E m \in Nat : DOMAIN q = 1..m
               /\ \A i \in DOMAIN q : q[i] \in 1..n
               /\ \A i, j \in DOMAIN q : i # j => f[q[i]] # f[q[j]]
               /\ \A i \in 1..n : \E j \in DOMAIN q : f[q[j]] = f[i]
               /\ q # <<>> => 1 \in DOMAIN q /\ q[1] = 1
<1> DEFINE F == {i \in DOMAIN f : \A j \in 1..(i - 1) : f[j] # f[i]}
           q == Firsts(f)
<1>1. F \in SUBSET (1..n)
  OBVIOUS
<1>2. q = CHOOSE r \in SetToSeqs(F) : Rising(r)
  BY DEF Firsts, Rising
<1>3. \A i \in F : i \in 1..n /\ \A j \in 1..(i - 1) : f[j] # f[i]
  OBVIOUS
<1>4. ASSUME NEW i \in 1..n  PROVE \E j \in F : f[j] = f[i] /\ j <= i
  <2> DEFINE T == {j \in 1..n : f[j] = f[i]}
  <2>1. T \in SUBSET Nat /\ i \in T
    OBVIOUS
  <2>2. PICK j \in T : \A k \in T : j <= k
    <3> HIDE DEF T
    <3> QED  BY <2>1, Least
  <2>3. j \in F
    BY <2>2
  <2> QED  BY <2>1, <2>2, <2>3
<1> HIDE DEF F, q
<1>5. q \in SetToSeqs(F) /\ Rising(q)
  BY <1>1, <1>2, RisingExists
<1>6. IsFiniteSet(F)
  <2>1. IsFiniteSet(1..n)
    BY FS_Interval
  <2> QED  BY <1>1, <2>1, FS_Subset
<1>7. /\ q \in [1..Cardinality(F) -> F] /\ Cardinality(F) \in Nat
      /\ \A i, j \in 1..Cardinality(F) : q[i] = q[j] => i = j
      /\ \A o \in F : \E i \in 1..Cardinality(F) : q[i] = o
  BY <1>5, <1>6, SequenceOfAll
<1>8. DOMAIN q = 1..Cardinality(F) /\ \A i \in DOMAIN q : q[i] \in F
  BY <1>7
<1>9. ASSUME NEW i \in DOMAIN q, NEW j \in DOMAIN q, i # j  PROVE f[q[i]] # f[q[j]]
  <2>1. q[i] \in F /\ q[j] \in F /\ q[i] # q[j]
    BY <1>7, <1>8, <1>9
  <2>2. q[i] \in 1..(q[j] - 1) \/ q[j] \in 1..(q[i] - 1)
    <3>1. q[i] \in Int /\ q[j] \in Int /\ 1 <= q[i] /\ 1 <= q[j]
      BY <1>3, <2>1
    <3> DEFINE a == q[i]
               b == q[j]
    <3>2. a \in Int /\ b \in Int /\ 1 <= a /\ 1 <= b /\ a # b
      BY <2>1, <3>1
    <3> HIDE DEF a, b
    <3>3. a \in 1..(b - 1) \/ b \in 1..(a - 1)
      BY <3>2
    <3> QED  BY <3>3 DEF a, b
  <2> QED  BY <1>3, <2>1, <2>2
<1>10. \A i \in 1..n : \E j \in DOMAIN q : f[q[j]] = f[i]
  BY <1>4, <1>7, <1>8
<1>11. ASSUME q # <<>>  PROVE 1 \in DOMAIN q /\ q[1] = 1
  <2>1. DOMAIN q # {}
    <3>1. ASSUME DOMAIN q = {}  PROVE q = <<>>
      BY <1>7, <3>1
    <3> QED  BY <1>11, <3>1
  <2>2. 1 \in DOMAIN q
    BY <1>7, <1>8, <2>1
  <2>3. 1 \in F
    <3>1. q[1] \in 1..n
      BY <1>3, <1>8, <2>2
    <3>2. 1 \in 1..n
      BY <3>1
    <3>3. PICK j \in F : j <= 1
      BY <1>4, <3>2
    <3> QED  BY <1>3, <3>3
  <2>4. PICK j \in 1..Cardinality(F) : q[j] = 1
    BY <1>7, <2>3
  <2>5. j = 1
    <3>1. q[1] \in 1..n
      BY <1>3, <1>8, <2>2
    <3>2. 1 < j => q[1] < 1
      BY <1>5, <1>8, <2>2, <2>4 DEF Rising
    <3> QED  BY <3>1, <3>2
  <2> QED  BY <2>2, <2>4, <2>5
<1>12. \A i \in DOMAIN q : q[i] \in 1..n
  BY <1>3, <1>8
<1>13. \E m \in Nat : DOMAIN q = 1..m
  BY <1>7, <1>8
<1> QED  BY <1>9, <1>10, <1>11, <1>12, <1>13 DEF q

\* Texts of one value that is steady, or of two that have one in common.
LEMMA AlikeSteady ==
    ASSUME NEW a, NEW b, Shallow(a), Shallow(b), Steady(a), Alike(a, b),
           NEW s \in StringOf(a), NEW t \in StringOf(b)
    PROVE  s = t
<1>1. CASE a = b
  BY <1>1, SteadyHasOneText
<1>2. CASE StringOf(a) \cap StringOf(b) # {}
  <2>1. PICK u \in StringOf(a) : u \in StringOf(b)
    BY <1>2
  <2>2. Steady(b)
    BY <2>1, SteadyText
  <2>3. s = u /\ t = u
    BY <2>1, <2>2, SteadyHasOneText
  <2> QED  BY <2>3
<1> QED  BY <1>1, <1>2 DEF Alike

LEMMA ReadingsAre ==
    ASSUME NEW s, NEW f \in Readings(s)
    PROVE  DOMAIN f = DOMAIN s /\ \A i \in DOMAIN s : f[i] \in StringOf(s[i])
<1> DEFINE S == [i \in DOMAIN s |-> StringOf(s[i])]
<1>1. f \in Selections(S) /\ DOMAIN S = DOMAIN s /\ \A i \in DOMAIN s : S[i] = StringOf(s[i])
  BY DEF Readings
<1> HIDE DEF S
<1>2. f = [i \in DOMAIN S |-> f[i]] /\ \A i \in DOMAIN S : f[i] \in S[i]
  BY <1>1, SelectionsAre
<1> QED  BY <1>1, <1>2

\* What array_contains and unique may say.
ContainsMeets(v, o, r) ==
    /\ r.bool => \E p \in Parts(v) : Alike(p, o)
    /\ ~r.bool => o \notin Parts(v) \/ ~Steady(o)

LEMMA ContainsMeetsDoc ==
    ASSUME NEW v, Shallow(v), NEW o, NEW r \in array_contains(v, o), r \notin {Error, Panic}
    PROVE  ContainsMeets(v, o, r)
<1>1. IsArray(v) /\ ~Overflows(o)
  BY DEF array_contains
<1> DEFINE endless == EndlessAt(v.array)
           read == Readable(v.array)
<1>2. PICK needle \in StringOf(o), f \in Readings(read) :
         /\ r = Bool(needle \in Range(f))
         /\ needle \in Range(f) \/ endless = {}
  <2>1. PICK needle \in StringOf(o), f \in Readings(read) :
           r = Answer(needle \in Range(f), v.array)
    BY <1>1 DEF array_contains
  <2> QED  BY <2>1 DEF Answer
<1>3. r.bool = (needle \in Range(f))
  BY <1>2 DEF Bool
<1>4. /\ DOMAIN v.array = 1..Len(v.array) /\ Len(v.array) \in Nat
      /\ Parts(v) = {v.array[i] : i \in DOMAIN v.array}
  BY <1>1, IndicesOfArray
<1>5. DOMAIN read \subseteq DOMAIN v.array /\ \A i \in DOMAIN read : read[i] = v.array[i]
  <2>1. CASE endless = {}
    BY <2>1 DEF Readable
  <2>2. CASE endless # {}
    <3>1. Min(endless) \in endless
      <4>1. endless \in SUBSET Nat
        BY <1>4 DEF EndlessAt
      <4> HIDE DEF endless
      <4>2. \E i \in endless : \A j \in endless : i <= j
        BY <2>2, <4>1, Least
      <4> QED  BY <4>2 DEF Min
    <3> DEFINE m == Min(endless) - 1
    <3>2. m \in Nat /\ m <= Len(v.array)
      <4>1. Min(endless) \in 1..Len(v.array)
        BY <1>4, <3>1 DEF EndlessAt
      <4> QED  BY <1>4, <4>1
    <3>3. read = SubSeq(v.array, 1, m)
      BY <2>2 DEF Readable
    <3> HIDE DEF endless, read, m
    <3>4. read = [i \in 1..m |-> v.array[1 + i - 1]]
      BY <3>2, <3>3 DEF SubSeq
    <3>5. DOMAIN read = 1..m /\ \A i \in 1..m : read[i] = v.array[i]
      BY <3>2, <3>4
    <3> QED  BY <1>4, <3>2, <3>5
  <2> QED  BY <2>1, <2>2
<1>6. DOMAIN f = DOMAIN read /\ \A i \in DOMAIN read : f[i] \in StringOf(v.array[i])
  <2> HIDE DEF read
  <2> QED  BY <1>2, <1>5, ReadingsAre
<1>7. endless = {} => read = v.array
  BY DEF Readable
<1> HIDE DEF endless, read
<1>8. ASSUME needle \in Range(f)  PROVE \E p \in Parts(v) : Alike(p, o)
  <2>1. PICK i \in DOMAIN f : needle = f[i]
    BY <1>8 DEF Range
  <2>2. needle \in StringOf(v.array[i]) \cap StringOf(o)
    BY <1>6, <2>1
  <2> QED  BY <1>4, <1>5, <1>6, <2>1, <2>2 DEF Alike
<1>9. ASSUME needle \notin Range(f), o \in Parts(v), Steady(o)  PROVE FALSE
  <2>1. PICK i \in DOMAIN v.array : o = v.array[i]
    BY <1>4, <1>9
  <2>2. Shallow(o)
    BY <1>9, PartsShallow
  <2>3. DOMAIN f = DOMAIN v.array
    BY <1>2, <1>6, <1>7, <1>9
  <2>4. f[i] = needle
    BY <1>6, <1>9, <2>1, <2>2, <2>3, SteadyHasOneText
  <2> QED  BY <1>9, <2>1, <2>3, <2>4 DEF Range
<1> QED  BY <1>3, <1>8, <1>9 DEF ContainsMeets

UniqueMeets(v, r) ==
    /\ \A o \in Parts(v) : \E p \in Parts(r) : Alike(o, p)
    /\ \A i, j \in DOMAIN r.array :
          i # j /\ Alike(r.array[i], r.array[j]) => ~Steady(r.array[i])
    /\ r.array # <<>> => r.array[1] = v.array[1]

LEMMA UniqueMeetsDoc ==
    ASSUME NEW v, Shallow(v), NEW r \in unique(v), r \notin {Error, Panic}
    PROVE  UniqueMeets(v, r)
<1> DEFINE s == v.array
<1>1. IsArray(v)
  BY DEF unique
<1>2. PICK f \in Readings(s) : r = Array(At(s, Firsts(f)))
  BY <1>1 DEF unique
<1> DEFINE q == Firsts(f)
           n == Len(s)
<1>3. DOMAIN f = DOMAIN s /\ \A i \in DOMAIN s : f[i] \in StringOf(s[i])
  BY ReadingsAre
<1>4. DOMAIN s = 1..n /\ n \in Nat /\ Parts(v) = {s[i] : i \in DOMAIN s}
  BY <1>1, IndicesOfArray
<1> HIDE DEF n
<1>5. /\ \A i \in DOMAIN q : q[i] \in 1..n
      /\ \A i, j \in DOMAIN q : i # j => f[q[i]] # f[q[j]]
      /\ \A i \in 1..n : \E j \in DOMAIN q : f[q[j]] = f[i]
      /\ q # <<>> => 1 \in DOMAIN q /\ q[1] = 1
  BY <1>3, <1>4, FirstsAre
<1>6. /\ Is(r, "array") /\ r.array = At(s, q)
  BY <1>2 DEF Array, Is
<1> HIDE DEF q, s
<1>7. DOMAIN r.array = DOMAIN q /\ \A i \in DOMAIN q : r.array[i] = s[q[i]]
  BY <1>6 DEF At
<1>8. Parts(r) = {r.array[i] : i \in DOMAIN r.array}
  BY <1>6, PartsOfArray
<1>9. ASSUME NEW o \in Parts(v)  PROVE \E p \in Parts(r) : Alike(o, p)
  <2>1. PICK i \in 1..n : o = s[i]
    BY <1>4
  <2>2. PICK j \in DOMAIN q : f[q[j]] = f[i]
    BY <1>5
  <2>3. f[i] \in StringOf(o) \cap StringOf(r.array[j])
    BY <1>3, <1>4, <1>5, <1>7, <2>1, <2>2
  <2> QED  BY <1>7, <1>8, <2>2, <2>3 DEF Alike
<1>10. ASSUME NEW i \in DOMAIN r.array, NEW j \in DOMAIN r.array, i # j,
              Alike(r.array[i], r.array[j]), Steady(r.array[i])
       PROVE  FALSE
  <2> DEFINE a == r.array[i]
             b == r.array[j]
  <2>1. a \in Parts(v) /\ b \in Parts(v)
    BY <1>4, <1>5, <1>7
  <2>2. Shallow(a) /\ Shallow(b)
    <3> HIDE DEF a, b
    <3> QED  BY <2>1, PartsShallow
  <2>3. f[q[i]] \in StringOf(a) /\ f[q[j]] \in StringOf(b) /\ f[q[i]] # f[q[j]]
    BY <1>3, <1>4, <1>5, <1>7, <1>10
  <2>4. Alike(a, b) /\ Steady(a)
    BY <1>10
  <2> HIDE DEF a, b
  <2> QED  BY <2>2, <2>3, <2>4, AlikeSteady
<1>11. ASSUME r.array # <<>>  PROVE r.array[1] = s[1]
  <2>1. q # <<>>
    <3>1. ASSUME q = <<>>  PROVE r.array = <<>>
      <4>1. DOMAIN q = {}
        BY <3>1
      <4>2. r.array = [i \in {} |-> s[q[i]]]
        BY <1>6, <4>1 DEF At
      <4> QED  BY <4>2
    <3> QED  BY <1>11, <3>1
  <2> QED  BY <1>5, <1>7, <2>1
<1> QED  BY <1>9, <1>10, <1>11 DEF UniqueMeets, s

\* array_contains and unique answer by the texts of the elements, as array.go
\* has it: what they find has a text in common with what was asked for, what
\* they miss is missing or has a map of several keys in it, and of the elements
\* of one text unique keeps one, the first of all of them the first.
THEOREM TextsDecided == Spec => []TextsDecide
<1>1. ScriptInv => TextsDecide
  <2> SUFFICES ASSUME ScriptInv  PROVE TextsDecide
    OBVIOUS
  <2>1. ASSUME NEW fn, Returned(fn)
        PROVE  /\ x \notin {Error, Panic} /\ Shallow(Was)
               /\ Returns(fn, Last(trail).args, Was, x)
    BY <2>1 DEF ScriptInv, Returned, Called, Was
  <2>2. ASSUME Returned("array_contains")
        PROVE  ContainsMeets(Was, Arg(1), x)
    <3>1. PICK o : Last(trail).args = <<o>> /\ x \in array_contains(Was, o)
      BY <2>1, <2>2 DEF Returns
    <3>2. Arg(1) = o
      BY <3>1 DEF Arg
    <3> QED  BY <2>1, <2>2, <3>1, <3>2, ContainsMeetsDoc
  <2>3. ASSUME Returned("unique")
        PROVE  UniqueMeets(Was, x)
    <3>1. x \in unique(Was)
      BY <2>1, <2>3 DEF Returns
    <3> QED  BY <2>1, <2>3, <3>1, UniqueMeetsDoc
  <2> QED  BY <2>2, <2>3 DEF TextsDecide, ContainsMeets, UniqueMeets
<1> QED  BY <1>1, ScriptInvariance, PTL

-----------------------------------------------------------------------------
(* Floats that are rounded again.                                          *)

\* A multiple of the unit is not rounded.
LEMMA MultipleKept ==
    ASSUME NEW unit \in Nat, unit > 0, NEW k \in Nat
    PROVE  unit * k \in Nat /\ Rounded(unit * k, unit) = unit * k
<1> DEFINE m == unit * k
           a == m \div unit
           p == unit * a
<1>1. m \in Nat
  OBVIOUS
<1>2. /\ a \in Nat /\ p \in Nat /\ m % unit \in 0..(unit - 1)
      /\ m = p + (m % unit)
      /\ Rounded(m, unit) = p + (IF Up(m, unit) THEN unit ELSE 0)
  <2> HIDE DEF m
  <2> QED  BY <1>1, RoundedBetween
<1>3. a < k => p + unit <= m
  <2> HIDE DEF a
  <2> QED  BY <1>2, MultiplesApart
<1>4. k < a => m + unit <= p
  <2> HIDE DEF a
  <2> QED  BY <1>2, MultiplesApart
<1>5. a = k => p = m
  <2> HIDE DEF a
  <2> QED  BY Zenon
<1> HIDE DEF m, a, p
<1>6. m % unit = 0 /\ p = m
  BY <1>1, <1>2, <1>3, <1>4, <1>5
<1>7. ~Up(m, unit)
  BY <1>6 DEF Up
<1> QED  BY <1>1, <1>2, <1>6, <1>7 DEF m

\* What was rounded is a float, and is not rounded again.
LEMMA RoundedOnce ==
    ASSUME NEW h \in Nat, h < Infinite, NEW r, r = Nearest(h), r < Infinite
    PROVE  r \in Nat /\ Nearest(r) = r
<1>1. /\ 2^(FloatBits + IntBits) \in Nat /\ Infinite \in Nat
      /\ h < 2^(FloatBits + IntBits)
      /\ Infinite <= 2^(FloatBits + IntBits)
  BY Bits, TwoNat
<1>2. PICK e : Scale(h, e)
  BY <1>1, ScaleExists
<1> DEFINE unit == 2^e
<1>3. Magnitude(h) = h /\ ~(h < 0)
  BY DEF Magnitude
<1>4. r = Rounded(h, unit)
  BY <1>2, <1>3, NearestIsRounded
<1>5. /\ e \in Nat /\ e <= IntBits /\ unit \in Nat /\ unit > 0 /\ r \in Nat
      /\ r <= 2^(FloatBits + e)
      /\ e > 0 => 2^(FloatBits + (e - 1)) <= r
  <2>1. e <= IntBits
    BY <1>2 DEF Scale
  <2> QED  BY <1>2, <1>4, <2>1, RoundedInScale
<1>6. Magnitude(r) = r /\ ~(r < 0)
  BY <1>5 DEF Magnitude
<1>7. CASE r < 2^(FloatBits + e)
  <2>1. ASSUME NEW d \in 0..(e - 1)  PROVE r >= 2^(FloatBits + d)
    <3>1. /\ FloatBits + d \in Nat /\ FloatBits + (e - 1) \in Nat
          /\ FloatBits + d <= FloatBits + (e - 1) /\ e > 0
      BY <1>5, Bits
    <3>2. 2^(FloatBits + d) <= 2^(FloatBits + (e - 1))
      BY <3>1, TwoGrows
    <3>3. 2^(FloatBits + d) \in Nat /\ 2^(FloatBits + (e - 1)) \in Nat
      BY <3>1, TwoNat
    <3> QED  BY <1>5, <3>1, <3>2, <3>3
  <2>2. Scale(r, e)
    BY <1>5, <1>7, <2>1, Bits DEF Scale
  <2>3. Nearest(r) = Rounded(r, unit)
    BY <1>5, <1>6, <2>2, NearestIsRounded
  <2>4. PICK k \in Nat : r = unit * k
    <3> DEFINE a == h \div unit
    <3>1. /\ a \in Nat
          /\ r = unit * a + (IF Up(h, unit) THEN unit ELSE 0)
      <4> HIDE DEF unit
      <4> QED  BY <1>4, <1>5, RoundedBetween
    <3>2. unit * (a + 1) = unit * a + unit /\ unit * a = unit * a + 0
      <4> HIDE DEF unit, a
      <4> QED  BY <1>5, <3>1
    <3> HIDE DEF a, unit
    <3>3. r = unit * a \/ r = unit * (a + 1)
      BY <3>1, <3>2
    <3> QED  BY <3>1, <3>3
  <2> HIDE DEF unit
  <2>5. Rounded(r, unit) = r
    BY <1>5, <2>4, MultipleKept
  <2> QED  BY <1>5, <2>3, <2>5
<1>8. CASE ~(r < 2^(FloatBits + e))
  <2>1. FloatBits + e \in Nat /\ 2^(FloatBits + e) \in Nat
    BY <1>5, Bits, TwoNat
  <2>2. r = 2^(FloatBits + e)
    BY <1>5, <1>8, <2>1
  <2>3. e < IntBits
    <3>1. ASSUME e = IntBits  PROVE FALSE
      BY <1>1, <1>5, <2>2, <3>1
    <3> QED  BY <1>5, <3>1, Bits
  <2> DEFINE f == e + 1
             twice == 2^f
  <2>4. f \in Nat /\ f <= IntBits /\ FloatBits + f = (FloatBits + e) + 1
    BY <1>5, <2>3, Bits
  <2>5. twice \in Nat /\ twice > 0
    <3> HIDE DEF f
    <3> QED  BY <2>4, TwoPositive
  <2>6. r < 2^(FloatBits + f)
    <3>1. 2^((FloatBits + e) + 1) = 2 * 2^(FloatBits + e)
      BY <2>1, TwoSuc
    <3>2. 2^(FloatBits + e) > 0
      BY <2>1, TwoPositive
    <3>3. 2^(FloatBits + f) = 2 * 2^(FloatBits + e)
      BY <2>4, <3>1
    <3> QED  BY <2>1, <2>2, <3>2, <3>3
  <2>7. ASSUME NEW d \in 0..(f - 1)  PROVE r >= 2^(FloatBits + d)
    <3>1. FloatBits + d \in Nat /\ FloatBits + d <= FloatBits + e
      BY <1>5, <2>4, Bits
    <3>2. 2^(FloatBits + d) <= 2^(FloatBits + e) /\ 2^(FloatBits + d) \in Nat
      BY <2>1, <3>1, TwoGrows, TwoNat
    <3> QED  BY <2>1, <2>2, <3>2
  <2>8. Scale(r, f)
    <3> HIDE DEF f
    <3> QED  BY <2>4, <2>6, <2>7, Bits DEF Scale
  <2>9. Nearest(r) = Rounded(r, twice)
    <3> HIDE DEF f
    <3> QED  BY <1>5, <1>6, <2>8, NearestIsRounded
  <2>10. r = twice * 2^(FloatBits - 1) /\ 2^(FloatBits - 1) \in Nat
    <3>1. FloatBits - 1 \in Nat /\ FloatBits + e = f + (FloatBits - 1)
      BY <1>5, Bits
    <3> HIDE DEF f
    <3>2. 2^(f + (FloatBits - 1)) = 2^f * 2^(FloatBits - 1)
      BY <2>4, <3>1, TwoSum
    <3> QED  BY <2>2, <3>1, <3>2, TwoNat
  <2> HIDE DEF twice
  <2>11. Rounded(r, twice) = r
    BY <2>5, <2>10, MultipleKept
  <2> QED  BY <1>5, <2>9, <2>11
<1> QED  BY <1>7, <1>8

LEMMA NearestIsFloat ==
    ASSUME NEW h \in Int, Magnitude(h) < Infinite, Magnitude(Nearest(h)) < Infinite
    PROVE  Nearest(h) \in Int /\ Nearest(Nearest(h)) = Nearest(h)
<1>1. /\ Infinite \in Nat /\ 2^(FloatBits + IntBits) \in Nat
      /\ Infinite <= 2^(FloatBits + IntBits)
  BY Bits, TwoNat
<1>2. CASE h >= 0
  <2>1. h \in Nat /\ h < Infinite
    BY <1>2 DEF Magnitude
  <2>2. Nearest(h) \in Nat
    BY <1>1, <2>1, NearestGrowsOnNaturals
  <2>3. Nearest(h) < Infinite
    BY <2>2 DEF Magnitude
  <2> QED  BY <2>1, <2>2, <2>3, RoundedOnce
<1>3. CASE h < 0
  <2> DEFINE m == -h
             r == Nearest(m)
  <2>1. m \in Nat /\ m > 0 /\ m < Infinite /\ -m = h
    BY <1>3 DEF Magnitude
  <2> HIDE DEF m
  <2>2. r \in Nat /\ Nearest(h) = -r
    BY <1>1, <2>1, NearestGrowsOnNaturals, NearestMirrors
  <2> HIDE DEF r
  <2>3. r < Infinite
    BY <1>1, <2>2 DEF Magnitude
  <2>4. Nearest(r) = r
    BY <2>1, <2>3, RoundedOnce DEF r
  <2>5. CASE r = 0
    BY <2>2, <2>4, <2>5
  <2>6. CASE r > 0
    <3>1. Nearest(-r) = -Nearest(r)
      BY <1>1, <2>2, <2>3, <2>6, NearestMirrors
    <3> QED  BY <2>2, <2>4, <3>1
  <2> QED  BY <2>2, <2>5, <2>6
<1> QED  BY <1>2, <1>3

\* The float of an integer.
LEMMA NearestOfInteger ==
    ASSUME NEW i \in IntMin..IntMax
    PROVE  /\ 2 * i \in Int /\ Magnitude(2 * i) < Infinite
           /\ Nearest(2 * i) \in Int /\ Magnitude(Nearest(2 * i)) < Infinite
           /\ Nearest(Nearest(2 * i)) = Nearest(2 * i)
<1> DEFINE h == 2 * i
           m == Magnitude(h)
<1>1. /\ h \in Int /\ m \in Nat /\ m <= 2^IntBits
      /\ Infinite = 4 * 2^IntBits /\ 2^IntBits \in Nat
  BY Bits DEF Magnitude
<1>2. 2^IntBits > 0
  BY TwoPositive, Bits
<1> HIDE DEF h
<1>3. m < Infinite /\ m < 2^(FloatBits + IntBits)
  <2> HIDE DEF m
  <2> QED  BY <1>1, <1>2, Bits, TwoNat
<1>4. PICK e : Scale(m, e)
  <2> HIDE DEF m
  <2> QED  BY <1>1, <1>3, ScaleExists
<1> DEFINE r == Rounded(m, 2^e)
<1>5. Nearest(h) = IF h < 0 THEN -r ELSE r
  BY <1>1, <1>4, NearestIsRounded
<1>6. r \in Nat /\ r < Infinite
  <2> DEFINE unit == 2^e
             a == m \div unit
             p == unit * a
  <2>1. e \in Nat /\ e <= IntBits /\ unit \in Nat /\ unit > 0
    <3> HIDE DEF m
    <3>1. e \in Nat /\ e <= IntBits
      BY <1>1, <1>4, Bits DEF Scale
    <3> QED  BY <3>1, TwoPositive
  <2>2. unit <= 2^IntBits
    BY <2>1, Bits, TwoGrows
  <2>3. /\ p \in Nat /\ m % unit \in 0..(unit - 1) /\ m = p + (m % unit)
        /\ Rounded(m, unit) \in Nat /\ Rounded(m, unit) <= p + unit
    <3> HIDE DEF m, unit
    <3> QED  BY <1>1, <2>1, RoundedBetween
  <2> HIDE DEF p, unit, m
  <2>4. Rounded(m, unit) <= m + unit
    BY <1>1, <2>1, <2>3
  <2>5. Rounded(m, unit) \in Nat /\ Rounded(m, unit) < Infinite
    BY <1>1, <1>2, <2>1, <2>2, <2>3, <2>4
  <2> QED  BY <2>5 DEF unit
<1> HIDE DEF r
<1>7. Nearest(h) \in Int /\ Magnitude(Nearest(h)) < Infinite
  BY <1>1, <1>5, <1>6, Bits DEF Magnitude
<1>8. Nearest(Nearest(h)) = Nearest(h)
  BY <1>1, <1>3, <1>7, NearestIsFloat
<1> QED  BY <1>1, <1>3, <1>7, <1>8 DEF h

-----------------------------------------------------------------------------
(* Values that are rebuilt, part by part.                                  *)

LEMMA PartsInside ==
    ASSUME NEW o, Shallow(o), NEW p \in Inside(o), NEW q \in Parts(p)
    PROVE  q \in Inside(o)
<1>1. PICK n \in 0..MaxNesting : p \in Levels(o)[n]
  BY InsideIs
<1> QED  BY <1>1, InsideClosed

Simple(p) == ~Is(p, "array") /\ ~Is(p, "map")

\* An array is a function of its indices, and a map of its keys.
Proper(p) ==
    /\ Is(p, "array") => p = Array(p.array) /\ p.array = [i \in DOMAIN p.array |-> p.array[i]]
    /\ Is(p, "map") => p = Map(p.map) /\ p.map = [k \in DOMAIN p.map |-> p.map[k]]

LEMMA PartsAre ==
    ASSUME NEW p
    PROVE  /\ Is(p, "array") => ~Is(p, "map") /\ Parts(p) = {p.array[i] : i \in DOMAIN p.array}
           /\ Is(p, "map") => ~Is(p, "array") /\ Parts(p) = {p.map[k] : k \in DOMAIN p.map}
           /\ Simple(p) => Parts(p) = {}
  BY DEF Parts, Is, Simple

Elements(p, f) == [i \in DOMAIN p.array |-> f[p.array[i]]]
Entries(p, f) == [k \in DOMAIN p.map |-> f[p.map[k]]]

LEMMA ElementsAre ==
    ASSUME NEW p, NEW f
    PROVE  /\ DOMAIN Elements(p, f) = DOMAIN p.array
           /\ \A i \in DOMAIN p.array : Elements(p, f)[i] = f[p.array[i]]
           /\ DOMAIN Entries(p, f) = DOMAIN p.map
           /\ \A k \in DOMAIN p.map : Entries(p, f)[k] = f[p.map[k]]
  BY DEF Elements, Entries

LEMMA ElementsSame ==
    ASSUME NEW p, NEW f, NEW g, \A q \in Parts(p) : f[q] = g[q]
    PROVE  /\ Is(p, "array") => Elements(p, f) = Elements(p, g)
           /\ Is(p, "map") => Entries(p, f) = Entries(p, g)
<1>1. ASSUME Is(p, "array")  PROVE Elements(p, f) = Elements(p, g)
  <2>1. \A i \in DOMAIN p.array : f[p.array[i]] = g[p.array[i]]
    BY <1>1, PartsAre
  <2> QED  BY <2>1 DEF Elements
<1>2. ASSUME Is(p, "map")  PROVE Entries(p, f) = Entries(p, g)
  <2>1. \A k \in DOMAIN p.map : f[p.map[k]] = g[p.map[k]]
    BY <1>2, PartsAre
  <2> QED  BY <2>1 DEF Entries
<1> QED  BY <1>1, <1>2

LEMMA RebuiltIs ==
    ASSUME NEW p, NEW f, NEW l
    PROVE  /\ Is(p, "array") => Rebuilt(p, f, l) = Array(Elements(p, f))
           /\ Is(p, "map") => Rebuilt(p, f, l) = Map(Entries(p, f))
           /\ Simple(p) => Rebuilt(p, f, l) = l
  BY PartsAre DEF Rebuilt, Simple, Elements, Entries

LEMMA RebuiltDepends ==
    ASSUME NEW p, NEW g, NEW h, NEW l, \A q \in Parts(p) : g[q] = h[q]
    PROVE  Rebuilt(p, g, l) = Rebuilt(p, h, l)
  BY RebuiltIs, ElementsSame DEF Simple

\* f rebuilds all that is in o, with the leaves that leaf has.
Rebuilds(f, o, leaf) == f = [p \in Inside(o) |-> Rebuilt(p, f, leaf[p])]

LEMMA RebuildingExists ==
    ASSUME NEW o, Shallow(o), NEW leaf  PROVE \E f : Rebuilds(f, o, leaf)
<1> DEFINE From(n) == {p \in Inside(o) : \E m \in n..MaxNesting : p \in Levels(o)[m]}
           Right(f, n) == /\ DOMAIN f = Inside(o)
                          /\ f = [p \in Inside(o) |-> f[p]]
                          /\ \A p \in From(n) : f[p] = Rebuilt(p, f, leaf[p])
           Good == {k \in 0..MaxNesting : \E f : Right(f, MaxNesting - k)}
           Bad == (0..MaxNesting) \ Good
<1>1. MaxNesting \in Nat
  BY BitsAssumption
<1>2. ASSUME NEW f, NEW g, NEW n \in 0..MaxNesting,
             \A m \in (n + 1)..MaxNesting : \A p \in Levels(o)[m] : f[p] = Rebuilt(p, f, leaf[p]),
             g = [p \in Inside(o) |-> Rebuilt(p, f, leaf[p])]
      PROVE  Right(g, n)
  <2>1. ASSUME NEW p \in From(n)  PROVE g[p] = Rebuilt(p, g, leaf[p])
    <3>1. PICK m \in n..MaxNesting : p \in Levels(o)[m]
      OBVIOUS
    <3>2. m \in 0..MaxNesting /\ p \in Inside(o)
      BY <1>1, <3>1
    <3>3. ASSUME NEW q \in Parts(p)  PROVE g[q] = f[q]
      <4>1. m < MaxNesting /\ q \in Levels(o)[m + 1] /\ q \in Inside(o)
        BY <3>1, <3>2, InsideClosed
      <4>2. m + 1 \in (n + 1)..MaxNesting
        BY <1>1, <4>1
      <4>3. g[q] = Rebuilt(q, f, leaf[q])
        BY <1>2, <4>1
      <4> QED  BY <1>2, <4>1, <4>2, <4>3
    <3>4. Rebuilt(p, g, leaf[p]) = Rebuilt(p, f, leaf[p])
      BY <3>3, RebuiltDepends
    <3> QED  BY <1>2, <3>2, <3>4
  <2>2. DOMAIN g = Inside(o) /\ g = [p \in Inside(o) |-> g[p]]
    BY <1>2
  <2> QED  BY <2>1, <2>2
<1>3. 0 \in Good
  <2> DEFINE f == [p \in Inside(o) |-> {}]
             g == [p \in Inside(o) |-> Rebuilt(p, f, leaf[p])]
  <2>1. \A m \in (MaxNesting + 1)..MaxNesting :
           \A p \in Levels(o)[m] : f[p] = Rebuilt(p, f, leaf[p])
    BY <1>1
  <2>2. MaxNesting \in 0..MaxNesting /\ 0 \in 0..MaxNesting /\ MaxNesting - 0 = MaxNesting
    BY <1>1
  <2> HIDE DEF f, Right
  <2>3. g = [p \in Inside(o) |-> Rebuilt(p, f, leaf[p])]
    OBVIOUS
  <2> HIDE DEF g
  <2>4. Right(g, MaxNesting)
    BY <1>2, <2>1, <2>2, <2>3
  <2> QED  BY <2>2, <2>4
<1>4. ASSUME NEW k \in Good, k < MaxNesting  PROVE k + 1 \in Good
  <2>1. PICK f : Right(f, MaxNesting - k)
    OBVIOUS
  <2> DEFINE n == MaxNesting - (k + 1)
             g == [p \in Inside(o) |-> Rebuilt(p, f, leaf[p])]
  <2>2. /\ k + 1 \in 0..MaxNesting /\ n \in 0..MaxNesting /\ n + 1 = MaxNesting - k
        /\ MaxNesting - k \in 0..MaxNesting
    BY <1>1, <1>4
  <2>3. ASSUME NEW m \in (n + 1)..MaxNesting, NEW p \in Levels(o)[m]
        PROVE  f[p] = Rebuilt(p, f, leaf[p])
    <3>1. m \in (MaxNesting - k)..MaxNesting /\ m \in 0..MaxNesting
      BY <1>1, <2>2
    <3>2. p \in Inside(o)
      BY <3>1, <2>3, InsideIs
    <3>3. p \in From(MaxNesting - k)
      BY <2>3, <3>1, <3>2
    <3> HIDE DEF From
    <3> QED  BY <2>1, <3>3
  <2>4. g = [p \in Inside(o) |-> Rebuilt(p, f, leaf[p])]
    OBVIOUS
  <2> HIDE DEF g, n, Right
  <2>5. Right(g, n)
    BY <1>2, <2>2, <2>3, <2>4
  <2>6. Right(g, MaxNesting - (k + 1))
    BY <2>5 DEF n
  <2> QED  BY <2>2, <2>6
<1>5. MaxNesting \in Good
  <2>1. SUFFICES ASSUME Bad # {}  PROVE MaxNesting \in Good
    <3>1. MaxNesting \in 0..MaxNesting
      BY <1>1
    <3> HIDE DEF Good
    <3> QED  BY <2>1, <3>1
  <2>2. PICK m \in Bad : \A k \in Bad : m <= k
    <3>1. Bad \in SUBSET Nat
      BY <1>1
    <3> HIDE DEF Bad
    <3> QED  BY <2>1, <3>1, Least
  <2> HIDE DEF Good
  <2>3. m # 0 /\ m \in 0..MaxNesting /\ m \notin Good
    BY <1>3, <2>2
  <2>4. m - 1 \in Good
    BY <1>1, <2>2, <2>3
  <2> DEFINE k == m - 1
  <2>5. k + 1 = m /\ k < MaxNesting /\ k \in Good
    BY <1>1, <2>3, <2>4
  <2> HIDE DEF k
  <2> QED  BY <1>4, <2>3, <2>5
<1>6. PICK f : Right(f, 0)
  <2>1. PICK f : Right(f, MaxNesting - MaxNesting)
    BY <1>5
  <2>2. MaxNesting - MaxNesting = 0
    BY <1>1
  <2> HIDE DEF Right
  <2> QED  BY <2>1, <2>2
<1>7. \A p \in Inside(o) : p \in From(0)
  BY InsideIs
<1>8. \A p \in Inside(o) : f[p] = Rebuilt(p, f, leaf[p])
  BY <1>6, <1>7
<1>9. f = [p \in Inside(o) |-> Rebuilt(p, f, leaf[p])]
  BY <1>6, <1>8
<1> QED  BY <1>9 DEF Rebuilds

\* What is rebuilt has the shape of what it was.
LEMMA RebuiltShape ==
    ASSUME NEW p, NEW f, NEW l, Simple(p) => Simple(l)
    PROVE  /\ Is(p, "array") <=> Is(Rebuilt(p, f, l), "array")
           /\ Is(p, "map") <=> Is(Rebuilt(p, f, l), "map")
           /\ \A z : z \in Parts(Rebuilt(p, f, l)) <=> \E q \in Parts(p) : z = f[q]
<1> DEFINE r == Rebuilt(p, f, l)
<1>1. CASE Is(p, "array")
  <2> DEFINE s == Elements(p, f)
  <2>1. r = Array(s)
    BY <1>1, RebuiltIs
  <2>2. DOMAIN s = DOMAIN p.array /\ \A i \in DOMAIN s : s[i] = f[p.array[i]]
    BY ElementsAre
  <2> HIDE DEF s, r
  <2>3. Is(r, "array") /\ ~Is(r, "map") /\ r.array = s
    BY <2>1 DEF Array, Is
  <2>4. Parts(r) = {s[i] : i \in DOMAIN s}
    BY <2>3, PartsAre
  <2>5. \A z : z \in Parts(r) <=> \E q \in Parts(p) : z = f[q]
    BY <1>1, <2>2, <2>4, PartsAre
  <2> QED  BY <1>1, <2>3, <2>5, PartsAre DEF r
<1>2. CASE Is(p, "map")
  <2> DEFINE s == Entries(p, f)
  <2>1. r = Map(s)
    BY <1>2, RebuiltIs
  <2>2. DOMAIN s = DOMAIN p.map /\ \A i \in DOMAIN s : s[i] = f[p.map[i]]
    BY ElementsAre
  <2> HIDE DEF s, r
  <2>3. Is(r, "map") /\ ~Is(r, "array") /\ r.map = s
    BY <2>1 DEF Map, Is
  <2>4. Parts(r) = {s[i] : i \in DOMAIN s}
    BY <2>3, PartsAre
  <2>5. \A z : z \in Parts(r) <=> \E q \in Parts(p) : z = f[q]
    BY <1>2, <2>2, <2>4, PartsAre
  <2> QED  BY <1>2, <2>3, <2>5, PartsAre DEF r
<1>3. CASE Simple(p)
  BY <1>3, RebuiltIs, PartsAre DEF Simple
<1> QED  BY <1>1, <1>2, <1>3 DEF Simple

LEMMA RebuiltInside ==
    ASSUME NEW o, Shallow(o), NEW leaf, NEW f, Rebuilds(f, o, leaf),
           \A p \in Inside(o) : Simple(p) => Simple(leaf[p])
    PROVE  /\ Shallow(f[o])
           /\ \A z : z \in Inside(f[o]) <=> \E p \in Inside(o) : z = f[p]
<1>1. MaxNesting \in Nat
  BY BitsAssumption
<1>2. ASSUME NEW n \in 0..MaxNesting, NEW p \in Levels(o)[n]
      PROVE  /\ p \in Inside(o)
             /\ \A z : z \in Parts(f[p]) <=> \E q \in Parts(p) : z = f[q]
  <2>1. p \in Inside(o)
    BY InsideIs
  <2>2. f[p] = Rebuilt(p, f, leaf[p])
    BY <2>1 DEF Rebuilds
  <2> QED  BY <2>1, <2>2, RebuiltShape
<1> DEFINE Same(n) == \A z : z \in Levels(f[o])[n] <=> \E p \in Levels(o)[n] : z = f[p]
           Bad == {n \in 0..MaxNesting : ~Same(n)}
<1>3. Bad = {}
  <2>1. SUFFICES ASSUME Bad # {}  PROVE FALSE
    OBVIOUS
  <2>2. PICK m \in Bad : \A k \in Bad : m <= k
    <3>1. Bad \in SUBSET Nat
      BY <1>1
    <3> HIDE DEF Bad
    <3> QED  BY <2>1, <3>1, Least
  <2>3. m \in 0..MaxNesting /\ ~Same(m)
    BY <2>2
  <2>4. m # 0
    <3>1. Levels(f[o])[0] = {f[o]} /\ Levels(o)[0] = {o}
      BY LevelsAre
    <3>2. Same(0)
      BY <3>1
    <3> HIDE DEF Same
    <3> QED  BY <2>3, <3>2
  <2> DEFINE n == m - 1
  <2>5. n \in Nat /\ n \in 0..MaxNesting /\ n < MaxNesting /\ n + 1 = m /\ n < m
    BY <1>1, <2>3, <2>4
  <2>6. Same(n)
    <3> HIDE DEF n, Same
    <3>1. n \notin Bad
      <4> HIDE DEF Bad
      <4> QED  BY <2>2, <2>3, <2>5
    <3> QED  BY <2>5, <3>1
  <2> HIDE DEF n, Bad
  <2>7. ASSUME NEW z \in Levels(f[o])[n + 1]  PROVE \E q \in Levels(o)[n + 1] : z = f[q]
    <3>1. PICK y \in Levels(f[o])[n] : z \in Parts(y)
      BY <2>5, NextLevel
    <3>2. PICK p \in Levels(o)[n] : y = f[p]
      BY <2>6
    <3>3. PICK q \in Parts(p) : z = f[q]
      BY <1>2, <2>5, <3>1, <3>2
    <3> QED  BY <2>5, <3>2, <3>3, NextLevel
  <2>8. ASSUME NEW q \in Levels(o)[n + 1]  PROVE f[q] \in Levels(f[o])[n + 1]
    <3>1. PICK p \in Levels(o)[n] : q \in Parts(p)
      BY <2>5, NextLevel
    <3>2. f[p] \in Levels(f[o])[n]
      BY <2>6, <3>1
    <3>3. f[q] \in Parts(f[p])
      BY <1>2, <2>5, <3>1
    <3> QED  BY <2>5, <3>2, <3>3, NextLevel
  <2>9. Same(n + 1)
    BY <2>7, <2>8
  <2> HIDE DEF Same
  <2> QED  BY <2>3, <2>5, <2>9
<1>4. \A n \in 0..MaxNesting : Same(n)
  <2> HIDE DEF Same
  <2> QED  BY <1>3
<1>5. Shallow(f[o])
  <2> SUFFICES ASSUME NEW z \in Levels(f[o])[MaxNesting]  PROVE Parts(z) = {}
    BY DEF Shallow
  <2>1. MaxNesting \in 0..MaxNesting
    BY <1>1
  <2>2. PICK p \in Levels(o)[MaxNesting] : z = f[p]
    BY <1>4, <2>1
  <2>3. Parts(p) = {}
    BY <2>2 DEF Shallow
  <2> QED  BY <1>2, <2>1, <2>2, <2>3
<1>6. ASSUME NEW z \in Inside(f[o])  PROVE \E p \in Inside(o) : z = f[p]
  <2>1. PICK n \in 0..MaxNesting : z \in Levels(f[o])[n]
    BY InsideIs
  <2>2. PICK p \in Levels(o)[n] : z = f[p]
    BY <1>4, <2>1
  <2> QED  BY <1>2, <2>1, <2>2
<1>7. ASSUME NEW p \in Inside(o)  PROVE f[p] \in Inside(f[o])
  <2>1. PICK n \in 0..MaxNesting : p \in Levels(o)[n]
    BY InsideIs
  <2>2. f[p] \in Levels(f[o])[n]
    BY <1>4, <2>1
  <2> QED  BY <2>1, <2>2, InsideIs
<1> QED  BY <1>5, <1>6, <1>7

LEMMA ElementsTwice ==
    ASSUME NEW p, Is(p, "array"), NEW f, NEW g, NEW h, NEW l,
           \A q \in Parts(p) : h[q] = g[f[q]]
    PROVE  Rebuilt(Array(Elements(p, f)), g, l) = Array(Elements(p, h))
<1> DEFINE s == Elements(p, f)
           r == Array(s)
<1>1. DOMAIN s = DOMAIN p.array /\ \A i \in DOMAIN p.array : s[i] = f[p.array[i]]
  BY ElementsAre
<1>2. \A i \in DOMAIN p.array : h[p.array[i]] = g[f[p.array[i]]]
  BY PartsAre
<1> HIDE DEF s
<1>3. Is(r, "array") /\ r.array = s
  BY DEF Array, Is
<1>4. Rebuilt(r, g, l) = Array(Elements(r, g))
  BY <1>3, RebuiltIs
<1> HIDE DEF r
<1>5. Elements(r, g) = [i \in DOMAIN s |-> g[s[i]]]
  BY <1>3 DEF Elements
<1>6. Elements(r, g) = Elements(p, h)
  BY <1>1, <1>2, <1>5 DEF Elements
<1> QED  BY <1>4, <1>6 DEF r, s

LEMMA EntriesTwice ==
    ASSUME NEW p, Is(p, "map"), NEW f, NEW g, NEW h, NEW l,
           \A q \in Parts(p) : h[q] = g[f[q]]
    PROVE  Rebuilt(Map(Entries(p, f)), g, l) = Map(Entries(p, h))
<1> DEFINE s == Entries(p, f)
           r == Map(s)
<1>1. DOMAIN s = DOMAIN p.map /\ \A k \in DOMAIN p.map : s[k] = f[p.map[k]]
  BY ElementsAre
<1>2. \A k \in DOMAIN p.map : h[p.map[k]] = g[f[p.map[k]]]
  BY PartsAre
<1> HIDE DEF s
<1>3. Is(r, "map") /\ r.map = s
  BY DEF Map, Is
<1>4. Rebuilt(r, g, l) = Map(Entries(r, g))
  BY <1>3, RebuiltIs
<1> HIDE DEF r
<1>5. Entries(r, g) = [k \in DOMAIN s |-> g[s[k]]]
  BY <1>3 DEF Entries
<1>6. Entries(r, g) = Entries(p, h)
  BY <1>1, <1>2, <1>5 DEF Entries
<1> QED  BY <1>4, <1>6 DEF r, s

\* Rebuilt twice is rebuilt once, with the leaves of the leaves.
LEMMA RebuiltTwice ==
    ASSUME NEW o, Shallow(o), NEW a, NEW f, Rebuilds(f, o, a),
           \A p \in Inside(o) : Simple(p) => Simple(a[p]),
           NEW b, NEW g, Rebuilds(g, f[o], b)
    PROVE  \E h, c : /\ Rebuilds(h, o, c) /\ h[o] = g[f[o]]
                     /\ \A p \in Inside(o) : Simple(p) =>
                           c[p] = b[a[p]] /\ a[p] \in Inside(f[o])
<1> DEFINE h == [p \in Inside(o) |-> g[f[p]]]
           c == [p \in Inside(o) |-> b[a[p]]]
<1>1. ASSUME NEW p \in Inside(o)
      PROVE  /\ f[p] = Rebuilt(p, f, a[p]) /\ f[p] \in Inside(f[o])
             /\ g[f[p]] = Rebuilt(f[p], g, b[f[p]])
             /\ \A q \in Parts(p) : h[q] = g[f[q]]
  <2>1. f[p] = Rebuilt(p, f, a[p])
    BY DEF Rebuilds
  <2>2. f[p] \in Inside(f[o])
    BY RebuiltInside
  <2>3. g[f[p]] = Rebuilt(f[p], g, b[f[p]])
    BY <2>2 DEF Rebuilds
  <2> QED  BY <2>1, <2>2, <2>3, PartsInside
<1>2. DOMAIN h = Inside(o) /\ h = [p \in Inside(o) |-> h[p]]
  OBVIOUS
<1>3. \A p \in Inside(o) : h[p] = g[f[p]] /\ c[p] = b[a[p]]
  OBVIOUS
<1> HIDE DEF h, c
<1>4. ASSUME NEW p \in Inside(o)  PROVE h[p] = Rebuilt(p, h, c[p])
  <2>1. CASE Is(p, "array")
    <3>1. f[p] = Array(Elements(p, f))
      BY <1>1, <2>1, RebuiltIs
    <3>2. Rebuilt(Array(Elements(p, f)), g, b[f[p]]) = Array(Elements(p, h))
      BY <1>1, <2>1, ElementsTwice
    <3>3. h[p] = Rebuilt(f[p], g, b[f[p]])
      BY <1>1, <1>3
    <3>4. Rebuilt(p, h, c[p]) = Array(Elements(p, h))
      BY <2>1, RebuiltIs
    <3>5. h[p] = Rebuilt(Array(Elements(p, f)), g, b[f[p]])
      BY <3>1, <3>3, Zenon
    <3> QED  BY <3>2, <3>4, <3>5, Zenon
  <2>2. CASE Is(p, "map")
    <3>1. f[p] = Map(Entries(p, f))
      BY <1>1, <2>2, RebuiltIs
    <3>2. Rebuilt(Map(Entries(p, f)), g, b[f[p]]) = Map(Entries(p, h))
      BY <1>1, <2>2, EntriesTwice
    <3>3. h[p] = Rebuilt(f[p], g, b[f[p]])
      BY <1>1, <1>3
    <3>4. Rebuilt(p, h, c[p]) = Map(Entries(p, h))
      BY <2>2, RebuiltIs
    <3>5. h[p] = Rebuilt(Map(Entries(p, f)), g, b[f[p]])
      BY <3>1, <3>3, Zenon
    <3> QED  BY <3>2, <3>4, <3>5, Zenon
  <2>3. CASE Simple(p)
    <3>1. f[p] = a[p] /\ Simple(f[p])
      BY <1>1, <2>3, RebuiltIs
    <3>2. g[f[p]] = b[f[p]]
      BY <1>1, <3>1, RebuiltIs
    <3> QED  BY <1>3, <2>3, <3>1, <3>2, RebuiltIs
  <2> QED  BY <2>1, <2>2, <2>3 DEF Simple
<1>5. Rebuilds(h, o, c)
  BY <1>2, <1>4 DEF Rebuilds
<1>6. \A p \in Inside(o) : Simple(p) => c[p] = b[a[p]] /\ a[p] \in Inside(f[o])
  BY <1>1, <1>3, RebuiltIs
<1>7. h[o] = g[f[o]]
  BY <1>3, InsideIs
<1> QED  BY <1>5, <1>6, <1>7

\* What keeps its leaves keeps all.
LEMMA RebuiltSame ==
    ASSUME NEW o, Shallow(o), NEW leaf, NEW f, Rebuilds(f, o, leaf),
           \A p \in Inside(o) : Proper(p) /\ (Simple(p) => leaf[p] = p)
    PROVE  f[o] = o
<1>1. MaxNesting \in Nat
  BY BitsAssumption
<1>2. ASSUME NEW p \in Inside(o), \A q \in Parts(p) : f[q] = q  PROVE f[p] = p
  <2>1. f[p] = Rebuilt(p, f, leaf[p])
    BY DEF Rebuilds
  <2>2. CASE Is(p, "array")
    <3>1. \A i \in DOMAIN p.array : f[p.array[i]] = p.array[i]
      BY <1>2, <2>2, PartsAre
    <3>2. Elements(p, f) = p.array
      BY <2>2, <3>1 DEF Elements, Proper
    <3>3. p = Array(p.array)
      BY <2>2 DEF Proper
    <3>4. f[p] = Array(Elements(p, f))
      BY <2>1, <2>2, RebuiltIs
    <3> QED  BY <3>2, <3>3, <3>4, Zenon
  <2>3. CASE Is(p, "map")
    <3>1. \A k \in DOMAIN p.map : f[p.map[k]] = p.map[k]
      BY <1>2, <2>3, PartsAre
    <3>2. Entries(p, f) = p.map
      BY <2>3, <3>1 DEF Entries, Proper
    <3>3. p = Map(p.map)
      BY <2>3 DEF Proper
    <3>4. f[p] = Map(Entries(p, f))
      BY <2>1, <2>3, RebuiltIs
    <3> QED  BY <3>2, <3>3, <3>4, Zenon
  <2> QED  BY <2>1, <2>2, <2>3, RebuiltIs DEF Simple
<1> DEFINE Bad == {k \in 0..MaxNesting : \E p \in Levels(o)[MaxNesting - k] : f[p] # p}
<1>3. Bad = {}
  <2>1. SUFFICES ASSUME Bad # {}  PROVE FALSE
    OBVIOUS
  <2>2. PICK m \in Bad : \A k \in Bad : m <= k
    <3>1. Bad \in SUBSET Nat
      BY <1>1
    <3> HIDE DEF Bad
    <3> QED  BY <2>1, <3>1, Least
  <2>3. PICK p \in Levels(o)[MaxNesting - m] : f[p] # p
    BY <2>2
  <2> DEFINE n == MaxNesting - m
  <2>4. n \in 0..MaxNesting /\ m \in 0..MaxNesting /\ p \in Levels(o)[n]
    BY <1>1, <2>2, <2>3
  <2> HIDE DEF n
  <2>5. p \in Inside(o)
    BY <2>4, InsideIs
  <2>6. ASSUME NEW q \in Parts(p)  PROVE f[q] = q
    <3>1. n < MaxNesting /\ q \in Levels(o)[n + 1]
      BY <2>4, InsideClosed
    <3>2. m - 1 \in 0..MaxNesting /\ MaxNesting - (m - 1) = n + 1 /\ ~(m <= m - 1)
      BY <1>1, <2>4, <3>1 DEF n
    <3>3. m - 1 \notin Bad
      <4> HIDE DEF Bad
      <4> QED  BY <2>2, <3>2
    <3>4. \A z \in Levels(o)[MaxNesting - (m - 1)] : f[z] = z
      BY <3>2, <3>3
    <3> QED  BY <3>1, <3>2, <3>4
  <2> QED  BY <1>2, <2>3, <2>5, <2>6
<1>4. o \in Levels(o)[0] /\ MaxNesting \in 0..MaxNesting /\ MaxNesting - MaxNesting = 0
  BY <1>1, LevelsAre
<1>5. \A k \in 0..MaxNesting : \A p \in Levels(o)[MaxNesting - k] : f[p] = p
  BY <1>3
<1>6. \A p \in Levels(o)[MaxNesting - MaxNesting] : f[p] = p
  BY <1>4, <1>5
<1> QED  BY <1>4, <1>6

-----------------------------------------------------------------------------
(* What JSON makes of a value.                                             *)

LEMMA LeavesAreSimple ==
    \A p : Simple(p) => /\ Simple(GoLeaf(p)) /\ Simple(MarshalLeaf(p))
                        /\ Simple(UnmarshalLeaf(p)) /\ Simple(TengoLeaf(p))
<1> SUFFICES ASSUME NEW p, Simple(p)
             PROVE  /\ Simple(GoLeaf(p)) /\ Simple(MarshalLeaf(p))
                    /\ Simple(UnmarshalLeaf(p)) /\ Simple(TengoLeaf(p))
  OBVIOUS
<1>1. Simple(Nil) /\ Simple(Undefined) /\ \A h : Simple(Float(h)) /\ Simple([number |-> h])
  BY DEF Simple, Is, Nil, Undefined, Float
<1>2. \A t : Simple(String(t))
  BY DEF Simple, Is, String
<1>3. Simple(GoLeaf(p)) /\ Simple(TengoLeaf(p))
  BY <1>1 DEF GoLeaf, TengoLeaf
<1>4. Simple(UnmarshalLeaf(p))
  BY <1>1 DEF UnmarshalLeaf
<1>5. Simple(MarshalLeaf(p))
  BY <1>1, <1>2 DEF MarshalLeaf
<1> QED  BY <1>3, <1>4, <1>5

LEMMA GoRebuilds ==
    ASSUME NEW o, Shallow(o)
    PROVE  \E f, l : /\ Rebuilds(f, o, l) /\ tengoObjToGo(o) = f[o]
                     /\ \A p \in Inside(o) : l[p] = GoLeaf(p)
<1> DEFINE l == [p \in Inside(o) |-> GoLeaf(p)]
           Made(f) == f = [p \in Inside(o) |-> Rebuilt(p, f, GoLeaf(p))]
           f == CHOOSE f : Made(f)
<1>1. \A p \in Inside(o) : l[p] = GoLeaf(p)
  OBVIOUS
<1>2. tengoObjToGo(o) = Rebuilt(o, f, GoLeaf(o))
  BY DEF tengoObjToGo, Converted
<1> HIDE DEF l
<1>3. PICK g : Rebuilds(g, o, l)
  BY RebuildingExists
<1>4. Made(g)
  BY <1>1, <1>3 DEF Rebuilds
<1>5. Made(f)
  <2> HIDE DEF Made
  <2> QED  BY <1>4
<1> HIDE DEF f
<1>6. Rebuilds(f, o, l)
  BY <1>1, <1>5 DEF Rebuilds
<1>7. f[o] = Rebuilt(o, f, GoLeaf(o))
  BY <1>5, InsideIs
<1> QED  BY <1>1, <1>2, <1>6, <1>7

LEMMA MarshalRebuilds ==
    ASSUME NEW o, Shallow(o)
    PROVE  \E f, l : /\ Rebuilds(f, o, l) /\ Marshal(o) = f[o]
                     /\ \A p \in Inside(o) : l[p] = MarshalLeaf(p)
<1> DEFINE l == [p \in Inside(o) |-> MarshalLeaf(p)]
           Made(f) == f = [p \in Inside(o) |-> Rebuilt(p, f, MarshalLeaf(p))]
           f == CHOOSE f : Made(f)
<1>1. \A p \in Inside(o) : l[p] = MarshalLeaf(p)
  OBVIOUS
<1>2. Marshal(o) = Rebuilt(o, f, MarshalLeaf(o))
  BY DEF Marshal, Converted
<1> HIDE DEF l
<1>3. PICK g : Rebuilds(g, o, l)
  BY RebuildingExists
<1>4. Made(g)
  BY <1>1, <1>3 DEF Rebuilds
<1>5. Made(f)
  <2> HIDE DEF Made
  <2> QED  BY <1>4
<1> HIDE DEF f
<1>6. Rebuilds(f, o, l)
  BY <1>1, <1>5 DEF Rebuilds
<1>7. f[o] = Rebuilt(o, f, MarshalLeaf(o))
  BY <1>5, InsideIs
<1> QED  BY <1>1, <1>2, <1>6, <1>7

LEMMA UnmarshalRebuilds ==
    ASSUME NEW o, Shallow(o)
    PROVE  \E f, l : /\ Rebuilds(f, o, l) /\ Unmarshal(o) = f[o]
                     /\ \A p \in Inside(o) : l[p] = UnmarshalLeaf(p)
<1> DEFINE l == [p \in Inside(o) |-> UnmarshalLeaf(p)]
           Made(f) == f = [p \in Inside(o) |-> Rebuilt(p, f, UnmarshalLeaf(p))]
           f == CHOOSE f : Made(f)
<1>1. \A p \in Inside(o) : l[p] = UnmarshalLeaf(p)
  OBVIOUS
<1>2. Unmarshal(o) = Rebuilt(o, f, UnmarshalLeaf(o))
  BY DEF Unmarshal, Converted
<1> HIDE DEF l
<1>3. PICK g : Rebuilds(g, o, l)
  BY RebuildingExists
<1>4. Made(g)
  BY <1>1, <1>3 DEF Rebuilds
<1>5. Made(f)
  <2> HIDE DEF Made
  <2> QED  BY <1>4
<1> HIDE DEF f
<1>6. Rebuilds(f, o, l)
  BY <1>1, <1>5 DEF Rebuilds
<1>7. f[o] = Rebuilt(o, f, UnmarshalLeaf(o))
  BY <1>5, InsideIs
<1> QED  BY <1>1, <1>2, <1>6, <1>7

LEMMA TengoRebuilds ==
    ASSUME NEW o, Shallow(o)
    PROVE  \E f, l : /\ Rebuilds(f, o, l) /\ goToTengo(o) = f[o]
                     /\ \A p \in Inside(o) : l[p] = TengoLeaf(p)
<1> DEFINE l == [p \in Inside(o) |-> TengoLeaf(p)]
           Made(f) == f = [p \in Inside(o) |-> Rebuilt(p, f, TengoLeaf(p))]
           f == CHOOSE f : Made(f)
<1>1. \A p \in Inside(o) : l[p] = TengoLeaf(p)
  OBVIOUS
<1>2. goToTengo(o) = Rebuilt(o, f, TengoLeaf(o))
  BY DEF goToTengo, Converted
<1> HIDE DEF l
<1>3. PICK g : Rebuilds(g, o, l)
  BY RebuildingExists
<1>4. Made(g)
  BY <1>1, <1>3 DEF Rebuilds
<1>5. Made(f)
  <2> HIDE DEF Made
  <2> QED  BY <1>4
<1> HIDE DEF f
<1>6. Rebuilds(f, o, l)
  BY <1>1, <1>5 DEF Rebuilds
<1>7. f[o] = Rebuilt(o, f, TengoLeaf(o))
  BY <1>5, InsideIs
<1> QED  BY <1>1, <1>2, <1>6, <1>7

\* A leaf after the four conversions.
Settled(p) == TengoLeaf(UnmarshalLeaf(MarshalLeaf(GoLeaf(p))))

\* From what is marshalled on.
LEMMA FromJsonRebuilds ==
    ASSUME NEW g, Shallow(g)
    PROVE  \E f, l : /\ Rebuilds(f, g, l) /\ goToTengo(Unmarshal(Marshal(g))) = f[g]
                     /\ \A p \in Inside(g) : Simple(p) =>
                           l[p] = TengoLeaf(UnmarshalLeaf(MarshalLeaf(p)))
<1>1. PICK f, a : /\ Rebuilds(f, g, a) /\ Marshal(g) = f[g]
                  /\ \A p \in Inside(g) : a[p] = MarshalLeaf(p)
  BY MarshalRebuilds
<1>2. \A p \in Inside(g) : Simple(p) => Simple(a[p])
  BY <1>1, LeavesAreSimple
<1>3. Shallow(f[g])
  BY <1>1, <1>2, RebuiltInside
<1>4. PICK i, b : /\ Rebuilds(i, f[g], b) /\ Unmarshal(f[g]) = i[f[g]]
                  /\ \A p \in Inside(f[g]) : b[p] = UnmarshalLeaf(p)
  BY <1>3, UnmarshalRebuilds
<1>5. PICK h, c : /\ Rebuilds(h, g, c) /\ h[g] = i[f[g]]
                  /\ \A p \in Inside(g) : Simple(p) =>
                        c[p] = b[a[p]] /\ a[p] \in Inside(f[g])
  BY <1>1, <1>2, <1>4, RebuiltTwice
<1>6. ASSUME NEW p \in Inside(g), Simple(p)
      PROVE  c[p] = UnmarshalLeaf(MarshalLeaf(p)) /\ Simple(c[p])
  <2>1. c[p] = UnmarshalLeaf(MarshalLeaf(p))
    BY <1>1, <1>4, <1>5, <1>6
  <2>2. Simple(MarshalLeaf(p))
    BY <1>6, LeavesAreSimple
  <2> QED  BY <2>1, <2>2, LeavesAreSimple
<1>7. Shallow(h[g])
  BY <1>5, <1>6, RebuiltInside
<1>8. PICK j, d : /\ Rebuilds(j, h[g], d) /\ goToTengo(h[g]) = j[h[g]]
                  /\ \A p \in Inside(h[g]) : d[p] = TengoLeaf(p)
  BY <1>7, TengoRebuilds
<1>9. PICK k, e : /\ Rebuilds(k, g, e) /\ k[g] = j[h[g]]
                  /\ \A p \in Inside(g) : Simple(p) =>
                        e[p] = d[c[p]] /\ c[p] \in Inside(h[g])
  BY <1>5, <1>6, <1>8, RebuiltTwice
<1>10. ASSUME NEW p \in Inside(g), Simple(p)
       PROVE  e[p] = TengoLeaf(UnmarshalLeaf(MarshalLeaf(p)))
  <2>1. e[p] = TengoLeaf(c[p])
    BY <1>8, <1>9, <1>10
  <2> QED  BY <1>6, <1>10, <2>1
<1>11. goToTengo(Unmarshal(Marshal(g))) = k[g]
  BY <1>1, <1>4, <1>5, <1>8, <1>9
<1> QED  BY <1>9, <1>10, <1>11

\* What a value becomes for Go, and what it is when it comes back.
LEMMA JsonRebuilds ==
    ASSUME NEW o, Shallow(o)
    PROVE  /\ \E f, l : /\ Rebuilds(f, o, l) /\ tengoObjToGo(o) = f[o]
                        /\ \A p \in Inside(o) : l[p] = GoLeaf(p)
           /\ Shallow(tengoObjToGo(o))
           /\ \E f, l : /\ Rebuilds(f, o, l) /\ RoundTrip(o) = f[o]
                        /\ \A p \in Inside(o) : Simple(p) => l[p] = Settled(p)
<1>1. PICK f, a : /\ Rebuilds(f, o, a) /\ tengoObjToGo(o) = f[o]
                  /\ \A p \in Inside(o) : a[p] = GoLeaf(p)
  BY GoRebuilds
<1>2. \A p \in Inside(o) : Simple(p) => Simple(a[p])
  BY <1>1, LeavesAreSimple
<1>3. Shallow(f[o])
  BY <1>1, <1>2, RebuiltInside
<1>4. PICK g, b : /\ Rebuilds(g, f[o], b) /\ goToTengo(Unmarshal(Marshal(f[o]))) = g[f[o]]
                  /\ \A p \in Inside(f[o]) : Simple(p) =>
                        b[p] = TengoLeaf(UnmarshalLeaf(MarshalLeaf(p)))
  BY <1>3, FromJsonRebuilds
<1>5. PICK h, c : /\ Rebuilds(h, o, c) /\ h[o] = g[f[o]]
                  /\ \A p \in Inside(o) : Simple(p) =>
                        c[p] = b[a[p]] /\ a[p] \in Inside(f[o])
  BY <1>1, <1>2, <1>4, RebuiltTwice
<1>6. ASSUME NEW p \in Inside(o), Simple(p)  PROVE c[p] = Settled(p)
  <2>1. c[p] = b[a[p]] /\ a[p] \in Inside(f[o]) /\ a[p] = GoLeaf(p) /\ Simple(a[p])
    BY <1>1, <1>2, <1>5, <1>6
  <2> QED  BY <1>4, <2>1 DEF Settled
<1>7. RoundTrip(o) = h[o]
  BY <1>1, <1>4, <1>5 DEF RoundTrip
<1> QED  BY <1>1, <1>3, <1>5, <1>6, <1>7

LEMMA SettledIs ==
    /\ Settled(Undefined) = Undefined /\ Settled(Other) = Undefined
    /\ Settled(Endless) = Endless
    /\ \A p : Is(p, "bool") => Settled(p) = p
    /\ \A i : Settled(Int64(i)) = Float(Nearest(2 * i))
    /\ \A h : Settled(Float(h)) = Float(Nearest(h))
    /\ \A t : Settled(String(t)) = String(Valid(t))
    /\ \A t : Settled(Bytes(t)) = String(Encoding("base64", t))
<1>1. /\ GoLeaf(Undefined) = Nil /\ GoLeaf(Other) = Nil
      /\ \A p : ~Is(p, "undefined") /\ ~Is(p, "other") => GoLeaf(p) = p
      /\ TengoLeaf(Nil) = Undefined /\ \A p : ~Is(p, "nil") => TengoLeaf(p) = p
  BY DEF GoLeaf, TengoLeaf, Undefined, Other, Nil, Is
<1>2. /\ \A p : ~Is(p, "number") => UnmarshalLeaf(p) = p
      /\ \A h : UnmarshalLeaf([number |-> h]) = Float(Nearest(h))
  BY DEF UnmarshalLeaf, Is
<1>3. /\ \A p : Is(p, "nil") \/ Is(p, "bool") => MarshalLeaf(p) = p
      /\ \A i : MarshalLeaf(Int64(i)) = [number |-> 2 * i]
      /\ \A h : MarshalLeaf(Float(h)) = [number |-> h]
      /\ \A t : MarshalLeaf(String(t)) = String(Valid(t))
      /\ \A t : MarshalLeaf(Bytes(t)) = String(Encoding("base64", t))
  BY DEF MarshalLeaf, Is, Int64, Float, String, Bytes
<1>4. /\ Is(Nil, "nil") /\ \A i : Is(Int64(i), "int") /\ Is(Float(i), "float")
      /\ \A t : Is(String(t), "string") /\ Is(Bytes(t), "bytes")
  BY DEF Is, Nil, Int64, Float, String, Bytes
<1>5. \A p, s, t : Is(p, s) /\ Is(p, t) => s = t
  BY DEF Is
<1>6. Settled(Undefined) = Undefined /\ Settled(Other) = Undefined
  <2>1. MarshalLeaf(Nil) = Nil /\ UnmarshalLeaf(Nil) = Nil
    BY <1>2, <1>3, <1>4, <1>5
  <2> QED  BY <1>1, <2>1 DEF Settled
<1>7. ASSUME NEW p, Is(p, "bool")  PROVE Settled(p) = p
  <2>1. GoLeaf(p) = p /\ MarshalLeaf(p) = p /\ UnmarshalLeaf(p) = p /\ TengoLeaf(p) = p
    BY <1>1, <1>2, <1>3, <1>5, <1>7
  <2> QED  BY <2>1 DEF Settled
<1>8. ASSUME NEW i  PROVE Settled(Int64(i)) = Float(Nearest(2 * i))
  <2>1. GoLeaf(Int64(i)) = Int64(i)
    BY <1>1, <1>4, <1>5
  <2>2. TengoLeaf(Float(Nearest(2 * i))) = Float(Nearest(2 * i))
    BY <1>1, <1>4, <1>5
  <2> QED  BY <1>2, <1>3, <2>1, <2>2 DEF Settled
<1>9. ASSUME NEW h  PROVE Settled(Float(h)) = Float(Nearest(h))
  <2>1. GoLeaf(Float(h)) = Float(h)
    BY <1>1, <1>4, <1>5
  <2>2. TengoLeaf(Float(Nearest(h))) = Float(Nearest(h))
    BY <1>1, <1>4, <1>5
  <2> QED  BY <1>2, <1>3, <2>1, <2>2 DEF Settled
<1>10. ASSUME NEW t
       PROVE  TengoLeaf(UnmarshalLeaf(String(t))) = String(t)
  BY <1>1, <1>2, <1>4, <1>5
<1>11. ASSUME NEW t  PROVE Settled(String(t)) = String(Valid(t))
  <2>1. GoLeaf(String(t)) = String(t)
    BY <1>1, <1>4, <1>5
  <2> QED  BY <1>3, <1>10, <2>1 DEF Settled
<1>12. ASSUME NEW t  PROVE Settled(Bytes(t)) = String(Encoding("base64", t))
  <2>1. GoLeaf(Bytes(t)) = Bytes(t)
    BY <1>1, <1>4, <1>5
  <2> QED  BY <1>3, <1>10, <2>1 DEF Settled
<1>13. Settled(Endless) = Endless
  <2>1. Is(Endless, "endless") /\ MarshalLeaf(Endless) = Endless
    BY DEF Is, Endless, MarshalLeaf
  <2>2. GoLeaf(Endless) = Endless /\ UnmarshalLeaf(Endless) = Endless
        /\ TengoLeaf(Endless) = Endless
    BY <1>1, <1>2, <1>5, <2>1
  <2> QED  BY <2>1, <2>2 DEF Settled
<1> QED  BY <1>6, <1>7, <1>8, <1>9, <1>11, <1>12, <1>13

\* The kinds of objects.
LEMMA ObjectsAre ==
    ASSUME NEW p, IsObject(p), Simple(p), ~Is(p, "nan"), ~Is(p, "inf")
    PROVE  \/ p \in {Undefined, Other, Endless}
           \/ Is(p, "bool")
           \/ Is(p, "int") /\ p = Int64(p.int) /\ p.int \in IntMin..IntMax
           \/ /\ Is(p, "float") /\ p = Float(p.float) /\ p.float \in Int
              /\ Nearest(p.float) = p.float
           \/ Is(p, "string") /\ p = String(p.string)
           \/ IsBytes(p)
<1>1. ~IsArray(p) /\ ~IsMap(p)
  BY DEF IsArray, IsMap, Simple
<1>2. p \notin {NaN, Inf(1), Inf(-1)}
  BY DEF NaN, Inf, Is
<1>3. IsFloat(p) => /\ Is(p, "float") /\ p = Float(p.float) /\ p.float \in Int
                    /\ Nearest(p.float) = p.float
  BY <1>2 DEF IsFloat, Float
<1>4. p \in Ints => Is(p, "int") /\ p = Int64(p.int) /\ p.int \in IntMin..IntMax
  BY DEF Ints, Int64, Is
<1> QED  BY <1>1, <1>3, <1>4 DEF IsObject, IsNumber

\* The leaves of what comes from JSON.
Leaves(q) == /\ Simple(q) /\ ~Is(q, "int") /\ ~Is(q, "bytes")
             /\ ~Is(q, "nan") /\ ~Is(q, "inf")

LEMMA LeafSettles ==
    ASSUME NEW p, IsObject(p), Simple(p), ~Is(p, "nan"), ~Is(p, "inf")
    PROVE  /\ Leaves(Settled(p))
           /\ Settled(Settled(p)) = Settled(p)
           /\ ~Is(p, "int") /\ ~Is(p, "bytes") /\ p \notin {Other, String(Invalid)} =>
                 Settled(p) = p
<1>1. /\ Leaves(Undefined) /\ Leaves(Endless) /\ \A b : Is(b, "bool") => Leaves(b)
      /\ \A h : Leaves(Float(h)) /\ Leaves(String(h))
  BY DEF Leaves, Simple, Is, Undefined, Endless, Float, String
<1>2. CASE p \in {Undefined, Other, Endless}
  BY <1>1, <1>2, SettledIs
<1>3. CASE Is(p, "bool")
  BY <1>1, <1>3, SettledIs
<1>4. CASE Is(p, "int") /\ p = Int64(p.int) /\ p.int \in IntMin..IntMax
  <2>1. Settled(p) = Float(Nearest(2 * p.int))
    BY <1>4, SettledIs
  <2>2. Nearest(Nearest(2 * p.int)) = Nearest(2 * p.int)
    BY <1>4, NearestOfInteger
  <2>3. Settled(Float(Nearest(2 * p.int))) = Float(Nearest(Nearest(2 * p.int)))
    BY SettledIs
  <2> QED  BY <1>1, <1>4, <2>1, <2>2, <2>3
<1>5. CASE /\ Is(p, "float") /\ p = Float(p.float) /\ p.float \in Int
           /\ Nearest(p.float) = p.float
  <2>1. Settled(p) = p
    BY <1>5, SettledIs
  <2> QED  BY <1>1, <1>5, <2>1
<1>6. CASE Is(p, "string") /\ p = String(p.string)
  <2>1. Settled(p) = String(Valid(p.string))
    BY <1>6, SettledIs
  <2>2. Valid(Valid(p.string)) = Valid(p.string)
    BY DEF Valid, Invalid
  <2>3. p.string # Invalid => Valid(p.string) = p.string
    BY DEF Valid
  <2>4. Settled(String(Valid(p.string))) = String(Valid(Valid(p.string)))
    BY SettledIs
  <2>5. p.string = Invalid => p = String(Invalid)
    BY <1>6
  <2> QED  BY <1>1, <1>6, <2>1, <2>2, <2>3, <2>4, <2>5
<1>7. CASE IsBytes(p)
  <2> DEFINE t == p.bytes
             e == Encoding("base64", t)
  <2>1. Is(p, "bytes") /\ p = Bytes(t) /\ IsSequence(t)
    BY <1>7 DEF IsBytes
  <2>2. Settled(p) = String(e)
    BY <2>1, SettledIs
  <2>3. e # Invalid
    <3>1. CASE t = <<>>
      BY <3>1 DEF Encoding, Invalid
    <3>2. CASE t # <<>>
      <4>1. e = <<"base64">> \o t
        BY <3>2 DEF Encoding
      <4>2. t \in Seq(Range(t)) /\ Len(t) \in Nat
        BY <2>1, SequenceIs
      <4>3. (<<"base64">> \o t)[1] = "base64"
        BY <4>2
      <4> HIDE DEF e
      <4>4. e[1] = "base64"
        BY <4>1, <4>3
      <4> QED  BY <4>4 DEF Invalid
    <3> QED  BY <3>1, <3>2
  <2> HIDE DEF e
  <2>4. Valid(e) = e
    BY <2>3 DEF Valid
  <2>5. Settled(String(e)) = String(Valid(e))
    BY SettledIs
  <2> QED  BY <1>1, <2>1, <2>2, <2>4, <2>5
<1> QED  BY <1>2, <1>3, <1>4, <1>5, <1>6, <1>7, ObjectsAre

\* JSON has no form of what is not a number.
LEMMA HasJsonIs ==
    ASSUME NEW o, Shallow(o)
    PROVE  HasJson(o) <=> \A p \in Inside(o) : ~Is(p, "nan") /\ ~Is(p, "inf")
<1>1. PICK f, l : /\ Rebuilds(f, o, l) /\ tengoObjToGo(o) = f[o]
                  /\ \A p \in Inside(o) : l[p] = GoLeaf(p)
  BY JsonRebuilds
<1>2. \A p \in Inside(o) : Simple(p) => Simple(l[p])
  BY <1>1, LeavesAreSimple
<1>3. \A z : z \in Inside(f[o]) <=> \E p \in Inside(o) : z = f[p]
  BY <1>1, <1>2, RebuiltInside
<1>4. ASSUME NEW p \in Inside(o)
      PROVE  (Is(f[p], "nan") <=> Is(p, "nan")) /\ (Is(f[p], "inf") <=> Is(p, "inf"))
  <2>1. f[p] = Rebuilt(p, f, l[p])
    BY <1>1 DEF Rebuilds
  <2>2. CASE Simple(p)
    <3>1. f[p] = GoLeaf(p)
      BY <1>1, <2>1, <2>2, RebuiltIs
    <3> QED  BY <3>1 DEF GoLeaf, Undefined, Other, Nil, Is
  <2>3. CASE ~Simple(p)
    <3>1. ~Simple(f[p])
      BY <1>2, <2>1, <2>3, RebuiltShape DEF Simple
    <3> QED  BY <2>3, <3>1 DEF Simple, Is
  <2> QED  BY <2>2, <2>3
<1>5. HasJson(o) <=> \A z \in Inside(f[o]) : ~Is(z, "nan") /\ ~Is(z, "inf")
  BY <1>1 DEF HasJson, Encodable
<1> QED  BY <1>3, <1>4, <1>5

LEMMA ObjectsAreProper ==
    /\ \A p : IsObject(p) => Proper(p)
    /\ \A p, f : Is(p, "array") => Proper(Array(Elements(p, f)))
    /\ \A p, f : Is(p, "map") => Proper(Map(Entries(p, f)))
<1>1. ASSUME NEW p, IsObject(p)  PROVE Proper(p)
  <2>1. ASSUME Is(p, "array")  PROVE IsArray(p)
    BY <1>1, <2>1 DEF IsObject, IsMap, IsNumber, IsFloat, Ints, IsBytes, Is, NaN, Inf,
                      Undefined, Other, Endless
  <2>2. ASSUME Is(p, "map")  PROVE IsMap(p)
    <3>1. ~Is(p, "array") /\ ~Is(p, "bool") /\ ~Is(p, "string") /\ ~Is(p, "bytes")
      BY <2>2 DEF Is
    <3>2. p \notin {Undefined, Other, Endless}
      BY <2>2 DEF Is, Undefined, Other, Endless
    <3>3. ~IsNumber(p)
      BY <2>2 DEF IsNumber, IsFloat, Ints, Is, NaN, Inf
    <3> QED  BY <1>1, <3>1, <3>2, <3>3 DEF IsObject, IsArray, IsBytes
  <2>3. ASSUME Is(p, "array")
        PROVE  p = Array(p.array) /\ p.array = [i \in DOMAIN p.array |-> p.array[i]]
    BY <2>1, <2>3 DEF IsArray, Array
  <2>4. ASSUME Is(p, "map")
        PROVE  p = Map(p.map) /\ p.map = [k \in DOMAIN p.map |-> p.map[k]]
    BY <2>2, <2>4 DEF IsMap, Map
  <2> QED  BY <2>3, <2>4 DEF Proper
<1>2. ASSUME NEW p, NEW f, Is(p, "array")  PROVE Proper(Array(Elements(p, f)))
  <2> DEFINE s == Elements(p, f)
  <2>1. s = [i \in DOMAIN s |-> s[i]]
    BY DEF Elements
  <2> HIDE DEF s
  <2>2. Is(Array(s), "array") /\ ~Is(Array(s), "map") /\ Array(s).array = s
    BY DEF Array, Is
  <2> QED  BY <2>1, <2>2 DEF Proper, s
<1>3. ASSUME NEW p, NEW f, Is(p, "map")  PROVE Proper(Map(Entries(p, f)))
  <2> DEFINE s == Entries(p, f)
  <2>1. s = [i \in DOMAIN s |-> s[i]]
    BY DEF Entries
  <2> HIDE DEF s
  <2>2. Is(Map(s), "map") /\ ~Is(Map(s), "array") /\ Map(s).map = s
    BY DEF Map, Is
  <2> QED  BY <2>1, <2>2 DEF Proper, s
<1> QED  BY <1>1, <1>2, <1>3

\* What went through JSON has no integer and no bytes, goes through it again,
\* and does not change any more.
LEMMA JsonMeetsDoc ==
    ASSUME NEW o, IsValue(o), HasJson(o)
    PROVE  /\ ~Holds(RoundTrip(o), "int") /\ ~Holds(RoundTrip(o), "bytes")
           /\ HasJson(RoundTrip(o)) /\ RoundTrip(RoundTrip(o)) = RoundTrip(o)
           /\ Plain(o) => RoundTrip(o) = o
<1>1. Shallow(o) /\ \A p \in Inside(o) : IsObject(p)
  BY DEF IsValue
<1>2. PICK f, l : /\ Rebuilds(f, o, l) /\ RoundTrip(o) = f[o]
                  /\ \A p \in Inside(o) : Simple(p) => l[p] = Settled(p)
  BY <1>1, JsonRebuilds
<1>3. ASSUME NEW p \in Inside(o), Simple(p)
      PROVE  /\ Leaves(l[p]) /\ Settled(l[p]) = l[p] /\ l[p] = Settled(p) /\ Simple(l[p])
             /\ ~Is(p, "int") /\ ~Is(p, "bytes") /\ p \notin {Other, String(Invalid)} =>
                   l[p] = p
  <2>1. ~Is(p, "nan") /\ ~Is(p, "inf") /\ IsObject(p) /\ l[p] = Settled(p)
    BY <1>1, <1>2, <1>3, HasJsonIs
  <2> QED  BY <1>3, <2>1, LeafSettles DEF Leaves
<1> DEFINE r == RoundTrip(o)
<1>4. Shallow(r) /\ \A z : z \in Inside(r) <=> \E p \in Inside(o) : z = f[p]
  <2>1. \A p \in Inside(o) : Simple(p) => Simple(l[p])
    BY <1>3
  <2>2. /\ Shallow(f[o])
        /\ \A z : z \in Inside(f[o]) <=> \E p \in Inside(o) : z = f[p]
    BY <1>1, <1>2, <2>1, RebuiltInside
  <2> QED  BY <1>2, <2>2
<1>5. ASSUME NEW p \in Inside(o)
      PROVE  /\ Proper(f[p]) /\ ~Is(f[p], "int") /\ ~Is(f[p], "bytes")
             /\ ~Is(f[p], "nan") /\ ~Is(f[p], "inf")
             /\ Simple(f[p]) => Settled(f[p]) = f[p]
  <2>1. f[p] = Rebuilt(p, f, l[p])
    BY <1>2 DEF Rebuilds
  <2>2. CASE Simple(p)
    <3>1. f[p] = l[p]
      BY <2>1, <2>2, RebuiltIs
    <3>2. Leaves(f[p]) /\ Settled(f[p]) = f[p]
      BY <1>3, <2>2, <3>1
    <3> QED  BY <3>2 DEF Leaves, Proper, Simple
  <2>3. CASE Is(p, "array")
    <3>1. f[p] = Array(Elements(p, f))
      BY <2>1, <2>3, RebuiltIs
    <3>2. Is(f[p], "array")
      BY <3>1 DEF Array, Is
    <3> QED  BY <2>3, <3>1, <3>2, ObjectsAreProper DEF Is, Simple
  <2>4. CASE Is(p, "map")
    <3>1. f[p] = Map(Entries(p, f))
      BY <2>1, <2>4, RebuiltIs
    <3>2. Is(f[p], "map")
      BY <3>1 DEF Map, Is
    <3> QED  BY <2>4, <3>1, <3>2, ObjectsAreProper DEF Is, Simple
  <2> QED  BY <2>2, <2>3, <2>4 DEF Simple
<1> HIDE DEF r
<1>6. /\ \A z \in Inside(r) : /\ Proper(z) /\ ~Is(z, "int") /\ ~Is(z, "bytes")
                              /\ ~Is(z, "nan") /\ ~Is(z, "inf")
                              /\ Simple(z) => Settled(z) = z
  BY <1>4, <1>5
<1>7. HasJson(r)
  BY <1>4, <1>6, HasJsonIs
<1>8. RoundTrip(r) = r
  <2>1. PICK g, m : /\ Rebuilds(g, r, m) /\ RoundTrip(r) = g[r]
                    /\ \A p \in Inside(r) : Simple(p) => m[p] = Settled(p)
    BY <1>4, JsonRebuilds
  <2>2. \A z \in Inside(r) : Proper(z) /\ (Simple(z) => m[z] = z)
    BY <1>6, <2>1
  <2> QED  BY <1>4, <2>1, <2>2, RebuiltSame
<1>9. ASSUME Plain(o)  PROVE f[o] = o
  <2>1. \A p \in Inside(o) : /\ ~Is(p, "int") /\ ~Is(p, "bytes")
                             /\ p \notin {Other, String(Invalid)}
    BY <1>9 DEF Plain, Holds
  <2>2. \A p \in Inside(o) : Proper(p) /\ (Simple(p) => l[p] = p)
    BY <1>1, <1>3, <2>1, ObjectsAreProper
  <2> QED  BY <1>1, <1>2, <2>2, RebuiltSame
<1>10. ~Holds(r, "int") /\ ~Holds(r, "bytes")
  BY <1>6 DEF Holds
<1> QED  BY <1>2, <1>7, <1>8, <1>9, <1>10 DEF r

-----------------------------------------------------------------------------
(* Values stay values.                                                     *)

\* A result that is a value unless it is nested too deep, for which the script
\* has no step.
Good(r) == Shallow(r) => IsValue(r)
Sound(results) == \A r \in results : r \in {Error, Panic} \/ Good(r)

LEMMA PartsAreValues ==
    ASSUME NEW v, IsValue(v), NEW p \in Parts(v)
    PROVE  IsValue(p)
  BY PartsShallow DEF IsValue

\* A value is made of values.
LEMMA GoodFromParts ==
    ASSUME NEW r, IsObject(r), \A p \in Parts(r) : Good(p)
    PROVE  Good(r)
<1> SUFFICES ASSUME Shallow(r)  PROVE IsValue(r)
  BY DEF Good
<1>1. \A p \in Parts(r) : IsValue(p)
  BY PartsShallow DEF Good
<1> DEFINE Covered(q) == q = r \/ \E p \in Parts(r) : q \in Inside(p)
           Bad == {n \in 0..MaxNesting : \E q \in Levels(r)[n] : ~Covered(q)}
<1>2. Bad = {}
  <2>1. SUFFICES ASSUME Bad # {}  PROVE FALSE
    OBVIOUS
  <2>2. PICK m \in Bad : \A k \in Bad : m <= k
    <3>1. Bad \in SUBSET Nat
      BY BitsAssumption
    <3> HIDE DEF Bad
    <3> QED  BY <2>1, <3>1, Least
  <2>3. PICK q \in Levels(r)[m] : ~Covered(q)
    BY <2>2
  <2>4. m # 0
    <3>1. Levels(r)[0] = {r}
      BY LevelsAre
    <3> QED  BY <2>3, <3>1
  <2> DEFINE i == m - 1
  <2>5. /\ i \in Nat /\ i < MaxNesting /\ i + 1 = m /\ i \in 0..MaxNesting /\ i < m
        /\ i \notin Bad
    BY <2>2, <2>4, BitsAssumption
  <2> HIDE DEF i
  <2>6. PICK y \in Levels(r)[i] : q \in Parts(y)
    <3>1. q \in Levels(r)[i + 1]
      BY <2>3, <2>5
    <3> QED  BY <2>5, <3>1, NextLevel
  <2>7. Covered(y)
    BY <2>5, <2>6
  <2>8. CASE y = r
    BY <2>3, <2>6, <2>8, InsideIs
  <2>9. CASE y # r
    <3>1. PICK p \in Parts(r) : y \in Inside(p)
      BY <2>7, <2>9
    <3>2. Shallow(p)
      BY <1>1 DEF IsValue
    <3>3. q \in Inside(p)
      BY <2>6, <3>1, <3>2, PartsInside
    <3> QED  BY <2>3, <3>3
  <2> QED  BY <2>8, <2>9
<1>3. ASSUME NEW q \in Inside(r)  PROVE Covered(q)
  <2>1. PICK n \in 0..MaxNesting : q \in Levels(r)[n]
    BY InsideIs
  <2> QED  BY <1>2, <2>1
<1>4. \A q \in Inside(r) : IsObject(q)
  BY <1>1, <1>3 DEF IsValue
<1> QED  BY <1>4 DEF IsValue

LEMMA SimplesAreGood ==
    /\ \A v : IsNumber(v) => Good(v)
    /\ \A b : Good(Bool(b)) /\ Good(String(b))
    /\ \A t : IsSequence(t) => Good(Bytes(t))
    /\ Good(Undefined) /\ Good(Other)
<1>1. \A v : Simple(v) /\ IsObject(v) => Good(v)
  BY GoodFromParts, PartsAre
<1>2. ASSUME NEW v, IsNumber(v)  PROVE Good(v)
  <2>1. v \in Ints => Is(v, "int")
    BY DEF Ints, Is
  <2>2. IsFloat(v) => Is(v, "float") \/ Is(v, "nan") \/ Is(v, "inf")
    BY DEF IsFloat, NaN, Inf, Is
  <2>3. Simple(v)
    BY <1>2, <2>1, <2>2 DEF IsNumber, Simple, Is
  <2> QED  BY <1>1, <1>2, <2>3 DEF IsObject
<1>3. ASSUME NEW b  PROVE Good(Bool(b)) /\ Good(String(b))
  <2>1. Simple(Bool(b)) /\ Is(Bool(b), "bool")
    BY DEF Simple, Is, Bool
  <2>2. Simple(String(b)) /\ Is(String(b), "string") /\ String(b).string = b
    BY DEF Simple, Is, String
  <2> QED  BY <1>1, <2>1, <2>2 DEF IsObject
<1>4. ASSUME NEW t, IsSequence(t)  PROVE Good(Bytes(t))
  <2>1. Simple(Bytes(t)) /\ Is(Bytes(t), "bytes") /\ Bytes(t).bytes = t
    BY DEF Simple, Is, Bytes
  <2>2. IsBytes(Bytes(t))
    BY <1>4, <2>1 DEF IsBytes
  <2> QED  BY <1>1, <2>1, <2>2 DEF IsObject
<1>5. Good(Undefined) /\ Good(Other)
  <2>1. Simple(Undefined) /\ Simple(Other)
    BY DEF Simple, Undefined, Other, Is
  <2> QED  BY <1>1, <2>1 DEF IsObject
<1> QED  BY <1>2, <1>3, <1>4, <1>5

LEMMA ArrayIsGood ==
    ASSUME NEW S, NEW s \in Seq(S), \A e \in S : Good(e)
    PROVE  Good(Array(s)) /\ IsArray(Array(s))
<1> DEFINE r == Array(s)
<1>1. Is(r, "array") /\ r = [array |-> s] /\ r.array = s
  BY DEF Array, Is
<1> HIDE DEF r
<1>2. Parts(r) = {s[i] : i \in DOMAIN s}
  BY <1>1, PartsOfArray
<1>3. s \in Seq(Parts(r)) /\ \A p \in Parts(r) : p \in S
  BY <1>2
<1>4. r \in [array : Seq(Parts(r))]
  BY <1>1, <1>3
<1>5. IsArray(r)
  BY <1>1, <1>4 DEF IsArray
<1> QED  BY <1>3, <1>5, GoodFromParts DEF IsObject, r

LEMMA MapIsGood ==
    ASSUME NEW m, IsFiniteSet(DOMAIN m), m = [k \in DOMAIN m |-> m[k]],
           \A k \in DOMAIN m : Good(m[k])
    PROVE  Good(Map(m)) /\ IsMap(Map(m))
<1> DEFINE r == Map(m)
<1>1. Is(r, "map") /\ r = [map |-> m] /\ r.map = m
  BY DEF Map, Is
<1> HIDE DEF r
<1>2. Parts(r) = {m[k] : k \in DOMAIN m}
  BY <1>1, PartsAre
<1>3. m \in [DOMAIN m -> Parts(r)] /\ \A p \in Parts(r) : Good(p)
  BY <1>2
<1>4. r \in [map : [DOMAIN m -> Parts(r)]]
  BY <1>1, <1>3
<1>5. IsMap(r)
  BY <1>1, <1>4 DEF IsMap
<1> QED  BY <1>3, <1>5, GoodFromParts DEF IsObject, r

\* What is listed from values.
LEMMA ListIsGood ==
    ASSUME NEW n \in Nat, NEW s, DOMAIN s = 1..n, s = [i \in DOMAIN s |-> s[i]],
           \A i \in 1..n : Good(s[i])
    PROVE  Good(Array(s)) /\ IsArray(Array(s))
<1> DEFINE S == {s[i] : i \in 1..n}
<1>1. (\A i \in 1..n : s[i] \in S) /\ \A e \in S : Good(e)
  OBVIOUS
<1> HIDE DEF S
<1>2. s \in [1..n -> S]
  BY <1>1
<1>3. s \in Seq(S)
  BY <1>2
<1> QED  BY <1>1, <1>3, ArrayIsGood

LEMMA PairIsGood ==
    ASSUME NEW a, NEW b, Good(a), Good(b)
    PROVE  Good(Array(<<a, b>>))
<1> DEFINE S == {a, b}
<1>1. \A e \in S : Good(e)
  OBVIOUS
<1>2. a \in S /\ b \in S
  OBVIOUS
<1> HIDE DEF S
<1>3. <<a, b>> \in Seq(S)
  BY <1>2
<1> QED  BY <1>1, <1>3, ArrayIsGood

\* The elements of an array, and a selection of them.
LEMMA ArrayHasValues ==
    ASSUME NEW v, IsValue(v), IsArray(v)
    PROVE  /\ v.array \in Seq(Parts(v)) /\ \A e \in Parts(v) : IsValue(e) /\ Good(e)
           /\ DOMAIN v.array = 1..Len(v.array) /\ Len(v.array) \in Nat
           /\ \A i \in DOMAIN v.array : IsValue(v.array[i]) /\ Good(v.array[i])
<1>1. v.array \in Seq(Parts(v))
  BY DEF IsArray
<1>2. \A e \in Parts(v) : IsValue(e) /\ Good(e)
  BY PartsAreValues DEF Good
<1> DEFINE a == v.array
           P == Parts(v)
<1>3. a \in Seq(P) /\ \A e \in P : IsValue(e) /\ Good(e)
  BY <1>1, <1>2
<1> HIDE DEF a, P
<1>4. /\ DOMAIN a = 1..Len(a) /\ Len(a) \in Nat
      /\ \A i \in DOMAIN a : a[i] \in P
  BY <1>3
<1> QED  BY <1>3, <1>4 DEF a, P

LEMMA SelectedIsGood ==
    ASSUME NEW v, IsValue(v), IsArray(v), NEW q, NEW n \in Nat, DOMAIN q = 1..n,
           \A i \in 1..n : q[i] \in DOMAIN v.array
    PROVE  Good(Array(At(v.array, q)))
<1> DEFINE s == At(v.array, q)
<1>1. s = [i \in DOMAIN q |-> v.array[q[i]]]
  BY DEF At
<1>2. \A i \in 1..n : Good(v.array[q[i]])
  BY ArrayHasValues
<1>3. /\ DOMAIN s = 1..n /\ s = [i \in DOMAIN s |-> s[i]]
      /\ \A i \in 1..n : Good(s[i])
  BY <1>1, <1>2
<1> HIDE DEF s
<1> QED  BY <1>3, ListIsGood DEF s

LEMMA SortValues == ASSUME NEW v, IsValue(v)  PROVE Sound(sort_array(v))
<1> SUFFICES ASSUME NEW r \in sort_array(v), r \notin {Error, Panic}  PROVE Good(r)
  BY DEF Sound
<1>1. PICK p \in SetToSeqs(DOMAIN v.array) : IsArray(v) /\ r = Array(At(v.array, p))
  BY SortedIsRearranged
<1> DEFINE D == DOMAIN v.array
<1>2. IsFiniteSet(D)
  BY <1>1, IndicesOfArray
<1> HIDE DEF D
<1>3. p \in [1..Cardinality(D) -> D] /\ Cardinality(D) \in Nat
  BY <1>1, <1>2, SequenceOfAll DEF D
<1>4. DOMAIN p = 1..Cardinality(D) /\ \A i \in 1..Cardinality(D) : p[i] \in D
  BY <1>3
<1> QED  BY <1>1, <1>3, <1>4, SelectedIsGood DEF D

LEMMA UniqueValues == ASSUME NEW v, IsValue(v)  PROVE Sound(unique(v))
<1> SUFFICES ASSUME NEW r \in unique(v), r \notin {Error, Panic}  PROVE Good(r)
  BY DEF Sound
<1>1. PICK f \in Readings(v.array) : IsArray(v) /\ r = Array(At(v.array, Firsts(f)))
  BY DEF unique
<1> DEFINE n == Len(v.array)
           q == Firsts(f)
<1>2. DOMAIN f = 1..n /\ n \in Nat /\ DOMAIN v.array = 1..n
  BY <1>1, ReadingsAre, ArrayHasValues
<1> HIDE DEF n
<1>3. /\ \E m \in Nat : DOMAIN q = 1..m
      /\ \A i \in DOMAIN q : q[i] \in 1..n
  BY <1>2, FirstsAre
<1> HIDE DEF q
<1>4. PICK m \in Nat : DOMAIN q = 1..m
  BY <1>3
<1>5. \A i \in 1..m : q[i] \in DOMAIN v.array
  BY <1>2, <1>3, <1>4
<1> QED  BY <1>1, <1>4, <1>5, SelectedIsGood DEF q

LEMMA ReverseValues == ASSUME NEW v, IsValue(v)  PROVE Sound(reverse(v))
<1> SUFFICES ASSUME NEW r \in reverse(v), r # Error  PROVE Good(r)
  BY DEF Sound
<1>1. IsArray(v) /\ r = Array(Reverse(v.array))
  BY DEF reverse
<1> DEFINE n == Len(v.array)
           s == Reverse(v.array)
<1>2. n \in Nat /\ \A i \in 1..n : Good(v.array[i])
  BY <1>1, ArrayHasValues
<1>3. s = [i \in 1..n |-> v.array[(n - i) + 1]]
  BY DEF Reverse
<1> HIDE DEF n
<1>4. \A i \in 1..n : (n - i) + 1 \in 1..n
  BY <1>2
<1>5. /\ DOMAIN s = 1..n /\ s = [i \in DOMAIN s |-> s[i]]
      /\ \A i \in 1..n : Good(s[i])
  BY <1>2, <1>3, <1>4
<1> HIDE DEF s
<1>6. Good(Array(s))
  BY <1>2, <1>5, ListIsGood
<1> QED  BY <1>1, <1>6 DEF s

LEMMA ZipValues == ASSUME NEW v, NEW w, IsValue(v), IsValue(w)  PROVE Sound(zip(v, w))
<1> SUFFICES ASSUME NEW r \in zip(v, w), r # Error  PROVE Good(r)
  BY DEF Sound
<1> DEFINE s == [i \in DOMAIN v.array \cap DOMAIN w.array |->
                    Array(<<v.array[i], w.array[i]>>)]
<1>1. IsArray(v) /\ IsArray(w) /\ r = Array(s)
  BY DEF zip
<1>2. /\ DOMAIN v.array = 1..Len(v.array) /\ Len(v.array) \in Nat
      /\ DOMAIN w.array = 1..Len(w.array) /\ Len(w.array) \in Nat
      /\ \A i \in DOMAIN v.array : Good(v.array[i])
      /\ \A i \in DOMAIN w.array : Good(w.array[i])
  BY <1>1, ArrayHasValues
<1>3. PICK n \in Nat : DOMAIN v.array \cap DOMAIN w.array = 1..n
  <2>1. CASE Len(v.array) <= Len(w.array)
    <3>1. DOMAIN v.array \cap DOMAIN w.array = 1..Len(v.array)
      BY <1>2, <2>1
    <3> QED  BY <1>2, <3>1
  <2>2. CASE Len(w.array) <= Len(v.array)
    <3>1. DOMAIN v.array \cap DOMAIN w.array = 1..Len(w.array)
      BY <1>2, <2>2
    <3> QED  BY <1>2, <3>1
  <2> QED  BY <1>2, <2>1, <2>2
<1>4. DOMAIN s = 1..n /\ s = [i \in DOMAIN s |-> s[i]]
  BY <1>3
<1>5. ASSUME NEW i \in 1..n  PROVE Good(s[i])
  <2>1. s[i] = Array(<<v.array[i], w.array[i]>>)
    BY <1>3
  <2> QED  BY <1>2, <1>3, <2>1, PairIsGood
<1> HIDE DEF s
<1>6. Good(Array(s))
  BY <1>4, <1>5, ListIsGood
<1> QED  BY <1>1, <1>6

LEMMA SliceValues ==
    ASSUME NEW v, IsValue(v), NEW start \in Int, NEW end \in Int
    PROVE  Sound(slice_array(v, start, end))
<1> SUFFICES ASSUME NEW r \in slice_array(v, start, end), r \notin {Error, Panic}
             PROVE  Good(r)
  BY DEF Sound
<1> DEFINE a == v.array
           e == IF end > Len(a) THEN Len(a) ELSE end
           s == IF start < 0 THEN 0 ELSE start
           from == IF s > e THEN e ELSE s
<1>1. IsArray(v)
  BY DEF slice_array
<1>2. ~(from < 0) /\ r = Array(SubSeq(a, from + 1, e))
  BY <1>1 DEF slice_array
<1>3. a \in Seq(Parts(v)) /\ Len(a) \in Nat /\ \A p \in Parts(v) : Good(p)
  BY <1>1, ArrayHasValues
<1>4. from + 1 \in Nat /\ from + 1 >= 1 /\ e \in Int /\ e <= Len(a)
  BY <1>2, <1>3
<1> HIDE DEF a, e, from
<1>5. SubSeq(a, from + 1, e) \in Seq(Parts(v))
  BY <1>3, <1>4
<1> QED  BY <1>2, <1>3, <1>5, ArrayIsGood

\* flatten: the arrays up to each element exist, and are sequences.

AndThen(a, b) == a \o b
FlattenedTo(u, s, n) ==
    u = [i \in 1..n |-> IF i = 1 THEN s[i] ELSE AndThen(u[i - 1], s[i])]

LEMMA FlattenedExist ==
    ASSUME NEW s, NEW n \in Nat  PROVE \E u : FlattenedTo(u, s, n)
<1> DEFINE Bad == {m \in Nat : \A u : ~FlattenedTo(u, s, m)}
<1>1. SUFFICES ASSUME Bad # {}  PROVE FALSE
  OBVIOUS
<1>2. PICK m \in Bad : \A k \in Bad : m <= k
  <2>1. Bad \in SUBSET Nat
    OBVIOUS
  <2> HIDE DEF Bad
  <2> QED  BY <1>1, <2>1, Least
<1>3. m # 0
  <2> DEFINE u == [i \in 1..0 |-> IF i = 1 THEN s[i] ELSE s[i]]
  <2>1. FlattenedTo(u, s, 0)
    BY DEF FlattenedTo
  <2> QED  BY <2>1
<1>4. PICK t : FlattenedTo(t, s, m - 1)
  <2>1. m - 1 \in Nat /\ m - 1 \notin Bad
    BY <1>2, <1>3
  <2> QED  BY <2>1
<1> DEFINE last == IF m = 1 THEN s[m] ELSE AndThen(t[m - 1], s[m])
           u == [i \in 1..m |-> IF i = m THEN last ELSE t[i]]
<1>5. ASSUME NEW i \in 1..m
      PROVE  u[i] = IF i = 1 THEN s[i] ELSE AndThen(u[i - 1], s[i])
  <2>1. CASE i = m
    <3>1. u[m] = last /\ (m # 1 => u[m - 1] = t[m - 1])
      BY <1>3
    <3> QED  BY <2>1, <3>1
  <2>2. CASE i # m
    <3>1. i \in 1..(m - 1) /\ u[i] = t[i] /\ (i # 1 => u[i - 1] = t[i - 1])
      BY <2>2
    <3>2. t[i] = IF i = 1 THEN s[i] ELSE AndThen(t[i - 1], s[i])
      BY <1>4, <3>1 DEF FlattenedTo
    <3> QED  BY <3>1, <3>2
  <2> QED  BY <2>1, <2>2
<1>6. FlattenedTo(u, s, m)
  <2>1. u = [i \in 1..m |-> u[i]]
    OBVIOUS
  <2> HIDE DEF u
  <2> QED  BY <1>5, <2>1 DEF FlattenedTo
<1> QED  BY <1>6

LEMMA FlattenedIsSequence ==
    ASSUME NEW S, NEW s \in Seq(Seq(S)), s # <<>>
    PROVE  FlattenSeq(s) \in Seq(S)
<1> DEFINE n == Len(s)
           u == CHOOSE u : FlattenedTo(u, s, n)
<1>1. n \in Nat /\ n # 0 /\ \A i \in 1..n : s[i] \in Seq(S)
  OBVIOUS
<1>2. FlattenSeq(s) = u[n]
  BY <1>1, Zenon DEF FlattenSeq, FlattenedTo, AndThen
<1> HIDE DEF n
<1>3. FlattenedTo(u, s, n)
  BY <1>1, FlattenedExist
<1> HIDE DEF u
<1>4. \A i \in 1..n : u[i] = IF i = 1 THEN s[i] ELSE AndThen(u[i - 1], s[i])
  BY <1>3 DEF FlattenedTo
<1>5. \A a \in Seq(S), b \in Seq(S) : AndThen(a, b) \in Seq(S)
  BY DEF AndThen
<1> DEFINE Bad == {m \in 1..n : u[m] \notin Seq(S)}
<1>6. Bad = {}
  <2>1. SUFFICES ASSUME Bad # {}  PROVE FALSE
    OBVIOUS
  <2>2. PICK m \in Bad : \A k \in Bad : m <= k
    <3>1. Bad \in SUBSET Nat
      BY <1>1
    <3> HIDE DEF Bad
    <3> QED  BY <2>1, <3>1, Least
  <2>3. m # 1
    BY <1>1, <1>4, <2>2
  <2>4. m - 1 \in 1..n /\ m - 1 \notin Bad
    BY <1>1, <2>2, <2>3
  <2>5. u[m - 1] \in Seq(S) /\ s[m] \in Seq(S) /\ u[m] = AndThen(u[m - 1], s[m])
    BY <1>1, <1>4, <2>2, <2>3, <2>4
  <2> QED  BY <1>5, <2>2, <2>5
<1>7. n \in 1..n
  BY <1>1
<1> QED  BY <1>2, <1>6, <1>7

LEMMA FlattenValues == ASSUME NEW v, IsValue(v)  PROVE Sound(flatten(v))
<1> SUFFICES ASSUME NEW r \in flatten(v), r # Error  PROVE Good(r)
  BY DEF Sound
<1> DEFINE Taken(o) == IF IsArray(o) THEN o.array ELSE <<o>>
           s == [i \in DOMAIN v.array |-> Taken(v.array[i])]
           S == {e \in Parts(v) \cup UNION {Parts(p) : p \in Parts(v)} : Good(e)}
<1>1. IsArray(v) /\ r = Array(FlattenSeq(s))
  BY DEF flatten
<1>2. /\ v.array \in Seq(Parts(v)) /\ \A e \in Parts(v) : IsValue(e) /\ Good(e)
  BY <1>1, ArrayHasValues
<1>3. ASSUME NEW o \in Parts(v)  PROVE Taken(o) \in Seq(S)
  <2>1. IsValue(o) /\ Good(o)
    BY <1>2
  <2>2. CASE IsArray(o)
    <3>1. o.array \in Seq(Parts(o)) /\ \A e \in Parts(o) : Good(e)
      BY <2>1, <2>2, ArrayHasValues
    <3>2. \A e \in Parts(o) : e \in S
      BY <3>1
    <3> HIDE DEF S
    <3>3. o.array \in Seq(S)
      BY <3>1, <3>2
    <3> QED  BY <2>2, <3>3
  <2>3. CASE ~IsArray(o)
    <3>1. o \in S
      BY <2>1
    <3> HIDE DEF S
    <3>2. <<o>> \in Seq(S)
      BY <3>1
    <3> QED  BY <2>3, <3>2
  <2> QED  BY <2>2, <2>3
<1>4. \A e \in S : Good(e)
  OBVIOUS
<1> HIDE DEF S, Taken
<1>5. s \in Seq(Seq(S))
  <2> DEFINE n == Len(v.array)
  <2>1. n \in Nat /\ DOMAIN v.array = 1..n /\ \A i \in 1..n : v.array[i] \in Parts(v)
    BY <1>2
  <2>2. s = [i \in 1..n |-> Taken(v.array[i])]
    BY <2>1
  <2> HIDE DEF n, s
  <2>3. s \in [1..n -> Seq(S)]
    BY <1>3, <2>1, <2>2
  <2> QED  BY <2>1, <2>3
<1> HIDE DEF s
<1>6. FlattenSeq(s) \in Seq(S)
  <2>1. CASE s = <<>>
    <3>1. FlattenSeq(s) = <<>>
      BY <2>1 DEF FlattenSeq
    <3> QED  BY <3>1
  <2>2. CASE s # <<>>
    BY <1>5, <2>2, FlattenedIsSequence
  <2> QED  BY <2>1, <2>2
<1> QED  BY <1>1, <1>4, <1>6, ArrayIsGood

\* The values of a map, and other maps of them.
LEMMA MapHasValues ==
    ASSUME NEW v, IsValue(v), IsMap(v)
    PROVE  /\ IsFiniteSet(DOMAIN v.map)
           /\ \A k \in DOMAIN v.map : IsValue(v.map[k]) /\ Good(v.map[k])
<1>1. IsFiniteSet(DOMAIN v.map) /\ Is(v, "map")
  BY DEF IsMap
<1>2. Parts(v) = {v.map[k] : k \in DOMAIN v.map}
  BY <1>1, PartsAre
<1>3. \A k \in DOMAIN v.map : v.map[k] \in Parts(v)
  BY <1>2
<1> QED  BY <1>1, <1>3, PartsAreValues DEF Good

LEMMA RestrictedIsGood ==
    ASSUME NEW v, IsValue(v), IsMap(v), NEW K, K \subseteq DOMAIN v.map
    PROVE  Good(Map(Restrict(v.map, K)))
<1> DEFINE m == Restrict(v.map, K)
<1>1. m = [k \in K |-> v.map[k]]
  BY DEF Restrict
<1>2. IsFiniteSet(K) /\ \A k \in K : Good(v.map[k])
  BY MapHasValues, FS_Subset
<1>3. /\ DOMAIN m = K /\ m = [k \in DOMAIN m |-> m[k]] /\ \A k \in DOMAIN m : Good(m[k])
  BY <1>1, <1>2
<1> HIDE DEF m
<1>4. Good(Map(m))
  BY <1>2, <1>3, MapIsGood
<1> QED  BY <1>4 DEF m

LEMMA SelectValues ==
    ASSUME NEW v, IsValue(v), NEW K
    PROVE  Sound(pick(v, K)) /\ Sound(omit(v, K)) /\ Sound(has_key(v, K))
<1>1. Sound(pick(v, K))
  <2>1. IsMap(v) => Good(Map(Restrict(v.map, K \cap DOMAIN v.map)))
    BY RestrictedIsGood
  <2> QED  BY <2>1 DEF pick, Sound
<1>2. Sound(omit(v, K))
  <2>1. IsMap(v) => Good(Map(Restrict(v.map, DOMAIN v.map \ K)))
    BY RestrictedIsGood
  <2> QED  BY <2>1 DEF omit, Sound
<1>3. Sound(has_key(v, K))
  BY SimplesAreGood DEF has_key, Sound
<1> QED  BY <1>1, <1>2, <1>3

LEMMA MergeValues ==
    ASSUME NEW v, NEW w, IsValue(v), IsValue(w)
    PROVE  Sound(merge(v, w))
<1> DEFINE a == w.map
           b == v.map
           m == [k \in DOMAIN b \cup DOMAIN a |-> IF k \in DOMAIN a THEN a[k] ELSE b[k]]
<1> SUFFICES ASSUME IsMap(v), IsMap(w)  PROVE Good(Map(m))
  BY DEF merge, Sound
<1>1. /\ IsFiniteSet(DOMAIN a) /\ \A k \in DOMAIN a : Good(a[k])
      /\ IsFiniteSet(DOMAIN b) /\ \A k \in DOMAIN b : Good(b[k])
  BY MapHasValues
<1> HIDE DEF a, b
<1>2. m = [k \in DOMAIN b \cup DOMAIN a |-> IF k \in DOMAIN a THEN a[k] ELSE b[k]]
  OBVIOUS
<1>3. DOMAIN m = DOMAIN b \cup DOMAIN a
  BY <1>2
<1>4. IsFiniteSet(DOMAIN m)
  BY <1>1, <1>3, FS_Union
<1>5. m = [k \in DOMAIN m |-> m[k]] /\ \A k \in DOMAIN m : Good(m[k])
  BY <1>1, <1>2
<1> HIDE DEF m
<1>6. Good(Map(m))
  BY <1>4, <1>5, MapIsGood
<1> QED  BY <1>6

LEMMA IteratedValues ==
    ASSUME NEW v, IsValue(v)
    PROVE  Sound(keys(v)) /\ Sound(values(v)) /\ Sound(map_to_pairs(v))
<1> SUFFICES ASSUME IsMap(v)  PROVE Sound(keys(v)) /\ Sound(values(v)) /\ Sound(map_to_pairs(v))
  BY DEF Sound, keys, values, map_to_pairs
<1>1. ASSUME NEW q \in Iterations(v.map)
      PROVE  \E n \in Nat : DOMAIN q = 1..n /\ \A i \in 1..n : Good(v.map[q[i]])
  <2> DEFINE n == Cardinality(DOMAIN v.map)
  <2>1. /\ n \in Nat /\ DOMAIN q = 1..n /\ DOMAIN At(v.map, q) = 1..n
        /\ \A i \in DOMAIN At(v.map, q) : q[i] \in DOMAIN v.map
    BY MapParts
  <2> HIDE DEF n
  <2>2. \A i \in 1..n : Good(v.map[q[i]])
    BY <2>1, MapHasValues
  <2> QED  BY <2>1, <2>2
<1>2. ASSUME NEW r \in keys(v)  PROVE Good(r)
  <2>1. PICK q \in Iterations(v.map) : r = Array([i \in DOMAIN q |-> String(q[i])])
    BY DEF keys
  <2>2. PICK n \in Nat : DOMAIN q = 1..n
    BY <1>1
  <2> DEFINE s == [i \in DOMAIN q |-> String(q[i])]
  <2>3. DOMAIN s = 1..n /\ s = [i \in DOMAIN s |-> s[i]] /\ \A i \in 1..n : Good(s[i])
    BY <2>2, SimplesAreGood
  <2> HIDE DEF s
  <2>4. Good(Array(s))
    BY <2>3, ListIsGood
  <2> QED  BY <2>1, <2>4 DEF s
<1>3. ASSUME NEW r \in values(v)  PROVE Good(r)
  <2>1. PICK q \in Iterations(v.map) : r = Array([i \in DOMAIN q |-> v.map[q[i]]])
    BY DEF values
  <2>2. PICK n \in Nat : DOMAIN q = 1..n /\ \A i \in 1..n : Good(v.map[q[i]])
    BY <1>1
  <2> DEFINE s == [i \in DOMAIN q |-> v.map[q[i]]]
  <2>3. DOMAIN s = 1..n /\ s = [i \in DOMAIN s |-> s[i]] /\ \A i \in 1..n : Good(s[i])
    BY <2>2
  <2> HIDE DEF s
  <2>4. Good(Array(s))
    BY <2>3, ListIsGood
  <2> QED  BY <2>1, <2>4 DEF s
<1>4. ASSUME NEW r \in map_to_pairs(v)  PROVE Good(r)
  <2>1. PICK q \in Iterations(v.map) :
           r = Array([i \in DOMAIN q |-> Array(<<String(q[i]), v.map[q[i]]>>)])
    BY DEF map_to_pairs
  <2>2. PICK n \in Nat : DOMAIN q = 1..n /\ \A i \in 1..n : Good(v.map[q[i]])
    BY <1>1
  <2> DEFINE s == [i \in DOMAIN q |-> Array(<<String(q[i]), v.map[q[i]]>>)]
  <2>3. DOMAIN s = 1..n /\ s = [i \in DOMAIN s |-> s[i]]
    BY <2>2
  <2>4. ASSUME NEW i \in 1..n  PROVE Good(s[i])
    <3>1. Good(v.map[q[i]]) /\ Good(String(q[i]))
      BY <2>2, SimplesAreGood
    <3>2. s[i] = Array(<<String(q[i]), v.map[q[i]]>>)
      BY <2>2
    <3> QED  BY <3>1, <3>2, PairIsGood
  <2> HIDE DEF s
  <2>5. Good(Array(s))
    BY <2>3, <2>4, ListIsGood
  <2> QED  BY <2>1, <2>5 DEF s
<1> QED  BY <1>2, <1>3, <1>4 DEF Sound

LEMMA PairsValues == ASSUME NEW v, IsValue(v)  PROVE Sound(pairs_to_map(v))
<1> SUFFICES ASSUME NEW r \in pairs_to_map(v), r # Error  PROVE Good(r)
  BY DEF Sound
<1> DEFINE Key(p) == p.array[1].string
           Latest(k) == Max({i \in DOMAIN v.array : Key(v.array[i]) = k})
           K == {Key(p) : p \in Parts(v)}
           m == [k \in K |-> v.array[Latest(k)].array[2]]
<1>1. IsArray(v) /\ (\A p \in Parts(v) : IsPair(p)) /\ r = Map(m)
  BY Zenon DEF pairs_to_map
<1>2. /\ \A e \in Parts(v) : IsValue(e)
      /\ DOMAIN v.array = 1..Len(v.array) /\ Len(v.array) \in Nat
      /\ Parts(v) = {v.array[i] : i \in DOMAIN v.array}
      /\ IsFiniteSet(DOMAIN v.array)
  BY <1>1, ArrayHasValues, IndicesOfArray
<1>3. IsFiniteSet(K)
  <2> DEFINE D == DOMAIN v.array
             F == [i \in D |-> Key(v.array[i])]
  <2>1. \A e \in Parts(v) : Key(e) \in K
    BY Zenon
  <2>2. \A k \in K : \E e \in Parts(v) : Key(e) = k
    BY Zenon
  <2> HIDE DEF Key, K
  <2>3. F \in [D -> K] /\ \A k \in K : \E i \in D : F[i] = k
    BY <1>2, <2>1, <2>2
  <2> HIDE DEF F
  <2>4. F \in Surjection(D, K)
    BY <2>3, Fun_IsSurj
  <2> QED  BY <1>2, <2>4, FS_Surjection
<1>4. ASSUME NEW k \in K  PROVE Good(v.array[Latest(k)].array[2])
  <2> DEFINE T == {i \in DOMAIN v.array : Key(v.array[i]) = k}
  <2>1. T \in SUBSET (1..Len(v.array)) /\ T # {}
    BY <1>2
  <2> HIDE DEF T
  <2>2. Max(T) \in T
    BY <1>2, <2>1, MinMaxOfPlaces
  <2>3. Latest(k) \in DOMAIN v.array
    BY <2>2 DEF T
  <2> DEFINE p == v.array[Latest(k)]
  <2>4. p \in Parts(v)
    BY <1>2, <2>3
  <2> HIDE DEF p, Latest
  <2>5. IsArray(p) /\ Len(p.array) >= 2 /\ IsValue(p)
    BY <1>1, <1>2, <2>4 DEF IsPair
  <2>6. 2 \in DOMAIN p.array /\ \A i \in DOMAIN p.array : Good(p.array[i])
    BY <2>5, ArrayHasValues
  <2> QED  BY <2>6 DEF p
<1> HIDE DEF K
<1>5. /\ DOMAIN m = K /\ m = [k \in DOMAIN m |-> m[k]] /\ \A k \in DOMAIN m : Good(m[k])
  BY <1>4
<1> HIDE DEF m
<1>6. Good(Map(m))
  BY <1>3, <1>5, MapIsGood
<1> QED  BY <1>1, <1>6

\* Numbers stay numbers.
LEMMA FloatIs ==
    ASSUME NEW h \in Int, Magnitude(h) < Infinite, Nearest(h) = h
    PROVE  IsFloat(Float(h))
<1>1. Is(Float(h), "float") /\ Float(h).float = h
  BY DEF Float, Is
<1>2. Float(h) \in [float : Int]
  BY DEF Float
<1> QED  BY <1>1, <1>2 DEF IsFloat

LEMMA FloatHas ==
    ASSUME NEW f, IsFloat(f), Is(f, "float")
    PROVE  /\ f = Float(f.float) /\ f.float \in Int /\ Magnitude(f.float) < Infinite
           /\ Nearest(f.float) = f.float
<1>1. f \notin {NaN, Inf(1), Inf(-1)}
  BY DEF NaN, Inf, Is
<1> QED  BY <1>1 DEF IsFloat, Float

LEMMA FloatKinds ==
    /\ \A f : IsFloat(f) => Is(f, "float") \/ f \in {NaN, Inf(1), Inf(-1)}
    /\ IsFloat(NaN) /\ IsFloat(Inf(1)) /\ IsFloat(Inf(-1))
    /\ \A f : IsFloat(f) => ~Is(f, "int")
<1>1. \A f \in {NaN, Inf(1), Inf(-1)} : ~Is(f, "int")
  BY DEF NaN, Inf, Is
<1>2. \A f : Is(f, "float") => ~Is(f, "int")
  BY DEF Is
<1> QED  BY <1>1, <1>2 DEF IsFloat

LEMMA ToFloatIsFloat == ASSUME NEW v, IsNumber(v)  PROVE IsFloat(toFloat64(v))
<1>1. CASE v \in Ints
  <2>1. Is(v, "int") /\ v.int \in IntMin..IntMax
    BY <1>1 DEF Ints, Is
  <2>2. toFloat64(v) = Float(Nearest(2 * v.int))
    BY <2>1 DEF toFloat64
  <2> QED  BY <2>1, <2>2, NearestOfInteger, FloatIs
<1>2. CASE IsFloat(v)
  BY <1>2, FloatKinds DEF toFloat64
<1> QED  BY <1>1, <1>2 DEF IsNumber

LEMMA RoundingIsFloat == ASSUME NEW h \in Int  PROVE IsFloat(Rounding(h))
  BY NearestIsFloat, FloatIs, FloatKinds DEF Rounding

LEMMA PlusIsFloat ==
    ASSUME NEW f, NEW g, IsFloat(f), IsFloat(g)
    PROVE  IsFloat(Plus(f, g))
<1>1. CASE Is(f, "float") /\ Is(g, "float")
  <2>1. f.float + g.float \in Int
    BY <1>1, FloatHas
  <2> DEFINE h == f.float + g.float
  <2>2. Plus(f, g) = Rounding(h)
    <3>1. ~Is(f, "inf") /\ ~Is(g, "inf")
      BY <1>1 DEF Is
    <3> QED  BY <1>1, <3>1 DEF Plus
  <2> HIDE DEF h
  <2> QED  BY <2>1, <2>2, RoundingIsFloat DEF h
<1>2. CASE ~(Is(f, "float") /\ Is(g, "float"))
  <2>1. \A e : Is(e, "inf") /\ IsFloat(e) => IsFloat(Inf(e.inf))
    <3> SUFFICES ASSUME NEW e, Is(e, "inf"), IsFloat(e)  PROVE IsFloat(Inf(e.inf))
      OBVIOUS
    <3>1. ~Is(e, "float") /\ e # NaN
      BY DEF Is, NaN
    <3>2. e \in {Inf(1), Inf(-1)}
      BY <3>1, FloatKinds
    <3>3. e.inf \in {1, -1}
      BY <3>2 DEF Inf
    <3> QED  BY <3>3, FloatKinds
  <2>2. \/ Plus(f, g) = NaN
        \/ Is(f, "inf") /\ Plus(f, g) = Inf(f.inf)
        \/ Is(g, "inf") /\ Plus(f, g) = Inf(g.inf)
    BY <1>2 DEF Plus
  <2> QED  BY <2>1, <2>2, FloatKinds
<1> QED  BY <1>1, <1>2

LEMMA AbsIsFloat == ASSUME NEW f, IsFloat(f)  PROVE IsFloat(Abs(f))
<1>1. CASE Is(f, "float")
  <2> DEFINE h == f.float
             m == Magnitude(h)
  <2>1. h \in Int /\ Magnitude(h) < Infinite /\ Nearest(h) = h
    BY <1>1, FloatHas
  <2>2. Abs(f) = Float(m)
    <3>1. ~Is(f, "inf")
      BY <1>1 DEF Is
    <3> QED  BY <1>1, <3>1 DEF Abs
  <2> HIDE DEF h
  <2>3. m \in Nat /\ m < Infinite /\ Magnitude(m) = m /\ (h >= 0 => m = h) /\ (h < 0 => h = -m)
    BY <2>1 DEF Magnitude
  <2> HIDE DEF m
  <2>4. Nearest(m) = m
    <3>1. CASE h >= 0
      BY <2>1, <2>3, <3>1
    <3>2. CASE h < 0
      <4>1. m > 0 /\ m < 2^(FloatBits + IntBits)
        <5>1. /\ Infinite \in Nat /\ 2^(FloatBits + IntBits) \in Nat
              /\ Infinite <= 2^(FloatBits + IntBits)
          BY Bits, TwoNat
        <5> QED  BY <2>1, <2>3, <3>2, <5>1
      <4>2. Nearest(-m) = -Nearest(m)
        BY <2>3, <4>1, NearestMirrors
      <4>3. Nearest(m) \in Nat
        BY <2>3, <4>1, NearestGrowsOnNaturals
      <4> QED  BY <2>1, <2>3, <3>2, <4>2, <4>3
    <3> QED  BY <2>1, <3>1, <3>2
  <2>5. m \in Int /\ Magnitude(m) < Infinite
    BY <2>3
  <2> QED  BY <2>2, <2>4, <2>5, FloatIs
<1>2. CASE f \in {NaN, Inf(1), Inf(-1)}
  <2>1. Abs(f) \in {f, Inf(1)}
    BY <1>2 DEF Abs, NaN, Inf, Is
  <2> QED  BY <2>1, FloatKinds
<1> QED  BY <1>1, <1>2, FloatKinds

LEMMA IntegersAre ==
    /\ \A i \in IntMin..IntMax : IsNumber(Int64(i))
    /\ 0 \in IntMin..IntMax /\ 1 \in IntMin..IntMax /\ -1 \in IntMin..IntMax
    /\ IntMin \in IntMin..IntMax /\ IntMax \in IntMin..IntMax
<1>1. IntMax \in Int /\ IntMin = -IntMax - 1 /\ IntMax >= 3
  BY Bits
<1>2. \A i \in IntMin..IntMax : IsNumber(Int64(i))
  BY DEF IsNumber, Int64, Ints
<1> QED  BY <1>1, <1>2

LEMMA ToInt64IsInteger == ASSUME NEW f  PROVE \A i \in ToInt64(f) : i \in IntMin..IntMax
<1>1. CASE Is(f, "nan")
  BY <1>1, IntegersAre DEF ToInt64
<1>2. CASE ~Is(f, "nan") /\ Is(f, "inf")
  BY <1>2, IntegersAre DEF ToInt64
<1>3. CASE ~Is(f, "nan") /\ ~Is(f, "inf")
  BY <1>3, IntegersAre DEF ToInt64
<1> QED  BY <1>1, <1>2, <1>3

LEMMA ResultIsNumber ==
    ASSUME NEW f, IsFloat(f), NEW ref, NEW r \in numericResult(f, ref)
    PROVE  IsNumber(r)
<1>1. CASE Is(ref, "int")
  BY <1>1, ToInt64IsInteger, IntegersAre DEF numericResult
<1>2. CASE ~Is(ref, "int")
  BY <1>2 DEF numericResult, IsNumber
<1> QED  BY <1>1, <1>2

LEMMA NumbersAreSound ==
    ASSUME NEW results, \A r \in results : r \in {Error, Panic} \/ IsNumber(r)
    PROVE  Sound(results)
  BY SimplesAreGood DEF Sound

LEMMA MathValues ==
    ASSUME NEW v, NEW w, NEW u
    PROVE  /\ Sound(abs(v)) /\ Sound(sign(v)) /\ Sound(round(v)) /\ Sound(floor(v))
           /\ Sound(ceil(v)) /\ Sound(min(v, w)) /\ Sound(max(v, w))
           /\ Sound(clamp(v, w, u)) /\ Sound(dead_band(v, w)) /\ Sound(rand_int(v, w))
<1>1. Sound(abs(v))
  BY ToFloatIsFloat, AbsIsFloat, ResultIsNumber, NumbersAreSound DEF abs
<1>2. Sound(sign(v))
  <2>1. \A r \in sign(v) : r = Error \/ r \in {Int64(1), Int64(-1), Int64(0)}
    BY DEF sign
  <2> QED  BY <2>1, IntegersAre, NumbersAreSound
<1>3. Sound(round(v)) /\ Sound(floor(v)) /\ Sound(ceil(v))
  <2>1. \A f : \A r \in {Int64(i) : i \in ToInt64(f)} : IsNumber(r)
    BY ToInt64IsInteger, IntegersAre
  <2>2. Sound(round(v))
    BY <2>1, NumbersAreSound DEF round, Integral
  <2>3. Sound(floor(v))
    BY <2>1, NumbersAreSound DEF floor, Integral
  <2>4. Sound(ceil(v))
    BY <2>1, NumbersAreSound DEF ceil, Integral
  <2> QED  BY <2>2, <2>3, <2>4
<1>4. Sound(min(v, w)) /\ Sound(max(v, w))
  <2>1. Sound(min(v, w))
    BY ToFloatIsFloat, ResultIsNumber, NumbersAreSound DEF min, Choose2
  <2>2. Sound(max(v, w))
    BY ToFloatIsFloat, ResultIsNumber, NumbersAreSound DEF max, Choose2
  <2> QED  BY <2>1, <2>2
<1>5. Sound(clamp(v, w, u))
  BY ToFloatIsFloat, ResultIsNumber, NumbersAreSound DEF clamp
<1>6. Sound(dead_band(v, w))
  <2>1. IsNumber(Float(0))
    <3>1. Nearest(0) = 0 /\ Magnitude(0) = 0
      BY NearestExact, Bits DEF Magnitude
    <3>2. 0 < Infinite
      BY Bits, TwoPositive
    <3> QED  BY <3>1, <3>2, FloatIs DEF IsNumber
  <2>2. IsNumber(v) => IsNumber(toFloat64(v))
    BY ToFloatIsFloat DEF IsNumber
  <2> QED  BY <2>1, <2>2, NumbersAreSound DEF dead_band
<1>7. Sound(rand_int(v, w))
  <2>1. ASSUME v \in Ints, w \in Ints, NEW i \in v.int..w.int  PROVE IsNumber(Int64(i))
    <3>1. v.int \in IntMin..IntMax /\ w.int \in IntMin..IntMax
      BY <2>1 DEF Ints
    <3>2. IntMin \in Int /\ IntMax \in Int
      BY Bits
    <3>3. i \in IntMin..IntMax
      BY <2>1, <3>1, <3>2
    <3> QED  BY <3>3, IntegersAre
  <2>2. \A r \in rand_int(v, w) :
           \/ r \in {Error, Panic}
           \/ v \in Ints /\ w \in Ints /\ \E i \in v.int..w.int : r = Int64(i)
    BY DEF rand_int
  <2> QED  BY <2>1, <2>2, NumbersAreSound
<1> QED  BY <1>1, <1>2, <1>3, <1>4, <1>5, <1>6, <1>7

LEMMA TotalsAreFloats ==
    ASSUME NEW t, NEW f, NEW n \in Nat, Totals(t, f, n), \A i \in 1..n : IsFloat(f[i])
    PROVE  \A i \in 0..n : IsFloat(t[i])
<1>1. \A i \in 0..n : t[i] = IF i = 0 THEN Float(0) ELSE Plus(t[i - 1], f[i])
  BY TotalsAre
<1>2. IsFloat(Float(0))
  <2>1. Nearest(0) = 0 /\ Magnitude(0) = 0
    BY NearestExact, Bits DEF Magnitude
  <2>2. 0 < Infinite
    BY Bits, TwoPositive
  <2> QED  BY <2>1, <2>2, FloatIs
<1> DEFINE Bad == {m \in 0..n : ~IsFloat(t[m])}
<1>3. Bad = {}
  <2>1. SUFFICES ASSUME Bad # {}  PROVE FALSE
    OBVIOUS
  <2>2. PICK m \in Bad : \A k \in Bad : m <= k
    <3>1. Bad \in SUBSET Nat
      OBVIOUS
    <3> HIDE DEF Bad
    <3> QED  BY <2>1, <3>1, Least
  <2>3. m # 0
    BY <1>1, <1>2, <2>2
  <2>4. m \in 1..n /\ m - 1 \in 0..n /\ m - 1 \notin Bad
    BY <2>2, <2>3
  <2>5. IsFloat(t[m - 1]) /\ IsFloat(f[m]) /\ t[m] = Plus(t[m - 1], f[m])
    BY <1>1, <2>2, <2>3, <2>4
  <2> QED  BY <2>2, <2>5, PlusIsFloat
<1> QED  BY <1>3

LEMMA SumValues == ASSUME NEW v  PROVE Sound(sum(v))
<1> DEFINE f == Floats(v.array)
           t == CHOOSE t : Totals(t, f, Len(f))
<1>1. SUFFICES ASSUME IsArray(v), Numeric(v.array)  PROVE Sound(sum(v))
  BY DEF sum, Sound
<1>2. /\ DOMAIN v.array = 1..Len(v.array) /\ Len(v.array) \in Nat
  BY <1>1, IndicesOfArray
<1>3. DOMAIN f = DOMAIN v.array /\ \A i \in DOMAIN v.array : f[i] = toFloat64(v.array[i])
  BY DEF Floats
<1>4. Len(f) = Len(v.array)
  <2>1. f = [i \in 1..Len(v.array) |-> toFloat64(v.array[i])]
    BY <1>2 DEF Floats
  <2> QED  BY <1>2, <2>1
<1>5. \A r \in sum(v) : r = t[Len(f)] \/ \E i \in ToInt64(t[Len(f)]) : r = Int64(i)
  BY <1>1 DEF sum, Totals
<1>6. \A i \in 1..Len(f) : IsFloat(f[i])
  BY <1>1, <1>2, <1>3, <1>4, ToFloatIsFloat DEF Numeric
<1> HIDE DEF f
<1>7. Totals(t, f, Len(f))
  BY <1>2, <1>4, TotalsExist
<1> HIDE DEF t
<1>8. IsFloat(t[Len(f)])
  BY <1>2, <1>4, <1>6, <1>7, TotalsAreFloats
<1> QED  BY <1>5, <1>8, ToInt64IsInteger, IntegersAre, NumbersAreSound DEF IsNumber

LEMMA BestValues ==
    ASSUME NEW v, IsValue(v)
    PROVE  Sound(min_of(v)) /\ Sound(max_of(v))
<1>1. IsArray(v) => \A i \in DOMAIN v.array : Good(v.array[i])
  BY ArrayHasValues
<1>2. DOMAIN Floats(v.array) = DOMAIN v.array
  BY DEF Floats
<1>3. Sound(min_of(v))
  BY <1>1, <1>2 DEF min_of, BestOf, Sound
<1>4. Sound(max_of(v))
  BY <1>1, <1>2 DEF max_of, BestOf, Sound
<1> QED  BY <1>3, <1>4

LEMMA BooleanValues ==
    ASSUME NEW v, NEW w
    PROVE  /\ Sound(array_contains(v, w)) /\ Sound(contains(v, w))
           /\ Sound(starts_with(v, w)) /\ Sound(ends_with(v, w)) /\ Sound(is_type(v, w))
<1>1. ASSUME NEW results, \A r \in results : r \in {Error, Panic} \/ \E b : r = Bool(b)
      PROVE  Sound(results)
  BY <1>1, SimplesAreGood DEF Sound
<1>2. Sound(array_contains(v, w))
  <2>1. \A found, s : Answer(found, s) = Panic \/ Answer(found, s) = Bool(found)
    BY DEF Answer
  <2>2. \A r \in array_contains(v, w) : r \in {Error, Panic} \/ \E b : r = Bool(b)
    BY <2>1 DEF array_contains
  <2> QED  BY <1>1, <2>2
<1>3. Sound(contains(v, w)) /\ Sound(starts_with(v, w)) /\ Sound(ends_with(v, w))
  BY <1>1 DEF contains, starts_with, ends_with
<1>4. Sound(is_type(v, w))
  BY <1>1 DEF is_type
<1> QED  BY <1>2, <1>3, <1>4

\* Texts stay texts, and bytes are sequences.
LEMMA TextValues ==
    ASSUME NEW v, IsValue(v), NEW w, NEW u
    PROVE  /\ Sound(join(v, w)) /\ Sound(trim(v)) /\ Sound(replace(v, w, u))
           /\ Sound(replace_all(v, w, u)) /\ Sound(repeat(v, w))
           /\ Sound(pad_left(v, w, u)) /\ Sound(pad_right(v, w, u))
<1>1. ASSUME NEW results,
             \A r \in results : r \in {Error, Panic} \/ r = v \/ \E t : r = String(t)
      PROVE  Sound(results)
  BY <1>1, SimplesAreGood DEF Sound, Good
<1>2. Sound(join(v, w)) /\ Sound(trim(v))
  BY <1>1, Zenon DEF join, trim
<1>3. Sound(replace(v, w, u))
  BY <1>1, Zenon DEF replace
<1>4. Sound(replace_all(v, w, u))
  BY <1>1, Zenon DEF replace_all
<1>5. Sound(repeat(v, w))
  BY <1>1, Zenon DEF repeat
<1>6. Sound(pad_left(v, w, u))
  BY <1>1, Zenon DEF pad_left
<1>7. Sound(pad_right(v, w, u))
  BY <1>1, Zenon DEF pad_right
<1> QED  BY <1>2, <1>3, <1>4, <1>5, <1>6, <1>7

LEMMA EncodingValues ==
    ASSUME NEW v, NEW name
    PROVE  Sound(encode(v, name)) /\ Sound(decode(v, name))
<1>1. Sound(encode(v, name))
  BY SimplesAreGood DEF encode, Sound
<1>2. ASSUME NEW r \in decode(v, name), r # Error  PROVE Good(r)
  <2>1. IsText(v)
    BY <1>2 DEF decode
  <2> DEFINE t == v.string
  <2>2. t \in Seq(Range(t))
    BY <2>1, SequenceIs DEF IsText
  <2>3. r = Bytes(<<>>) \/ r = Bytes(<<"garbled">>) \/ (t # <<>> /\ r = Bytes(Tail(t)))
    BY <1>2, <2>1 DEF decode
  <2>4. IsSequence(<<>>) /\ IsSequence(<<"garbled">>)
    <3>1. <<>> \in Seq({"garbled"}) /\ <<"garbled">> \in Seq({"garbled"})
      OBVIOUS
    <3> QED  BY <3>1, Sequences
  <2>5. t # <<>> => IsSequence(Tail(t))
    <3> DEFINE C == Range(t)
    <3>1. t \in Seq(C)
      BY <2>2
    <3> HIDE DEF C, t
    <3>2. t # <<>> => Tail(t) \in Seq(C)
      BY <3>1
    <3> QED  BY <3>2, Sequences
  <2> QED  BY <2>3, <2>4, <2>5, SimplesAreGood
<1> QED  BY <1>1, <1>2 DEF Sound

LEMMA SplitValues ==
    ASSUME NEW v, NEW w
    PROVE  Sound(split(v, w))
<1> SUFFICES ASSUME NEW r \in split(v, w), r # Error  PROVE Good(r)
  BY DEF Sound
<1> DEFINE parts == Pieces(v.string, w.string)
           s == [i \in DOMAIN parts |-> String(parts[i])]
<1>1. Strings(<<v, w>>) /\ r = Array(s)
  BY DEF split
<1>2. IsSequence(v.string) /\ IsSequence(w.string)
  <2>1. /\ 1 \in DOMAIN <<v, w>> /\ <<v, w>>[1] = v
        /\ 2 \in DOMAIN <<v, w>> /\ <<v, w>>[2] = w
    OBVIOUS
  <2> QED  BY <1>1, <2>1 DEF Strings, IsText
<1>3. PICK C : v.string \in Seq(C) /\ w.string \in Seq(C)
  BY <1>2, Alphabet
<1>4. \E n \in Nat : DOMAIN parts = 1..n
  <2>1. CASE w.string = <<>>
    <3>1. DOMAIN parts = DOMAIN v.string
      BY <2>1 DEF Pieces
    <3> QED  BY <1>3, <3>1
  <2>2. CASE w.string # <<>>
    <3>1. parts \in Seq(Seq(C))
      BY <1>3, <2>2, PiecesMeet
    <3> HIDE DEF parts
    <3> QED  BY <3>1
  <2> QED  BY <2>1, <2>2
<1>5. PICK n \in Nat : DOMAIN parts = 1..n
  BY <1>4
<1>6. DOMAIN s = 1..n /\ s = [i \in DOMAIN s |-> s[i]] /\ \A i \in 1..n : Good(s[i])
  BY <1>5, SimplesAreGood
<1> HIDE DEF s
<1>7. Good(Array(s))
  BY <1>6, ListIsGood
<1> QED  BY <1>1, <1>7

\* json_decode makes values of a document, and of nothing else.
LEMMA DecodingRebuilds ==
    ASSUME NEW d, Shallow(d)
    PROVE  \E f, l : /\ Rebuilds(f, d, l) /\ goToTengo(Unmarshal(d)) = f[d]
                     /\ \A p \in Inside(d) : Simple(p) => l[p] = TengoLeaf(UnmarshalLeaf(p))
<1>1. PICK f, a : /\ Rebuilds(f, d, a) /\ Unmarshal(d) = f[d]
                  /\ \A p \in Inside(d) : a[p] = UnmarshalLeaf(p)
  BY UnmarshalRebuilds
<1>2. \A p \in Inside(d) : Simple(p) => Simple(a[p])
  BY <1>1, LeavesAreSimple
<1>3. Shallow(f[d])
  BY <1>1, <1>2, RebuiltInside
<1>4. PICK i, b : /\ Rebuilds(i, f[d], b) /\ goToTengo(f[d]) = i[f[d]]
                  /\ \A p \in Inside(f[d]) : b[p] = TengoLeaf(p)
  BY <1>3, TengoRebuilds
<1>5. PICK h, c : /\ Rebuilds(h, d, c) /\ h[d] = i[f[d]]
                  /\ \A p \in Inside(d) : Simple(p) =>
                        c[p] = b[a[p]] /\ a[p] \in Inside(f[d])
  BY <1>1, <1>2, <1>4, RebuiltTwice
<1>6. \A p \in Inside(d) : Simple(p) => c[p] = TengoLeaf(UnmarshalLeaf(p))
  BY <1>1, <1>4, <1>5
<1>7. goToTengo(Unmarshal(d)) = h[d]
  BY <1>1, <1>4, <1>5
<1> QED  BY <1>5, <1>6, <1>7

\* An array and a map, whatever is in them.
LEMMA ListIsArray ==
    ASSUME NEW n \in Nat, NEW s, DOMAIN s = 1..n, s = [i \in DOMAIN s |-> s[i]]
    PROVE  IsArray(Array(s))
<1> DEFINE S == {s[i] : i \in 1..n}
           r == Array(s)
<1>1. \A i \in 1..n : s[i] \in S
  OBVIOUS
<1>2. Is(r, "array") /\ r = [array |-> s] /\ r.array = s
  BY DEF Array, Is
<1>3. Parts(r) = S
  BY <1>2, PartsOfArray
<1> HIDE DEF S, r
<1>4. s \in [1..n -> S]
  BY <1>1
<1>5. s \in Seq(Parts(r))
  BY <1>3, <1>4
<1>6. r \in [array : Seq(Parts(r))]
  BY <1>2, <1>5
<1> QED  BY <1>2, <1>6 DEF IsArray, r

LEMMA EntriesAreMap ==
    ASSUME NEW m, IsFiniteSet(DOMAIN m), m = [k \in DOMAIN m |-> m[k]]
    PROVE  IsMap(Map(m))
<1> DEFINE r == Map(m)
<1>1. Is(r, "map") /\ r = [map |-> m] /\ r.map = m
  BY DEF Map, Is
<1> HIDE DEF r
<1>2. Parts(r) = {m[k] : k \in DOMAIN m}
  BY <1>1, PartsAre
<1>3. m \in [DOMAIN m -> Parts(r)]
  BY <1>2
<1>4. r \in [map : [DOMAIN m -> Parts(r)]]
  BY <1>1, <1>3
<1> QED  BY <1>1, <1>4 DEF IsMap, r

LEMMA DecodedIsValue ==
    ASSUME NEW d, IsDocument(d)
    PROVE  IsValue(goToTengo(Unmarshal(d)))
<1>1. /\ Shallow(d)
      /\ \A p \in Inside(d) :
            \/ IsArray(p) \/ IsMap(p) \/ p = Nil \/ Is(p, "bool")
            \/ Is(p, "string") /\ p = String(p.string)
            \/ Is(p, "number") /\ IsFloat(Float(Nearest(p.number)))
  BY DEF IsDocument
<1>2. PICK f, l : /\ Rebuilds(f, d, l) /\ goToTengo(Unmarshal(d)) = f[d]
                  /\ \A p \in Inside(d) : Simple(p) => l[p] = TengoLeaf(UnmarshalLeaf(p))
  BY <1>1, DecodingRebuilds
<1>3. \A p \in Inside(d) : Simple(p) => Simple(l[p])
  BY <1>2, LeavesAreSimple
<1>4. Shallow(f[d]) /\ \A z : z \in Inside(f[d]) <=> \E p \in Inside(d) : z = f[p]
  BY <1>1, <1>2, <1>3, RebuiltInside
<1>5. ASSUME NEW p \in Inside(d)  PROVE IsObject(f[p])
  <2>1. f[p] = Rebuilt(p, f, l[p])
    BY <1>2 DEF Rebuilds
  <2>2. CASE IsArray(p)
    <3> DEFINE s == Elements(p, f)
    <3>1. Is(p, "array") /\ DOMAIN p.array = 1..Len(p.array) /\ Len(p.array) \in Nat
      BY <2>2, IndicesOfArray DEF IsArray
    <3>2. f[p] = Array(s)
      BY <2>1, <3>1, RebuiltIs
    <3>3. DOMAIN s = 1..Len(p.array) /\ s = [i \in DOMAIN s |-> s[i]]
      BY <3>1 DEF Elements
    <3> HIDE DEF s
    <3> QED  BY <3>1, <3>2, <3>3, ListIsArray DEF IsObject
  <2>3. CASE IsMap(p)
    <3> DEFINE s == Entries(p, f)
    <3>1. Is(p, "map") /\ IsFiniteSet(DOMAIN p.map)
      BY <2>3 DEF IsMap
    <3>2. f[p] = Map(s)
      BY <2>1, <3>1, RebuiltIs
    <3>3. DOMAIN s = DOMAIN p.map /\ s = [k \in DOMAIN s |-> s[k]]
      BY <3>1 DEF Entries
    <3> HIDE DEF s
    <3> QED  BY <3>1, <3>2, <3>3, EntriesAreMap DEF IsObject
  <2>4. CASE ~IsArray(p) /\ ~IsMap(p)
    <3>1. \/ p = Nil \/ Is(p, "bool")
          \/ Is(p, "string") /\ p = String(p.string)
          \/ Is(p, "number") /\ IsFloat(Float(Nearest(p.number)))
      BY <1>1, <2>4
    <3>2. Simple(p)
      <4>1. Simple(Nil)
        BY DEF Simple, Is, Nil
      <4>2. Is(p, "bool") \/ Is(p, "string") \/ Is(p, "number") => Simple(p)
        BY DEF Simple, Is
      <4> QED  BY <3>1, <4>1, <4>2
    <3>3. f[p] = TengoLeaf(UnmarshalLeaf(p))
      BY <1>2, <2>1, <3>2, RebuiltIs
    <3>4. CASE p = Nil
      <4>1. f[p] = Undefined
        BY <3>3, <3>4 DEF TengoLeaf, UnmarshalLeaf, Nil, Is
      <4> QED  BY <4>1 DEF IsObject
    <3>5. CASE Is(p, "bool") \/ (Is(p, "string") /\ p = String(p.string))
      <4>1. f[p] = p
        BY <3>3, <3>5 DEF TengoLeaf, UnmarshalLeaf, Nil, Is
      <4> QED  BY <3>5, <4>1 DEF IsObject
    <3>6. CASE Is(p, "number") /\ IsFloat(Float(Nearest(p.number)))
      <4>1. f[p] = Float(Nearest(p.number))
        <5>1. UnmarshalLeaf(p) = Float(Nearest(p.number))
          BY <3>6 DEF UnmarshalLeaf
        <5>2. \A h : Float(h) # Nil
          BY DEF Float, Nil
        <5> QED  BY <3>3, <5>1, <5>2 DEF TengoLeaf
      <4> QED  BY <3>6, <4>1 DEF IsObject, IsNumber
    <3> QED  BY <3>1, <3>4, <3>5, <3>6
  <2> QED  BY <2>2, <2>3, <2>4
<1>6. \A q \in Inside(f[d]) : IsObject(q)
  BY <1>4, <1>5
<1> QED  BY <1>2, <1>4, <1>6 DEF IsValue

LEMMA JsonValues == ASSUME NEW v  PROVE Sound(json_encode(v)) /\ Sound(json_decode(v))
<1>1. Sound(json_encode(v))
  BY SimplesAreGood DEF json_encode, Sound
<1>2. Sound(json_decode(v))
  BY DecodedIsValue DEF json_decode, Sound, Good
<1> QED  BY <1>1, <1>2

\* A call whose results are values, and that sends nothing.
MakesValues ==
    \E fn, args, results :
        Call(fn, args, results) /\ Sound(results) /\ fn # "notify"

LEMMA ArgumentsAreValues ==
    /\ \A o \in Extras : IsValue(o)
    /\ \A o \in Operands : IsValue(o)
  BY ValuesAssumption

LEMMA ArraysMakeValues ==
    ASSUME IsValue(x), Summarize \/ Rearrange \/ SliceArray \/ ArrayContains
    PROVE  MakesValues
<1>1. Summarize => MakesValues
  BY SumValues, BestValues DEF Summarize, MakesValues
<1>2. Rearrange => MakesValues
  <2>1. /\ Sound(sort_array(x)) /\ Sound(unique(x)) /\ Sound(flatten(x))
        /\ Sound(reverse(x)) /\ \A o \in Extras : Sound(zip(x, o))
    BY SortValues, UniqueValues, FlattenValues, ReverseValues, ZipValues,
       ArgumentsAreValues
  <2> QED  BY <2>1 DEF Rearrange, MakesValues
<1>3. SliceArray => MakesValues
  <2>1. \A start, end \in Indices : Sound(slice_array(x, start, end))
    BY SliceValues, IndicesAssumption
  <2> QED  BY <2>1 DEF SliceArray, MakesValues
<1>4. ArrayContains => MakesValues
  BY BooleanValues DEF ArrayContains, MakesValues
<1> QED  BY <1>1, <1>2, <1>3, <1>4

LEMMA MapsMakeValues ==
    ASSUME IsValue(x), TakeApart \/ SelectKeys \/ Merge
    PROVE  MakesValues
<1>1. TakeApart => MakesValues
  BY IteratedValues, PairsValues DEF TakeApart, MakesValues
<1>2. SelectKeys => MakesValues
  <2>1. \A K : Sound(pick(x, K)) /\ Sound(omit(x, K)) /\ Sound(has_key(x, K))
    BY SelectValues
  <2>2. ASSUME NEW k \in Texts, Call("has_key", <<String(k)>>, has_key(x, k))
        PROVE  MakesValues
    BY <2>1, <2>2 DEF MakesValues
  <2>3. ASSUME NEW k \in Texts, Call("pick", <<String(k)>>, pick(x, {k}))
        PROVE  MakesValues
    BY <2>1, <2>3 DEF MakesValues
  <2>4. ASSUME NEW k \in Texts, Call("omit", <<String(k)>>, omit(x, {k}))
        PROVE  MakesValues
    BY <2>1, <2>4 DEF MakesValues
  <2> QED  BY <2>2, <2>3, <2>4 DEF SelectKeys
<1>3. Merge => MakesValues
  <2>1. \A o \in Extras : Sound(merge(x, o))
    BY MergeValues, ArgumentsAreValues
  <2> QED  BY <2>1 DEF Merge, MakesValues
<1> QED  BY <1>1, <1>2, <1>3

LEMMA NumbersMakeValues ==
    ASSUME Calculate \/ Compare \/ RandInt
    PROVE  MakesValues
<1>1. Calculate => MakesValues
  BY MathValues DEF Calculate, MakesValues
<1>2. Compare => MakesValues
  <2>1. ASSUME NEW o \in Operands, Call("min", <<o>>, min(x, o))  PROVE MakesValues
    BY <2>1, MathValues DEF MakesValues
  <2>2. ASSUME NEW o \in Operands, Call("max", <<o>>, max(x, o))  PROVE MakesValues
    BY <2>2, MathValues DEF MakesValues
  <2>3. ASSUME NEW o \in Operands, Call("dead_band", <<o>>, dead_band(x, o))
        PROVE  MakesValues
    BY <2>3, MathValues DEF MakesValues
  <2>4. ASSUME NEW o \in Operands, NEW p \in Operands,
               Call("clamp", <<o, p>>, clamp(x, o, p))
        PROVE  MakesValues
    BY <2>4, MathValues DEF MakesValues
  <2> QED  BY <2>1, <2>2, <2>3, <2>4 DEF Compare
<1>3. RandInt => MakesValues
  BY MathValues DEF RandInt, MakesValues
<1> QED  BY <1>1, <1>2, <1>3

LEMMA TextsMakeValues ==
    ASSUME IsValue(x), SearchText \/ EditText \/ StretchText \/ Join
    PROVE  MakesValues
<1>1. SearchText => MakesValues
  <2>1. ASSUME NEW t \in Words, Call("split", <<String(t)>>, split(x, String(t)))
        PROVE  MakesValues
    BY <2>1, SplitValues DEF MakesValues
  <2>2. ASSUME NEW t \in Words, Call("contains", <<String(t)>>, contains(x, String(t)))
        PROVE  MakesValues
    BY <2>2, BooleanValues DEF MakesValues
  <2>3. ASSUME NEW t \in Words,
               Call("starts_with", <<String(t)>>, starts_with(x, String(t)))
        PROVE  MakesValues
    BY <2>3, BooleanValues DEF MakesValues
  <2>4. ASSUME NEW t \in Words, Call("ends_with", <<String(t)>>, ends_with(x, String(t)))
        PROVE  MakesValues
    BY <2>4, BooleanValues DEF MakesValues
  <2> QED  BY <2>1, <2>2, <2>3, <2>4 DEF SearchText
<1>2. EditText => MakesValues
  <2>1. Call("trim", <<>>, trim(x)) => MakesValues
    BY TextValues DEF MakesValues
  <2>2. ASSUME NEW s \in Words, NEW t \in Words,
               Call("replace", <<String(s), String(t)>>,
                    replace(x, String(s), String(t)))
        PROVE  MakesValues
    BY <2>2, TextValues DEF MakesValues
  <2>3. ASSUME NEW s \in Words, NEW t \in Words,
               Call("replace_all", <<String(s), String(t)>>,
                    replace_all(x, String(s), String(t)))
        PROVE  MakesValues
    BY <2>3, TextValues DEF MakesValues
  <2> QED  BY <2>1, <2>2, <2>3 DEF EditText
<1>3. StretchText => MakesValues
  <2>1. ASSUME NEW o \in Operands, Call("repeat", <<o>>, repeat(x, o))
        PROVE  MakesValues
    BY <2>1, TextValues DEF MakesValues
  <2>2. ASSUME NEW o \in Operands, NEW t \in Words,
               Call("pad_left", <<o, String(t)>>, pad_left(x, o, String(t)))
        PROVE  MakesValues
    BY <2>2, TextValues DEF MakesValues
  <2>3. ASSUME NEW o \in Operands, NEW t \in Words,
               Call("pad_right", <<o, String(t)>>, pad_right(x, o, String(t)))
        PROVE  MakesValues
    BY <2>3, TextValues DEF MakesValues
  <2> QED  BY <2>1, <2>2, <2>3 DEF StretchText
<1>4. Join => MakesValues
  BY TextValues DEF Join, MakesValues
<1> QED  BY <1>1, <1>2, <1>3, <1>4

LEMMA OthersMakeValues ==
    ASSUME Json \/ Encode \/ TestType
    PROVE  MakesValues
<1>1. Json => MakesValues
  BY JsonValues DEF Json, MakesValues
<1>2. Encode => MakesValues
  <2>1. ASSUME NEW name \in {"hex", "base64"},
               Call("encode", <<String(<<name>>)>>, encode(x, name))
        PROVE  MakesValues
    BY <2>1, EncodingValues DEF MakesValues
  <2>2. ASSUME NEW name \in {"hex", "base64"},
               Call("decode", <<String(<<name>>)>>, decode(x, name))
        PROVE  MakesValues
    BY <2>2, EncodingValues DEF MakesValues
  <2> QED  BY <2>1, <2>2 DEF Encode
<1>3. TestType => MakesValues
  BY BooleanValues DEF TestType, MakesValues
<1> QED  BY <1>1, <1>2, <1>3

LEMMA ComputeMakesValues == ASSUME IsValue(x), Compute  PROVE MakesValues
  BY ArraysMakeValues, MapsMakeValues, NumbersMakeValues, TextsMakeValues,
     OthersMakeValues DEF Compute

\* What a packet of notify carries.
Payload(v) == encodePacket(IF IsMap(v) THEN tengoObjToGo(v) ELSE Map(<<>>))

\* The second inductive invariant: what there is, and what every call began
\* with, is a value, and the packet of the last notify has its payload.
ObjectInv ==
    /\ IsValue(x)
    /\ \A n \in 1..Len(trail) : IsValue(trail[n].was)
    /\ Returned("notify") => sent = Payload(Was)

LEMMA CallKeepsValues ==
    ASSUME ScriptInv, ObjectInv, NEW fn, NEW args, NEW results,
           Call(fn, args, results), Sound(results),
           fn = "notify" /\ status' = "running" => sent' = Payload(x)
    PROVE  ObjectInv'
<1>1. /\ trail' # <<>> /\ Len(trail') = Len(trail) + 1
      /\ Last(trail') = [fn |-> fn, args |-> args, was |-> x]
      /\ \A n \in 1..Len(trail) : trail'[n] = trail[n]
  BY CallRecorded DEF ScriptInv
<1>2. IsValue(x')
  BY DEF Call, Sound, Good, ObjectInv
<1>3. ASSUME NEW n \in 1..Len(trail')  PROVE IsValue(trail'[n].was)
  <2>1. Len(trail) \in Nat
    BY DEF ScriptInv, TrailOK
  <2>2. CASE n = Len(trail) + 1
    <3>1. trail'[n] = [fn |-> fn, args |-> args, was |-> x]
      BY <1>1, <2>2 DEF Last
    <3> QED  BY <3>1 DEF ObjectInv
  <2>3. CASE n # Len(trail) + 1
    <3>1. n \in 1..Len(trail)
      BY <1>1, <2>1, <2>3
    <3> QED  BY <1>1, <3>1 DEF ObjectInv
  <2> QED  BY <2>2, <2>3
<1>4. Returned("notify")' => sent' = Payload(Was')
  BY <1>1 DEF Returned, Called, Was
<1> QED  BY <1>2, <1>3, <1>4 DEF ObjectInv, Payload

\* Whatever a script calls, what it works on are values that the conversions
\* and the builtins know, and finitely nested.
THEOREM ValuesInvariance == Spec => []ObjectInv
<1>1. Init => ObjectInv
  BY ValuesAssumption DEF Init, ObjectInv, Returned, Called
<1>2. ScriptInv /\ ObjectInv /\ [Next]_vars => ObjectInv'
  <2> SUFFICES ASSUME ScriptInv, ObjectInv, [Next]_vars  PROVE ObjectInv'
    OBVIOUS
  <2>1. CASE Compute
    <3>1. PICK fn, args, results :
             Call(fn, args, results) /\ Sound(results) /\ fn # "notify"
      BY <2>1, ComputeMakesValues DEF ObjectInv, MakesValues
    <3> QED  BY <3>1, CallKeepsValues
  <2>2. CASE Notify
    <3> DEFINE results == IF Overflows(x) /\ IsMap(x) THEN {Panic} ELSE {Undefined}
    <3>1. Sound({Undefined}) /\ Sound({Error}) /\ Sound(results)
      BY SimplesAreGood DEF Sound
    <3>2. CASE /\ Call("notify", <<>>, results)
               /\ sent' = CASE ~IsMap(x) -> encodePacket(Map(<<>>))
                            [] IsMap(x) /\ Overflows(x) -> sent
                            [] OTHER -> encodePacket(tengoObjToGo(x))
      <4>1. status' = "running" => sent' = Payload(x)
        <5>1. status' = "running" => ~(Overflows(x) /\ IsMap(x))
          BY <3>2, CallOutcome
        <5> QED  BY <3>2, <5>1 DEF Payload
      <4> HIDE DEF results
      <4> QED  BY <3>1, <3>2, <4>1, CallKeepsValues
    <3>3. CASE Call("notify topic", <<>>, IF Is(x, "string") THEN {Undefined} ELSE {Error})
      <4> DEFINE told == IF Is(x, "string") THEN {Undefined} ELSE {Error}
      <4>1. Sound(told) /\ Call("notify topic", <<>>, told)
        BY <3>1, <3>3
      <4> HIDE DEF told
      <4> QED  BY <4>1, CallKeepsValues
    <3> QED  BY <2>2, <3>2, <3>3 DEF Notify
  <2>3. CASE UNCHANGED vars
    BY <2>3 DEF ObjectInv, Returned, Called, Was, vars, Payload
  <2> QED  BY <2>1, <2>2, <2>3 DEF Next
<1> QED  BY <1>1, <1>2, ScriptInvariance, PTL DEF Spec

\* Nothing is inside what has no parts but itself.
LEMMA InsideOfSimple == ASSUME NEW o, Parts(o) = {}  PROVE \A p \in Inside(o) : p = o
<1> DEFINE Bad == {n \in 0..MaxNesting : \E p \in Levels(o)[n] : p # o}
<1>1. Bad = {}
  <2>1. SUFFICES ASSUME Bad # {}  PROVE FALSE
    OBVIOUS
  <2>2. PICK m \in Bad : \A k \in Bad : m <= k
    <3>1. Bad \in SUBSET Nat
      BY BitsAssumption
    <3> HIDE DEF Bad
    <3> QED  BY <2>1, <3>1, Least
  <2>3. PICK q \in Levels(o)[m] : q # o
    BY <2>2
  <2>4. m # 0
    <3>1. Levels(o)[0] = {o}
      BY LevelsAre
    <3> QED  BY <2>3, <3>1
  <2> DEFINE i == m - 1
  <2>5. /\ i \in Nat /\ i < MaxNesting /\ i + 1 = m /\ i \in 0..MaxNesting /\ i < m
        /\ i \notin Bad
    BY <2>2, <2>4, BitsAssumption
  <2> HIDE DEF i
  <2>6. PICK y \in Levels(o)[i] : q \in Parts(y)
    <3>1. q \in Levels(o)[i + 1]
      BY <2>3, <2>5
    <3> QED  BY <2>5, <3>1, NextLevel
  <2>7. y = o
    BY <2>5, <2>6
  <2> QED  BY <2>6, <2>7
<1> QED  BY <1>1, InsideIs

\* The packet of notify.
LEMMA PayloadMeetsDoc ==
    ASSUME NEW v, IsValue(v)
    PROVE  /\ Payload(v) = Blank <=> IsMap(v) /\ (Holds(v, "nan") \/ Holds(v, "inf"))
           /\ Payload(v) # Blank /\ IsMap(v) /\ Plain(v) =>
                 goToTengo(Unmarshal(Payload(v))) = v
<1> DEFINE g == tengoObjToGo(v)
<1>1. Shallow(v)
  BY DEF IsValue
<1>2. HasJson(v) <=> ~Holds(v, "nan") /\ ~Holds(v, "inf")
  BY <1>1, HasJsonIs DEF Holds
<1>3. \A m : Is(Map(m), "map") /\ Map(m) # Blank
  BY DEF Map, Blank, Is
<1>4. CASE IsMap(v)
  <2>1. Payload(v) = IF HasJson(v) THEN Marshal(g) ELSE Blank
    BY <1>4 DEF Payload, encodePacket, HasJson
  <2>2. Is(v, "map")
    BY <1>4 DEF IsMap
  <2>3. PICK f, l : /\ Rebuilds(f, v, l) /\ g = f[v]
                    /\ \A p \in Inside(v) : l[p] = GoLeaf(p)
    BY <1>1, GoRebuilds
  <2>4. \A p \in Inside(v) : Simple(p) => Simple(l[p])
    BY <2>3, LeavesAreSimple
  <2>5. Shallow(g)
    BY <1>1, <2>3, <2>4, RebuiltInside
  <2>6. Is(g, "map")
    <3>1. f[v] = Rebuilt(v, f, l[v])
      BY <2>3, InsideIs DEF Rebuilds
    <3> QED  BY <1>3, <2>2, <2>3, <3>1, RebuiltIs
  <2> HIDE DEF g
  <2>7. PICK h, a : /\ Rebuilds(h, g, a) /\ Marshal(g) = h[g]
    BY <2>5, MarshalRebuilds
  <2>8. Marshal(g) # Blank
    <3>1. h[g] = Rebuilt(g, h, a[g])
      BY <2>7, InsideIs DEF Rebuilds
    <3> QED  BY <1>3, <2>6, <2>7, <3>1, RebuiltIs
  <2>9. HasJson(v) /\ Plain(v) => goToTengo(Unmarshal(Marshal(g))) = v
    BY JsonMeetsDoc DEF RoundTrip, g
  <2> QED  BY <1>2, <1>4, <2>1, <2>8, <2>9
<1>5. CASE ~IsMap(v)
  <2> DEFINE e == Map(<<>>)
  <2>1. Is(e, "map") /\ DOMAIN e.map = {}
    BY DEF Map, Is
  <2>2. Parts(e) = {}
    BY <2>1, PartsAre
  <2>3. Encodable(e)
    <3>1. \A p \in Inside(e) : p = e
      BY <2>2, InsideOfSimple
    <3> HIDE DEF e
    <3> QED  BY <2>1, <3>1 DEF Encodable, Is
  <2>4. Payload(v) = Marshal(e)
    BY <1>5, <2>3 DEF Payload, encodePacket
  <2>5. Shallow(e)
    <3>1. \A p \in Levels(e)[MaxNesting] : p \in Inside(e)
      BY InsideIs, BitsAssumption
    <3>2. \A p \in Inside(e) : p = e
      BY <2>2, InsideOfSimple
    <3> HIDE DEF e
    <3> QED  BY <2>2, <3>1, <3>2 DEF Shallow
  <2> HIDE DEF e
  <2>6. PICK h, a : Rebuilds(h, e, a) /\ Marshal(e) = h[e]
    BY <2>5, MarshalRebuilds
  <2>7. h[e] = Rebuilt(e, h, a[e])
    BY <2>6, InsideIs DEF Rebuilds
  <2>8. Marshal(e) # Blank
    BY <1>3, <2>1, <2>6, <2>7, RebuiltIs
  <2> QED  BY <1>5, <2>4, <2>8
<1> QED  BY <1>4, <1>5

\* What went through json_encode and json_decode is plain and will not change
\* any more, and notify sends an empty line for a map with a NaN or an
\* infinity, and for nothing else (core.go, ipc.go's encodePacket).
THEOREM JsonSettled == Spec => []JsonSettles
<1>1. ScriptInv /\ ObjectInv => JsonSettles
  <2> SUFFICES ASSUME ScriptInv, ObjectInv  PROVE JsonSettles
    OBVIOUS
  <2> DEFINE EncodedDecoded ==
                ReturnedBoth("json_encode", "json_decode") =>
                   /\ ~Holds(x, "int") /\ ~Holds(x, "bytes")
                   /\ HasJson(x) /\ RoundTrip(x) = x
                   /\ Plain(Origin) => x = Origin
             Sent ==
                Returned("notify") =>
                   /\ sent = Blank <=> IsMap(Was) /\ (Holds(Was, "nan") \/ Holds(Was, "inf"))
                   /\ sent # Blank /\ IsMap(Was) /\ Plain(Was) =>
                         goToTengo(Unmarshal(sent)) = Was
  <2>1. Len(trail) \in Nat
    BY DEF ScriptInv, TrailOK
  <2>2. EncodedDecoded
    <3> SUFFICES ASSUME ReturnedBoth("json_encode", "json_decode")
                 PROVE  /\ ~Holds(x, "int") /\ ~Holds(x, "bytes")
                        /\ HasJson(x) /\ RoundTrip(x) = x
                        /\ Plain(Origin) => x = Origin
      OBVIOUS
    <3> DEFINE n == Len(trail) - 1
    <3>1. x \notin {Error, Panic} /\ x \in json_decode(Was)
      BY DEF ScriptInv, ReturnedBoth, Returned, Called, Was, Returns
    <3>2. /\ n \in 1..(Len(trail) - 1) /\ n \in 1..Len(trail) /\ n + 1 = Len(trail)
          /\ trail[n].fn = "json_encode"
      BY <2>1 DEF ReturnedBoth
    <3>3. Was = trail[n + 1].was /\ Origin = trail[n].was
      BY <3>2 DEF Was, Last, Origin
    <3> HIDE DEF n
    <3>4. /\ trail[n + 1].was \notin {Error, Panic}
          /\ Returns(trail[n].fn, trail[n].args, trail[n].was, trail[n + 1].was)
      BY <3>2 DEF ScriptInv
    <3>5. Was \notin {Error, Panic} /\ Was \in json_encode(Origin) /\ IsValue(Origin)
      BY <3>2, <3>3, <3>4 DEF Returns, ObjectInv
    <3> DEFINE o == Origin
               M == Marshal(tengoObjToGo(o))
    <3>6. HasJson(o) /\ Was = String(<<"json", M>>)
      BY <3>5 DEF json_encode
    <3>7. x = RoundTrip(o)
      <4> HIDE DEF M
      <4>1. Was.string[2] = M
        BY <3>6 DEF String
      <4>2. x = goToTengo(Unmarshal(Was.string[2]))
        BY <3>1 DEF json_decode
      <4> QED  BY <4>1, <4>2 DEF M, RoundTrip
    <3> HIDE DEF o
    <3>8. /\ ~Holds(RoundTrip(o), "int") /\ ~Holds(RoundTrip(o), "bytes")
          /\ HasJson(RoundTrip(o)) /\ RoundTrip(RoundTrip(o)) = RoundTrip(o)
          /\ Plain(o) => RoundTrip(o) = o
      BY <3>5, <3>6, JsonMeetsDoc DEF o
    <3> QED  BY <3>7, <3>8 DEF o
  <2>3. Sent
    <3> SUFFICES ASSUME Returned("notify")
                 PROVE  /\ sent = Blank <=>
                              IsMap(Was) /\ (Holds(Was, "nan") \/ Holds(Was, "inf"))
                        /\ sent # Blank /\ IsMap(Was) /\ Plain(Was) =>
                              goToTengo(Unmarshal(sent)) = Was
      OBVIOUS
    <3>1. sent = Payload(Was)
      BY DEF ObjectInv
    <3>2. IsValue(Was)
      <4>1. Len(trail) # 0
        BY DEF Returned, Called, ScriptInv, TrailOK
      <4>2. Len(trail) \in 1..Len(trail)
        BY <2>1, <4>1
      <4> QED  BY <4>2 DEF ObjectInv, Was, Last
    <3> QED  BY <3>1, <3>2, PayloadMeetsDoc
  <2> QED  BY <2>2, <2>3 DEF JsonSettles
<1> QED  BY <1>1, ScriptInvariance, ValuesInvariance, PTL
==============================================================================
