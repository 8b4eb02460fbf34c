------------------------------ MODULE NumberFacts ------------------------------
(***************************************************************************)
(* Facts about numbers that the proofs share: a set of them has a least    *)
(* one, and about multiples and remainders, since both measurements walk   *)
(* through a mapping of whole pages in steps of a fixed size.              *)
(***************************************************************************)
EXTENDS Integers, FiniteSetTheorems, WellFoundedInduction, TLAPS

(* A non-empty set of numbers has a least element: intervals 0 .. k are    *)
(* well-ordered by inclusion.                                              *)
LEMMA LeastNumber ==
  ASSUME NEW T \in SUBSET Nat, T # {}
  PROVE  \E k \in T : \A j \in T : k <= j
<1> DEFINE U == {0 .. k : k \in T}
<1>1. U \subseteq FiniteSubsetsOf(Nat) /\ U # {}
  <2>1. ASSUME NEW k \in T PROVE 0 .. k \in FiniteSubsetsOf(Nat)
    <3>1. IsFiniteSet(0 .. k)
      BY FS_Interval
    <3> QED BY <3>1 DEF FiniteSubsetsOf
  <2> QED BY <2>1
<1>2. \E x \in U : \A y \in U : ~(<<y, x>> \in StrictSubsetOrdering(Nat))
  <2> HIDE DEF U
  <2>1. IsWellFoundedOn(StrictSubsetOrdering(Nat), FiniteSubsetsOf(Nat))
    BY FS_StrictSubsetOrderingWellFounded
  <2> DEFINE S == FiniteSubsetsOf(Nat)
             R == StrictSubsetOrdering(Nat)
  <2> HIDE DEF S, R
  <2>2. U \subseteq S /\ U # {} /\ IsWellFoundedOn(R, S)
    BY <1>1, <2>1 DEF S, R
  <2>3. \E x \in U : \A y \in U : ~(<<y, x>> \in R)
    BY ONLY <2>2, WFMin, Zenon
  <2> QED BY <2>3 DEF R
<1>3. PICK k \in T : \A j \in T : ~(<<0 .. j, 0 .. k>> \in StrictSubsetOrdering(Nat))
  BY <1>2
<1>4. ASSUME NEW j \in T, j < k PROVE FALSE
  <2>1. 0 .. j \in SUBSET Nat /\ 0 .. k \in SUBSET Nat
    OBVIOUS
  <2>2. 0 .. j \subseteq 0 .. k /\ k \in 0 .. k /\ k \notin 0 .. j
    BY <1>4
  <2> QED BY <1>3, <2>1, <2>2 DEF StrictSubsetOrdering
<1> QED BY <1>4

Multiple(x, m) == \E k \in Nat : x = k * m

(* Rounding up gives a multiple that is not smaller.                       *)
LEMMA RoundedUp ==
  ASSUME NEW n \in Nat, NEW m \in Nat \ {0}
  PROVE  /\ ((n + m - 1) \div m) * m >= n
         /\ Multiple(((n + m - 1) \div m) * m, m)
<1> DEFINE q == (n + m - 1) \div m
<1>1. q \in Nat /\ n + m - 1 < (q + 1) * m
  OBVIOUS
<1>2. (q + 1) * m = q * m + m /\ q * m \in Nat
  BY <1>1
<1>3. q * m >= n
  BY <1>1, <1>2
<1>4. Multiple(q * m, m)
  BY <1>1 DEF Multiple
<1> QED BY <1>3, <1>4

(* Between two multiples there is room for one more.                       *)
LEMMA NextMultiple ==
  ASSUME NEW m \in Nat \ {0}, NEW a \in Nat, NEW b \in Nat, a * m < b * m
  PROVE  a * m + m <= b * m
<1>1. a < b
  OBVIOUS
<1>2. PICK d \in Nat : b = a + 1 + d
  BY <1>1
<1>3. b * m = a * m + m + d * m /\ d * m \in Nat /\ a * m \in Nat
  BY <1>2
<1> QED BY <1>3

(* A number without remainder is a multiple.                               *)
LEMMA RemainderZero ==
  ASSUME NEW x \in Nat, NEW m \in Nat \ {0}
  PROVE  x % m = 0 <=> Multiple(x, m)
<1>1. x = (x \div m) * m + (x % m) /\ x \div m \in Nat
  OBVIOUS
<1>2. ASSUME x % m = 0 PROVE Multiple(x, m)
  <2> DEFINE q == x \div m
  <2>1. q \in Nat /\ x = q * m
    BY <1>1, <1>2
  <2> HIDE DEF q
  <2> QED BY <2>1 DEF Multiple
<1>3. ASSUME NEW k \in Nat, x = k * m PROVE x % m = 0
  <2> DEFINE q == x \div m
             rest == x % m
  <2>1. q \in Nat /\ rest \in 0 .. m - 1 /\ k * m = q * m + rest
    BY <1>1, <1>3
  <2> HIDE DEF q, rest
  <2>2. CASE k > q
    <3>1. PICK d \in Nat : k = q + 1 + d
      BY <2>1, <2>2
    <3>2. k * m = q * m + m + d * m /\ d * m \in Nat /\ q * m \in Nat
      BY <3>1, <2>1
    <3> QED BY <2>1, <3>2
  <2>3. CASE k < q
    <3>1. PICK d \in Nat : q = k + 1 + d
      BY <2>1, <2>3
    <3>2. q * m = k * m + m + d * m /\ d * m \in Nat /\ k * m \in Nat
      BY <3>1, <2>1
    <3> QED BY <2>1, <3>2
  <2>4. CASE k = q
    BY <2>1, <2>4 DEF rest
  <2> QED BY <2>1, <2>2, <2>3, <2>4
<1> QED BY <1>2, <1>3 DEF Multiple

(* Which step of size m a multiple of it begins, and which come before it. *)
LEMMA StepOfMultiple ==
  ASSUME NEW x \in Nat, NEW m \in Nat \ {0}, Multiple(x, m), NEW n \in Nat
  PROVE  /\ n = x \div m <=> n * m = x
         /\ n * m < x + m <=> n * m < x \/ n * m = x
<1>1. PICK k \in Nat : x = k * m
  BY DEF Multiple
<1>2. x \div m = k
  <2> DEFINE q == x \div m
             rest == x % m
  <2>1. rest = 0
    BY RemainderZero
  <2>2. q \in Nat /\ k * m = q * m + rest
    BY <1>1
  <2> HIDE DEF q, rest
  <2>3. k * m = q * m
    BY <2>1, <2>2
  <2>4. CASE k > q
    <3>1. q * m < k * m
      <4>1. PICK d \in Nat : k = q + 1 + d
        BY <2>2, <2>4
      <4>2. k * m = q * m + m + d * m /\ d * m \in Nat /\ q * m \in Nat
        BY <4>1, <2>2
      <4> QED BY <4>2
    <3> QED BY <2>3, <3>1
  <2>5. CASE k < q
    <3>1. k * m < q * m
      <4>1. PICK d \in Nat : q = k + 1 + d
        BY <2>2, <2>5
      <4>2. q * m = k * m + m + d * m /\ d * m \in Nat /\ k * m \in Nat
        BY <4>1, <2>2
      <4> QED BY <4>2
    <3> QED BY <2>3, <3>1
  <2> QED BY <2>2, <2>4, <2>5 DEF q
<1>3. CASE n > k
  <2>1. PICK d \in Nat : n = k + 1 + d
    BY <1>3
  <2>2. n * m = k * m + m + d * m /\ d * m \in Nat /\ k * m \in Nat
    BY <2>1
  <2>3. n * m >= x + m
    BY <2>2, <1>1
  <2> QED BY <1>1, <1>2, <1>3, <2>3
<1>4. CASE n < k
  <2>1. PICK d \in Nat : k = n + 1 + d
    BY <1>4
  <2>2. k * m = n * m + m + d * m /\ d * m \in Nat /\ n * m \in Nat
    BY <2>1
  <2>3. n * m < x
    BY <2>2, <1>1
  <2> QED BY <1>1, <1>2, <1>4, <2>3, <2>2
<1>5. CASE n = k
  BY <1>1, <1>2, <1>5
<1> QED BY <1>3, <1>4, <1>5

(* Dividing up: the quotient, multiplied again, is at least the dividend.  *)
LEMMA DividedUp ==
  ASSUME NEW b \in Nat, NEW s \in Nat \ {0}
  PROVE  /\ (b + s - 1) \div s \in 0 .. b + s - 1
         /\ ((b + s - 1) \div s) * s >= b
         /\ b > 0 => (b + s - 1) \div s > 0
<1> DEFINE q == (b + s - 1) \div s
<1>1. q \in Nat /\ q * s <= b + s - 1 /\ b + s - 1 < (q + 1) * s
  OBVIOUS
<1>2. (q + 1) * s = q * s + s /\ q * s \in Nat
  BY <1>1
<1>3. q * s >= b
  BY <1>1, <1>2
<1>4. q <= q * s
  <2> HIDE DEF q
  <2>1. PICK d \in Nat : s = d + 1
    <3>1. s - 1 \in Nat /\ s = (s - 1) + 1
      OBVIOUS
    <3> QED BY <3>1
  <2>2. q * s = q * d + q /\ q * d \in Nat
    BY <1>1, <2>1
  <2> QED BY <1>1, <2>2
<1>5. b > 0 => q > 0
  <2> HIDE DEF q
  <2>1. ASSUME q = 0 PROVE q * s = 0
    BY <2>1
  <2> QED BY <1>1, <1>3, <2>1
<1> HIDE DEF q
<1>6. q \in 0 .. b + s - 1
  BY <1>1, <1>2, <1>4
<1> QED BY <1>3, <1>5, <1>6 DEF q
===============================================================================
