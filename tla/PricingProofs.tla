--------------------------- MODULE PricingProofs ---------------------------
(***************************************************************************)
(* The proofs about PricingQuote: what its integer arithmetic computes,    *)
(* what a quote is made of, that it covers the cost of the usage tier by   *)
(* tier, and that a catalogue in good order gets one.  Facts about sums,   *)
(* powers and common divisors, which range over all numbers, are proved by *)
(* induction over sets of naturals and of subsets of finite sets.          *)
(***************************************************************************)
EXTENDS PricingQuote, FiniteSetTheorems, WellFoundedInduction, TLAPS

-------------------------------------------------------------------------------
(* Numbers, finite sets and powers of two.                                  *)

\* The order that WellFoundedInduction knows on the naturals.
LEMMA LessIs == \A x, y \in Nat : <<y, x>> \in OpToRel(<, Nat) <=> y < x
BY DEF OpToRel

\* A set of naturals with an element has a least one.
LEMMA Least == ASSUME NEW S \in SUBSET Nat, S # {} PROVE \E x \in S : \A y \in S : x <= y
<1>1. PICK R : IsWellFoundedOn(R, Nat) /\ \A x, y \in Nat : <<y, x>> \in R <=> y < x
  BY NatLessThanWellFounded, LessIs, Zenon
<1>2. PICK x \in S : \A y \in S : ~ (<<y, x>> \in R)
  BY <1>1, WFMin
<1>3. \A y \in S : x <= y
  <2> SUFFICES ASSUME NEW y \in S PROVE x <= y
    OBVIOUS
  <2>1. ~ (y < x)
    BY <1>1, <1>2, Zenon
  <2> QED
    BY <2>1
<1> QED
  BY <1>3

\* A set that holds zero and every successor of its elements holds every natural.
LEMMA Induction ==
  ASSUME NEW S, 0 \in S, \A n \in Nat : n \in S => n + 1 \in S
  PROVE  \A n \in Nat : n \in S
<1> SUFFICES ASSUME NEW m \in Nat, m \notin S PROVE FALSE
  OBVIOUS
<1>1. PICK n \in Nat \ S : \A k \in Nat \ S : n <= k
  BY Least
<1>2. n # 0 /\ n - 1 \in Nat
  BY <1>1
<1>3. n - 1 \in S
  BY <1>1, <1>2
<1> QED
  BY <1>1, <1>2, <1>3

\* A set that holds every natural whose predecessors it holds, holds them all.
LEMMA StrongInduction ==
  ASSUME NEW S, \A n \in Nat : (\A k \in Nat : k < n => k \in S) => n \in S
  PROVE  \A n \in Nat : n \in S
<1> SUFFICES ASSUME NEW m \in Nat, m \notin S PROVE FALSE
  OBVIOUS
<1>1. PICK n \in Nat \ S : \A k \in Nat \ S : n <= k
  BY Least
<1>2. \A k \in Nat : k < n => k \in S
  BY <1>1
<1> QED
  BY <1>1, <1>2

(* Induction on the subsets of a finite set, for a family of them.           *)
LEMMA FiniteInduction ==
  ASSUME NEW S, IsFiniteSet(S), NEW P, {} \in P,
         \A T \in SUBSET S : T # {} /\ (\A x \in T : T \ {x} \in P) => T \in P
  PROVE  \A T \in SUBSET S : T \in P
<1> DEFINE N == {n \in Nat : \A T \in SUBSET S : Cardinality(T) = n => T \in P}
<1>1. \A T \in SUBSET S : IsFiniteSet(T) /\ Cardinality(T) \in Nat
  BY FS_Subset, FS_CardinalityType
<1>2. 0 \in N
  BY <1>1, FS_EmptySet
<1>3. \A n \in Nat : n \in N => n + 1 \in N
  <2> SUFFICES ASSUME NEW n \in Nat, n \in N, NEW T \in SUBSET S, Cardinality(T) = n + 1
               PROVE  T \in P
    OBVIOUS
  <2>1. T # {}
    BY <1>1, FS_EmptySet
  <2>2. ASSUME NEW x \in T PROVE T \ {x} \in P
    <3>1. Cardinality(T \ {x}) = Cardinality(T) - 1
      BY <1>1, FS_RemoveElement
    <3> QED
      BY <3>1
  <2> QED
    BY <2>1, <2>2
<1>4. \A n \in Nat : n \in N
  <2> HIDE DEF N
  <2> QED
    BY <1>2, <1>3, Induction
<1> QED
  BY <1>1, <1>4

(* A finite set has a first element in every total order.                    *)
LEMMA FirstExists ==
  ASSUME NEW S, IsFiniteSet(S), S # {}, NEW R,
         \A x, y \in S : <<x, y>> \in R \/ <<y, x>> \in R,
         \A x, y, z \in S : <<x, y>> \in R /\ <<y, z>> \in R => <<x, z>> \in R
  PROVE  \E x \in S : \A y \in S : <<x, y>> \in R
<1> DEFINE P == {T \in SUBSET S : T # {} => \E x \in T : \A y \in T : <<x, y>> \in R}
<1>1. {} \in P
  OBVIOUS
<1>2. ASSUME NEW T \in SUBSET S, T # {}, \A x \in T : T \ {x} \in P PROVE T \in P
  <2>1. PICK x \in T : T \ {x} \in P
    BY <1>2
  <2>2. CASE T = {x}
    BY <2>2
  <2>3. CASE T # {x}
    <3>1. PICK y \in T \ {x} : \A z \in T \ {x} : <<y, z>> \in R
      BY <2>1, <2>3
    <3>2. \E m \in {x, y} : \A z \in T : <<m, z>> \in R
      BY <3>1
    <3> QED
      BY <3>2
  <2> QED
    BY <2>2, <2>3
<1>3. \A T \in SUBSET S : T # {} /\ (\A x \in T : T \ {x} \in P) => T \in P
  BY <1>2
<1>4. S \in P
  <2> HIDE DEF P
  <2> QED
    BY <1>1, <1>3, FiniteInduction
<1> QED
  BY <1>4

\* The maximum of a finite set of integers.
LEMMA MaxIs ==
  ASSUME NEW S \in SUBSET Int, IsFiniteSet(S), S # {}
  PROVE  Max(S) \in S /\ \A y \in S : y <= Max(S)
<1> DEFINE R == {p \in S \X S : p[1] >= p[2]}
<1>1. \A x, y \in S : <<x, y>> \in R <=> x >= y
  OBVIOUS
<1> HIDE DEF R
<1>2. ASSUME NEW x \in S, NEW y \in S PROVE <<x, y>> \in R \/ <<y, x>> \in R
  <2>1. x >= y \/ y >= x
    OBVIOUS
  <2> QED
    BY <1>1, <2>1
<1>3. ASSUME NEW x \in S, NEW y \in S, NEW z \in S, <<x, y>> \in R, <<y, z>> \in R
      PROVE  <<x, z>> \in R
  <2>1. x >= y /\ y >= z
    BY <1>1, <1>3
  <2>2. x >= z
    BY <2>1
  <2> QED
    BY <1>1, <2>2
<1>4. \E x \in S : \A y \in S : <<x, y>> \in R
  BY <1>2, <1>3, FirstExists
<1>5. \E x \in S : \A y \in S : x >= y
  BY <1>1, <1>4
<1>6. Max(S) \in S /\ \A y \in S : Max(S) >= y
  BY <1>5 DEF Max
<1> QED
  BY <1>6

\* A function that doubles from one exists.
LEMMA PowersExist ==
  \E g \in [Nat -> Nat] : g[0] = 1 /\ \A n \in Nat : g[n + 1] = 2 * g[n]
<1> DEFINE Up(n, g) == /\ g \in [0 .. n -> Nat] /\ g[0] = 1
                       /\ \A k \in 0 .. n - 1 : g[k + 1] = 2 * g[k]
           N == {n \in Nat : \E g : Up(n, g)}
<1>1. 0 \in N
  <2>1. Up(0, [k \in 0 .. 0 |-> 1])
    OBVIOUS
  <2> QED
    BY <2>1
<1>2. \A n \in Nat : n \in N => n + 1 \in N
  <2> SUFFICES ASSUME NEW n \in Nat, \E g : Up(n, g) PROVE \E g : Up(n + 1, g)
    <3> HIDE DEF Up
    <3> QED
      OBVIOUS
  <2>1. PICK g : Up(n, g)
    OBVIOUS
  <2> DEFINE h == [k \in 0 .. n + 1 |-> IF k <= n THEN g[k] ELSE 2 * g[n]]
  <2>2. h \in [0 .. n + 1 -> Nat] /\ h[0] = 1
    BY <2>1
  <2>3. ASSUME NEW k \in 0 .. n + 1 - 1 PROVE h[k + 1] = 2 * h[k]
    <3>1. CASE k = n
      BY <2>1, <3>1
    <3>2. CASE k < n
      BY <2>1, <3>2
    <3> QED
      BY <3>1, <3>2
  <2> HIDE DEF h
  <2>4. Up(n + 1, h)
    BY <2>2, <2>3
  <2> HIDE DEF Up
  <2> QED
    BY <2>4
<1>3. \A n \in Nat : \E g : Up(n, g)
  <2> HIDE DEF Up
  <2>1. \A n \in Nat : n \in N
    <3> HIDE DEF N
    <3> QED
      BY <1>1, <1>2, Induction
  <2> QED
    BY <2>1
<1> DEFINE G(n) == CHOOSE g : Up(n, g)
<1>4. \A n \in Nat : Up(n, G(n))
  <2> HIDE DEF Up
  <2> QED
    BY <1>3
<1>5. ASSUME NEW n \in Nat, NEW m \in Nat, n <= m,
             NEW g, NEW h, Up(n, g), Up(m, h)
      PROVE  \A k \in 0 .. n : g[k] = h[k]
  <2> DEFINE K == {k \in Nat : k <= n => g[k] = h[k]}
  <2>1. 0 \in K
    BY <1>5
  <2>2. \A k \in Nat : k \in K => k + 1 \in K
    BY <1>5
  <2>3. \A k \in Nat : k \in K
    <3> HIDE DEF K
    <3> QED
      BY <2>1, <2>2, Induction
  <2> QED
    BY <2>3
<1> DEFINE F == [n \in Nat |-> G(n)[n]]
<1>6. F \in [Nat -> Nat]
  <2> SUFFICES ASSUME NEW n \in Nat PROVE G(n)[n] \in Nat
    OBVIOUS
  <2>1. Up(n, G(n))
    BY <1>4
  <2> HIDE DEF G
  <2> QED
    BY <2>1
<1>7. F[0] = 1
  <2>1. Up(0, G(0))
    BY <1>4
  <2> HIDE DEF G
  <2> QED
    BY <2>1
<1>8. ASSUME NEW n \in Nat PROVE F[n + 1] = 2 * F[n]
  <2>1. Up(n, G(n)) /\ Up(n + 1, G(n + 1))
    <3>1. n + 1 \in Nat
      OBVIOUS
    <3> HIDE DEF Up, G
    <3> QED
      BY <1>4, <3>1
  <2> HIDE DEF G
  <2>2. G(n)[n] = G(n + 1)[n]
    <3> HIDE DEF Up
    <3>1. n + 1 \in Nat /\ n <= n + 1 /\ n \in 0 .. n
      OBVIOUS
    <3> QED
      BY <1>5, <2>1, <3>1
  <2>3. G(n + 1)[n + 1] = 2 * G(n + 1)[n]
    BY <2>1
  <2>4. F[n + 1] = G(n + 1)[n + 1] /\ F[n] = G(n)[n]
    OBVIOUS
  <2> QED
    BY <2>2, <2>3, <2>4
<1> HIDE DEF F
<1> QED
  BY <1>6, <1>7, <1>8

\* Pow2 is that function.
LEMMA Powers ==
  /\ Pow2 \in [Nat -> Nat]
  /\ Pow2[0] = 1
  /\ \A n \in Nat : Pow2[n + 1] = 2 * Pow2[n]
<1> DEFINE IsPow(g) == g = [k \in Nat |-> IF k = 0 THEN 1 ELSE 2 * g[k - 1]]
<1>1. PICK g \in [Nat -> Nat] : g[0] = 1 /\ \A n \in Nat : g[n + 1] = 2 * g[n]
  BY PowersExist
<1>2. IsPow(g)
  <2>1. \A k \in Nat : g[k] = IF k = 0 THEN 1 ELSE 2 * g[k - 1]
    <3> SUFFICES ASSUME NEW k \in Nat, k # 0 PROVE g[k] = 2 * g[k - 1]
      BY <1>1
    <3>1. k - 1 \in Nat /\ k = (k - 1) + 1
      OBVIOUS
    <3> QED
      BY <1>1, <3>1
  <2> QED
    BY <2>1
<1>3. IsPow(Pow2)
  <2>1. Pow2 = CHOOSE f : IsPow(f)
    BY DEF Pow2
  <2> HIDE DEF IsPow
  <2> QED
    BY <1>2, <2>1
<1>4. Pow2[0] = 1 /\ \A n \in Nat : Pow2[n + 1] = 2 * Pow2[n]
  BY <1>3
<1>5. DOMAIN Pow2 = Nat /\ Pow2 = [k \in Nat |-> Pow2[k]]
  BY <1>3
<1>6. \A k \in Nat : Pow2[k] \in Nat
  <2> DEFINE K == {k \in Nat : Pow2[k] \in Nat}
  <2>1. 0 \in K
    BY <1>4
  <2>2. \A k \in Nat : k \in K => k + 1 \in K
    BY <1>4
  <2>3. \A k \in Nat : k \in K
    <3> HIDE DEF K
    <3> QED
      BY <2>1, <2>2, Induction
  <2> QED
    BY <2>3
<1> QED
  BY <1>4, <1>5, <1>6

-------------------------------------------------------------------------------
(* Division and the greatest common divisor.                                *)

\* A quotient is determined by its product and a remainder below the divisor.
LEMMA Quotient ==
  ASSUME NEW a \in Nat, NEW b \in Nat, b > 0
  PROVE  /\ a \div b \in Nat
         /\ a % b \in Nat /\ a % b < b
         /\ a = b * (a \div b) + (a % b)
<1>1. a \div b \in Nat
  OBVIOUS
<1>2. a % b \in Nat /\ a % b < b
  OBVIOUS
<1>3. a = b * (a \div b) + (a % b)
  OBVIOUS
<1> QED
  BY <1>1, <1>2, <1>3

Divides(d, a) == \E k \in Nat : a = d * k

\* A common divisor of two numbers divides the remainder of one by the other, and back.
LEMMA DividesRemainder ==
  ASSUME NEW a \in Nat, NEW b \in Nat, b > 0, NEW d \in Nat, d > 0, Divides(d, b)
  PROVE  Divides(d, a) <=> Divides(d, a % b)
<1> DEFINE q == a \div b
           r == a % b
<1>1. q \in Nat /\ r \in Nat /\ a = b * q + r
  BY Quotient
<1> HIDE DEF q, r
<1>2. PICK l \in Nat : b = d * l
  BY DEF Divides
<1>3. ASSUME Divides(d, a) PROVE Divides(d, r)
  <2>1. PICK k \in Nat : a = d * k
    BY <1>3 DEF Divides
  <2>2. l * q \in Nat /\ b * q = d * (l * q)
    BY <1>1, <1>2
  <2> DEFINE p == l * q
  <2>3. r = d * k - d * p /\ p \in Nat
    BY <1>1, <2>1, <2>2
  <2> HIDE DEF p
  <2>4. r = d * (k - p) /\ k - p \in Int
    BY <2>3
  <2>5. k - p >= 0
    BY <1>1, <2>3, <2>4
  <2> QED
    BY <2>4, <2>5 DEF Divides
<1>4. ASSUME Divides(d, r) PROVE Divides(d, a)
  <2>1. PICK m \in Nat : r = d * m
    BY <1>4 DEF Divides
  <2>2. l * q \in Nat /\ b * q = d * (l * q)
    BY <1>1, <1>2
  <2>3. a = d * (l * q + m)
    BY <1>1, <2>1, <2>2
  <2>4. l * q + m \in Nat
    BY <2>2
  <2> QED
    BY <2>3, <2>4 DEF Divides
<1> QED
  BY <1>3, <1>4 DEF r

CommonDivisors(a, b) == {d \in Nat : d > 0 /\ Divides(d, a) /\ Divides(d, b)}

\* The common divisors of two numbers are bounded, and one of them is.
LEMMA CommonDivisorsAre ==
  ASSUME NEW a \in Nat, NEW b \in Nat, b > 0
  PROVE  /\ CommonDivisors(a, b) \in SUBSET (1 .. b)
         /\ IsFiniteSet(CommonDivisors(a, b))
         /\ CommonDivisors(a, b) # {}
<1>1. CommonDivisors(a, b) \in SUBSET (1 .. b)
  <2> SUFFICES ASSUME NEW d \in Nat, d > 0, NEW k \in Nat, b = d * k PROVE d <= b
    BY DEF CommonDivisors, Divides
  <2>1. k >= 1
    OBVIOUS
  <2> QED
    BY <2>1
<1>2. IsFiniteSet(CommonDivisors(a, b))
  BY <1>1, FS_Interval, FS_Subset
<1>3. 1 \in CommonDivisors(a, b)
  <2>1. a = 1 * a /\ b = 1 * b
    OBVIOUS
  <2> QED
    BY <2>1 DEF CommonDivisors, Divides
<1> QED
  BY <1>1, <1>2, <1>3

Greatest(a, b) == IF b = 0 THEN a ELSE Max(CommonDivisors(a, b))

\* The greatest common divisor is one, and no common divisor exceeds it.
LEMMA GreatestIs ==
  ASSUME NEW a \in Nat, NEW b \in Nat, b > 0
  PROVE  /\ Greatest(a, b) \in CommonDivisors(a, b)
         /\ \A d \in CommonDivisors(a, b) : d <= Greatest(a, b)
<1>1. CommonDivisors(a, b) \in SUBSET Int
  BY DEF CommonDivisors
<1> QED
  BY <1>1, CommonDivisorsAre, MaxIs DEF Greatest

\* A step of Euclid's algorithm keeps the greatest common divisor.
LEMMA GreatestOfRemainder ==
  ASSUME NEW a \in Nat, NEW b \in Nat, b > 0
  PROVE  Greatest(a, b) = Greatest(b, a % b)
<1>1. a % b \in Nat
  BY Quotient
<1>2. CommonDivisors(a, b) = CommonDivisors(b, a % b)
  BY DividesRemainder DEF CommonDivisors
<1>3. CASE a % b # 0
  BY <1>2, <1>3 DEF Greatest
<1>4. CASE a % b = 0
  <2>1. b \in CommonDivisors(b, 0)
    <3>1. b = b * 1 /\ 0 = b * 0
      OBVIOUS
    <3> QED
      BY <3>1 DEF CommonDivisors, Divides
  <2>2. b \in CommonDivisors(a, b)
    BY <1>2, <1>4, <2>1
  <2>3. Greatest(a, b) \in 1 .. b /\ b <= Greatest(a, b)
    BY <2>2, GreatestIs, CommonDivisorsAre
  <2>4. Greatest(b, a % b) = b
    BY <1>4 DEF Greatest
  <2> QED
    BY <2>3, <2>4
<1> QED
  BY <1>3, <1>4

\* Gcd, Euclid's algorithm, computes the greatest common divisor.
LEMMA GcdIs == \A a, b \in Nat : Gcd[<<a, b>>] = Greatest(a, b)
<1> DEFINE Euclid(g) == g = [ab \in Nat \X Nat |->
                               IF ab[2] = 0 THEN ab[1] ELSE g[<<ab[2], ab[1] % ab[2]>>]]
           f == [ab \in Nat \X Nat |-> Greatest(ab[1], ab[2])]
<1>1. Euclid(f)
  <2>1. ASSUME NEW a \in Nat, NEW b \in Nat
        PROVE  Greatest(a, b) = IF b = 0 THEN a ELSE f[<<b, a % b>>]
    <3>1. CASE b = 0
      BY <3>1 DEF Greatest
    <3>2. CASE b > 0
      <4>1. a % b \in Nat
        BY <3>2, Quotient
      <4>2. f[<<b, a % b>>] = Greatest(b, a % b)
        BY <4>1
      <4>3. Greatest(a, b) = Greatest(b, a % b)
        BY <3>2, GreatestOfRemainder
      <4> HIDE DEF f
      <4> QED
        BY <3>2, <4>2, <4>3
    <3> HIDE DEF f
    <3> QED
      BY <3>1, <3>2
  <2>2. \A ab \in Nat \X Nat :
          f[ab] = IF ab[2] = 0 THEN ab[1] ELSE f[<<ab[2], ab[1] % ab[2]>>]
    BY <2>1
  <2> QED
    BY <2>2
<1>2. Euclid(Gcd)
  <2>1. Gcd = CHOOSE g : Euclid(g)
    BY DEF Gcd
  <2> HIDE DEF Euclid, f
  <2> QED
    BY <1>1, <2>1
<1>3. \A a, b \in Nat : Gcd[<<a, b>>] = IF b = 0 THEN a ELSE Gcd[<<b, a % b>>]
  <2> SUFFICES ASSUME NEW a \in Nat, NEW b \in Nat
               PROVE  Gcd[<<a, b>>] = IF b = 0 THEN a ELSE Gcd[<<b, a % b>>]
    OBVIOUS
  <2> QED
    BY <1>2
<1> HIDE DEF Euclid, f
<1> DEFINE N == {b \in Nat : \A a \in Nat : Gcd[<<a, b>>] = Greatest(a, b)}
<1>4. ASSUME NEW b \in Nat, \A k \in Nat : k < b => k \in N PROVE b \in N
  <2> SUFFICES ASSUME NEW a \in Nat PROVE Gcd[<<a, b>>] = Greatest(a, b)
    OBVIOUS
  <2>1. CASE b = 0
    BY <1>3, <2>1 DEF Greatest
  <2>2. CASE b > 0
    <3>1. a % b \in Nat /\ a % b < b
      BY <2>2, Quotient
    <3>2. Gcd[<<b, a % b>>] = Greatest(b, a % b)
      BY <1>4, <3>1
    <3>3. Gcd[<<a, b>>] = Gcd[<<b, a % b>>]
      BY <1>3, <2>2
    <3> QED
      BY <2>2, <3>2, <3>3, GreatestOfRemainder
  <2> QED
    BY <2>1, <2>2
<1>5. \A b \in Nat : b \in N
  <2> HIDE DEF N
  <2> QED
    BY <1>4, StrongInduction
<1> QED
  BY <1>5

(* A fraction in lowest terms is the same fraction.                          *)
LEMMA ReducedIs ==
  ASSUME NEW n \in Nat, NEW d \in Nat, d > 0
  PROVE  \E g \in Nat : /\ g > 0
                        /\ Reduced(n, d).n \in Nat /\ n = g * Reduced(n, d).n
                        /\ Reduced(n, d).d \in Nat /\ d = g * Reduced(n, d).d
                        /\ Reduced(n, d).d > 0
                        /\ Reduced(n, d) = [n |-> Reduced(n, d).n, d |-> Reduced(n, d).d]
<1> DEFINE g == Gcd[<<n, d>>]
<1>1. g \in CommonDivisors(n, d)
  BY GcdIs, GreatestIs
<1> HIDE DEF g
<1>2. g \in Nat /\ g > 0
  BY <1>1 DEF CommonDivisors
<1>3. PICK k \in Nat : n = g * k
  BY <1>1 DEF CommonDivisors, Divides
<1>4. PICK l \in Nat : d = g * l
  BY <1>1 DEF CommonDivisors, Divides
<1>5. n \div g = k
  BY <1>2, <1>3
<1>6. d \div g = l /\ l > 0
  <2>1. d \div g = l
    BY <1>2, <1>4
  <2>2. l # 0
    BY <1>2, <1>4
  <2> QED
    BY <2>1, <2>2
<1>7. Reduced(n, d) = [n |-> k, d |-> l]
  BY <1>5, <1>6 DEF Reduced, g
<1> QED
  BY <1>2, <1>3, <1>4, <1>6, <1>7

-------------------------------------------------------------------------------
(* Sums.                                                                    *)

(* Sums: a function that adds the values of f over every set of arguments,  *)
(* whatever the order in which they are taken.                              *)
AddsUp(f, S, h) ==
  /\ h \in [SUBSET S -> Int]
  /\ h[{}] = 0
  /\ \A s \in SUBSET S : \A x \in s : h[s] = f[x] + h[s \ {x}]

Recurs(f, S, k) ==
  /\ k[{}] = 0
  /\ \A s \in SUBSET S : s # {} => \E x \in s : k[s] = f[x] + k[s \ {x}]

\* Such a function exists over every finite set.
LEMMA SumsExist ==
  ASSUME NEW S, IsFiniteSet(S), NEW f \in [S -> Int]
  PROVE  \E h : AddsUp(f, S, h)
<1> DEFINE N == {n \in Nat : \A T \in SUBSET S : IsFiniteSet(T) /\ Cardinality(T) = n =>
                                                   \E h : AddsUp(f, T, h)}
<1>1. 0 \in N
  <2> SUFFICES \E h : AddsUp(f, {}, h)
    BY FS_EmptySet
  <2>1. AddsUp(f, {}, [s \in SUBSET {} |-> 0])
    BY DEF AddsUp
  <2> QED
    BY <2>1
<1>2. \A n \in Nat : n \in N => n + 1 \in N
  <2> SUFFICES ASSUME NEW n \in Nat, n \in N, NEW T \in SUBSET S, IsFiniteSet(T),
                      Cardinality(T) = n + 1
               PROVE  \E h : AddsUp(f, T, h)
    OBVIOUS
  <2>1. PICK a \in T : TRUE
    BY FS_EmptySet
  <2> DEFINE U == T \ {a}
  <2>2. IsFiniteSet(U) /\ Cardinality(U) = n /\ U \in SUBSET S
    <3>1. IsFiniteSet(U) /\ Cardinality(U) = Cardinality(T) - 1
      BY FS_RemoveElement
    <3> QED
      BY <3>1
  <2>3. PICK h : AddsUp(f, U, h)
    BY <2>2
  <2> DEFINE k == [s \in SUBSET T |-> IF a \in s THEN f[a] + h[s \ {a}] ELSE h[s]]
  <2>4. k \in [SUBSET T -> Int] /\ k[{}] = 0
    BY <2>3 DEF AddsUp
  <2>5. ASSUME NEW s \in SUBSET T, NEW x \in s PROVE k[s] = f[x] + k[s \ {x}]
    <3>1. CASE a \notin s
      <4>1. s \in SUBSET U /\ s \ {x} \in SUBSET T /\ a \notin s \ {x}
        BY <3>1
      <4>2. h[s] = f[x] + h[s \ {x}]
        BY <2>3, <4>1 DEF AddsUp
      <4> QED
        BY <3>1, <4>1, <4>2
    <3>2. CASE x = a
      <4>1. k[s] = f[a] + h[s \ {a}]
        BY <3>2
      <4>2. k[s \ {a}] = h[s \ {a}]
        OBVIOUS
      <4> QED
        BY <3>2, <4>1, <4>2
    <3>3. CASE a \in s /\ x # a
      <4> DEFINE t == s \ {a}
      <4>1. t \in SUBSET U /\ x \in t /\ t \ {x} \in SUBSET U
        BY <3>3
      <4>2. h[t] = f[x] + h[t \ {x}]
        BY <2>3, <4>1 DEF AddsUp
      <4>3. k[s] = f[a] + h[t]
        BY <3>3
      <4>4. (s \ {x}) \ {a} = t \ {x} /\ a \in s \ {x} /\ s \ {x} \in SUBSET T
        BY <3>3
      <4>5. k[s \ {x}] = f[a] + h[t \ {x}]
        BY <4>4
      <4>6. f[a] \in Int /\ f[x] \in Int /\ h[t \ {x}] \in Int
        BY <2>3, <4>1 DEF AddsUp
      <4> HIDE DEF k, t
      <4> QED
        BY <4>2, <4>3, <4>5, <4>6
    <3> QED
      BY <3>1, <3>2, <3>3
  <2> HIDE DEF k
  <2>6. AddsUp(f, T, k)
    BY <2>4, <2>5 DEF AddsUp
  <2> QED
    BY <2>6
<1>3. \A n \in Nat : n \in N
  <2> HIDE DEF N
  <2> QED
    BY <1>1, <1>2, Induction
<1>4. Cardinality(S) \in Nat
  BY FS_CardinalityType
<1> QED
  BY <1>3, <1>4

\* Removing arguments one at a time, whichever comes first, gives that sum.
LEMMA SumsAreOne ==
  ASSUME NEW S, IsFiniteSet(S), NEW f, NEW h, AddsUp(f, S, h),
         NEW k, Recurs(f, S, k)
  PROVE  k[S] = h[S]
<1> DEFINE P == {T \in SUBSET S : k[T] = h[T]}
<1>1. {} \in P
  BY DEF AddsUp, Recurs
<1>2. ASSUME NEW T \in SUBSET S, T # {}, \A x \in T : T \ {x} \in P PROVE T \in P
  <2>1. PICK x \in T : k[T] = f[x] + k[T \ {x}]
    BY <1>2 DEF Recurs
  <2>2. h[T] = f[x] + h[T \ {x}]
    BY DEF AddsUp
  <2>3. k[T \ {x}] = h[T \ {x}]
    BY <1>2
  <2> QED
    BY <2>1, <2>2, <2>3
<1>3. S \in P
  <2>1. \A T \in SUBSET S : T # {} /\ (\A x \in T : T \ {x} \in P) => T \in P
    BY <1>2
  <2> HIDE DEF P
  <2>2. \A T \in SUBSET S : T \in P
    BY <1>1, <2>1, FiniteInduction
  <2> QED
    BY <2>2
<1> QED
  BY <1>3

\* SumOf computes that sum.
LEMMA SumIs ==
  ASSUME NEW S, IsFiniteSet(S), NEW f \in [S -> Int]
  PROVE  \E h : AddsUp(f, S, h) /\ SumOf(f) = h[S]
<1> DEFINE Pick(s) == CHOOSE x \in s : TRUE
           Iter(h) == h = [s \in SUBSET S |-> IF s = {} THEN 0
                                              ELSE f[Pick(s)] + h[s \ {Pick(s)}]]
           Step(h) == \A s \in SUBSET S : h[s] = IF s = {} THEN 0
                                                 ELSE f[Pick(s)] + h[s \ {Pick(s)}]
<1>1. PICK h : AddsUp(f, S, h)
  BY SumsExist
<1>2. \A s \in SUBSET S : s # {} => Pick(s) \in s
  OBVIOUS
<1> DEFINE c == CHOOSE g : Iter(g)
<1>3. SumOf(f) = c[S]
  <2>1. DOMAIN f = S
    OBVIOUS
  <2> QED
    BY <2>1 DEF SumOf, MapThenSumSet, MapThenFoldSet
<1>4. Iter(h)
  <2> HIDE DEF Pick
  <2>1. DOMAIN h = SUBSET S /\ h = [s \in SUBSET S |-> h[s]]
    BY <1>1 DEF AddsUp
  <2>2. Step(h)
    BY <1>1, <1>2 DEF AddsUp
  <2> QED
    BY <2>1, <2>2
<1>5. Iter(c)
  <2> HIDE DEF Iter
  <2> QED
    BY <1>4
<1>6. Step(c)
  <2> HIDE DEF c, Pick
  <2> QED
    BY <1>5
<1> HIDE DEF c, Iter
<1>7. Recurs(f, S, c)
  <2> HIDE DEF Pick
  <2> QED
    BY <1>2, <1>6 DEF Recurs
<1>8. c[S] = h[S]
  BY <1>1, <1>7, SumsAreOne
<1> QED
  BY <1>1, <1>3, <1>8

\* The sum of a restriction is that of the part of the arguments.
LEMMA SumOfPart ==
  ASSUME NEW S, IsFiniteSet(S), NEW f \in [S -> Int], NEW h, AddsUp(f, S, h), NEW T \in SUBSET S
  PROVE  SumOf([x \in T |-> f[x]]) = h[T]
<1> DEFINE g == [x \in T |-> f[x]]
<1>1. IsFiniteSet(T)
  BY FS_Subset
<1>2. g \in [T -> Int]
  OBVIOUS
<1>3. Recurs(g, T, h)
  BY DEF AddsUp, Recurs
<1> HIDE DEF g
<1>5. PICK k : AddsUp(g, T, k) /\ SumOf(g) = k[T]
  BY <1>1, <1>2, SumIs
<1>6. h[T] = k[T]
  BY <1>1, <1>3, <1>5, SumsAreOne
<1> QED
  BY <1>5, <1>6 DEF g

\* A sum of integers is one.
LEMMA SumIsInt ==
  ASSUME NEW S, IsFiniteSet(S), NEW f \in [S -> Int] PROVE SumOf(f) \in Int
<1>1. PICK h : AddsUp(f, S, h) /\ SumOf(f) = h[S]
  BY SumIs
<1> QED
  BY <1>1 DEF AddsUp

\* Nothing adds up to zero.
LEMMA SumOfNothing == ASSUME NEW f \in [{} -> Int] PROVE SumOf(f) = 0
<1>1. IsFiniteSet({})
  BY FS_EmptySet
<1>2. PICK h : AddsUp(f, {}, h) /\ SumOf(f) = h[{}]
  BY <1>1, SumIs
<1> QED
  BY <1>2 DEF AddsUp

\* A sum of naturals is one.
LEMMA SumIsNat ==
  ASSUME NEW S, IsFiniteSet(S), NEW f \in [S -> Nat] PROVE SumOf(f) \in Nat
<1>1. PICK h : AddsUp(f, S, h) /\ SumOf(f) = h[S]
  BY SumIs
<1> DEFINE P == {T \in SUBSET S : h[T] \in Nat}
<1>2. {} \in P
  BY <1>1 DEF AddsUp
<1>3. ASSUME NEW T \in SUBSET S, T # {}, \A x \in T : T \ {x} \in P PROVE T \in P
  <2>1. PICK x \in T : TRUE
    BY <1>3
  <2>2. h[T] = f[x] + h[T \ {x}]
    BY <1>1 DEF AddsUp
  <2> QED
    BY <1>3, <2>2
<1>4. S \in P
  <2> HIDE DEF P
  <2> QED
    BY <1>2, <1>3, FiniteInduction
<1> QED
  BY <1>1, <1>4

-------------------------------------------------------------------------------
(* Exact rationals.                                                         *)

Rational == {q \in [n : Nat, d : Nat] : q.d > 0}
Word == 0 .. Pow2[WIDTH] - 1

\* A power of two is a positive natural.
LEMMA PowersArePositive == \A k \in Nat : Pow2[k] \in Nat /\ Pow2[k] > 0
<1> DEFINE K == {k \in Nat : Pow2[k] > 0}
<1>1. 0 \in K
  BY Powers
<1>2. \A k \in Nat : k \in K => k + 1 \in K
  BY Powers
<1>3. \A k \in Nat : k \in K
  <2> HIDE DEF K
  <2> QED
    BY <1>1, <1>2, Induction
<1> QED
  BY <1>3, Powers

\* A number that Checked lets through fits the width and is unchanged.
LEMMA CheckedIs == \A n \in Nat : Checked(n) # Invalid => n \in Word /\ Checked(n) = n
BY PowersArePositive, PricingAssumption DEF Checked, Word

\* An accepted price of a tier is its units and nanos in nanos.
LEMMA TierPriceIs ==
  ASSUME NEW tier, IsTier(tier), TierPrice(tier) # Invalid
  PROVE  TierPrice(tier) \in Word /\ TierPrice(tier) = tier.units * NANOS + tier.nanos
<1>1. tier.nanos \in 0 .. NANOS - 1 /\ tier.units \in Nat /\ NANOS \in Nat
  BY PricingAssumption DEF TierPrice, IsTier
<1>2. TierPrice(tier) = Checked(tier.units * NANOS + tier.nanos)
  BY <1>1 DEF TierPrice
<1>3. tier.units * NANOS + tier.nanos \in Nat
  BY <1>1
<1> QED
  BY <1>2, <1>3, CheckedIs

\* An accepted float becomes a rational; below the width it keeps its numerator.
LEMMA ExactIs ==
  ASSUME NEW f, IsFloat(f), ExactNonnegative(f) # Invalid
  PROVE  /\ ExactNonnegative(f) \in Rational
         /\ ExactNonnegative(f).d = Pow2[f.shift]
         /\ f.num \in Nat /\ f.shift \in Nat
         /\ f.num < Pow2[WIDTH] => ExactNonnegative(f).n = f.num
<1>1. f # Invalid /\ f.num \in Nat /\ f.shift \in Nat
  BY DEF ExactNonnegative, IsFloat
<1>2. ExactNonnegative(f) = [n |-> f.num % Pow2[WIDTH], d |-> Pow2[f.shift]]
  BY DEF ExactNonnegative
<1>3. Pow2[WIDTH] \in Nat /\ Pow2[WIDTH] > 0 /\ Pow2[f.shift] \in Nat /\ Pow2[f.shift] > 0
  BY <1>1, PowersArePositive, PricingAssumption
<1>4. f.num % Pow2[WIDTH] \in Nat /\ (f.num < Pow2[WIDTH] => f.num % Pow2[WIDTH] = f.num)
  BY <1>1, <1>3
<1> QED
  BY <1>1, <1>2, <1>3, <1>4 DEF Rational

\* An accepted conversion factor is a positive rational.
LEMMA FactorIs ==
  ASSUME NEW f, IsFloat(f), ExactPositive(f) # Invalid
  PROVE  ExactPositive(f) \in Rational /\ ExactPositive(f).n > 0
<1> DEFINE q == ExactNonnegative(f)
           w == Pow2[WIDTH]
<1>1. q # Invalid /\ q # Zero /\ ExactPositive(f) = q
  BY DEF ExactPositive, Positive
<1>2. q \in Rational /\ f # Invalid /\ f.num \in Nat /\ f.shift \in Nat
  BY <1>1, ExactIs DEF ExactNonnegative
<1>3. q = [n |-> f.num % w, d |-> Pow2[f.shift]]
  BY <1>1 DEF ExactNonnegative
<1>4. f.num % w # 0
  <2>1. CASE f.shift = 0
    <3>1. q.d = 1
      BY <1>3, <2>1, Powers
    <3>2. q.n # 0
      BY <1>1, <1>3, <3>1 DEF Zero
    <3> QED
      BY <1>3, <3>2
  <2>2. CASE f.shift > 0
    <3>1. f.num % 2 = 1
      BY <1>2, <2>2 DEF IsFloat
    <3>2. WIDTH - 1 \in Nat /\ WIDTH = (WIDTH - 1) + 1
      BY PricingAssumption
    <3>3. PICK h \in Nat : w = 2 * h /\ h > 0
      BY <3>2, Powers, PowersArePositive
    <3>4. ASSUME f.num % w = 0 PROVE FALSE
      <4>1. w \in Nat /\ w > 0
        BY <3>3
      <4>2. PICK k \in Nat : f.num = w * k
        <5> HIDE DEF w
        <5>1. /\ f.num \div w \in Nat
              /\ f.num = w * (f.num \div w) + (f.num % w)
          BY <1>2, <4>1, Quotient
        <5>2. f.num = w * (f.num \div w)
          BY <1>2, <3>4, <4>1, <5>1
        <5> QED
          BY <5>1, <5>2
      <4>3. f.num = 2 * (h * k) /\ h * k \in Nat
        BY <3>3, <4>2
      <4>4. \E m \in Nat : f.num = 2 * m
        BY <4>3
      <4> QED
        BY <3>1, <4>4
    <3> QED
      BY <3>4
  <2> QED
    BY <1>2, <2>1, <2>2
<1> QED
  BY <1>1, <1>2, <1>3, <1>4 DEF Rational

\* An accepted product is exactly the integer it is computed as.
LEMMA MultiplyIs ==
  ASSUME NEW a \in Rational, NEW b \in Rational, MultiplyToInteger(a, b) # Invalid
  PROVE  /\ MultiplyToInteger(a, b) \in Word
         /\ a.n * b.n = (a.d * b.d) * MultiplyToInteger(a, b)
<1> DEFINE p == a.n * b.n
           r == a.d * b.d
<1>1. p \in Nat /\ r \in Nat /\ r > 0
  BY DEF Rational
<1>2. p % r = 0 /\ MultiplyToInteger(a, b) = Checked(p \div r)
  BY DEF MultiplyToInteger
<1> HIDE DEF p, r
<1>3. p \div r \in Nat /\ p = r * (p \div r)
  BY <1>1, <1>2, Quotient
<1>4. MultiplyToInteger(a, b) \in Word /\ MultiplyToInteger(a, b) = p \div r
  BY <1>2, <1>3, CheckedIs
<1> QED
  BY <1>3, <1>4 DEF p, r

\* An accepted difference is the difference.
LEMMA SubtractIs ==
  ASSUME NEW a \in Rational, NEW b \in Rational, Subtract(a, b) # Invalid
  PROVE  /\ Subtract(a, b) \in Rational
         /\ (a.n * b.d - b.n * a.d) * Subtract(a, b).d = Subtract(a, b).n * (a.d * b.d)
<1> DEFINE x == a.n * b.d - b.n * a.d
           y == a.d * b.d
           q == Subtract(a, b)
<1>1. Less(b, a) /\ q = Reduced(x, y)
  BY DEF Subtract, InRange
<1>2. x \in Nat /\ y \in Nat /\ y > 0
  BY <1>1 DEF Less, Rational
<1> HIDE DEF x, y, q
<1>3. PICK g \in Nat : /\ g > 0 /\ q.n \in Nat /\ x = g * q.n
                       /\ q.d \in Nat /\ y = g * q.d /\ q.d > 0
                       /\ q = [n |-> q.n, d |-> q.d]
  BY <1>1, <1>2, ReducedIs
<1>4. q \in Rational
  BY <1>3 DEF Rational
<1>5. x * q.d = q.n * y
  BY <1>3
<1> QED
  BY <1>4, <1>5 DEF x, y, q

\* An accepted subtotal is the least number of micro-units that covers the piece.
LEMMA SubtotalIs ==
  ASSUME NEW nanos \in Nat, NEW q \in Rational, Subtotal(nanos, q) # Invalid
  PROVE  /\ Subtotal(nanos, q) \in Word
         /\ IsReduced(q)
         /\ nanos * q.n <= Subtotal(nanos, q) * (MICRO * q.d)
         /\ Subtotal(nanos, q) * (MICRO * q.d) < nanos * q.n + MICRO * q.d
<1> DEFINE p == nanos * q.n
           scale == MICRO * q.d
           sub == (p \div scale) + (IF p % scale = 0 THEN 0 ELSE 1)
<1>1. p \in Nat /\ scale \in Nat /\ scale > 0
  BY PricingAssumption DEF Rational
<1>2. IsReduced(q) /\ Subtotal(nanos, q) = Checked(sub)
  BY DEF Subtotal
<1> HIDE DEF p, scale
<1>3. p \div scale \in Nat /\ p % scale \in Nat /\ p % scale < scale
      /\ p = scale * (p \div scale) + (p % scale)
  BY <1>1, Quotient
<1>4. sub \in Nat
  BY <1>3
<1>5. Subtotal(nanos, q) \in Word /\ Subtotal(nanos, q) = sub
  BY <1>2, <1>4, CheckedIs
<1>6. p <= sub * scale /\ sub * scale < p + scale
  <2>1. CASE p % scale = 0
    BY <1>1, <1>3, <2>1
  <2>2. CASE p % scale # 0
    <3>1. sub = (p \div scale) + 1
      BY <2>2
    <3>2. sub * scale = scale * (p \div scale) + scale
      BY <1>1, <1>3, <3>1
    <3> HIDE DEF sub
    <3> QED
      BY <1>1, <1>3, <2>2, <3>2
  <2> QED
    BY <2>1, <2>2
<1> QED
  BY <1>2, <1>5, <1>6 DEF p, scale

\* The order of rationals is transitive.
LEMMA LessIsTransitive ==
  ASSUME NEW a \in Rational, NEW b \in Rational, NEW c \in Rational, Less(a, b), Less(b, c)
  PROVE  Less(a, c)
<1>1. /\ a.n \in Nat /\ b.n \in Nat /\ c.n \in Nat
      /\ a.d \in Nat /\ b.d \in Nat /\ c.d \in Nat /\ a.d > 0 /\ b.d > 0 /\ c.d > 0
  BY DEF Rational
<1>2. a.n * b.d < b.n * a.d /\ b.n * c.d < c.n * b.d
  BY DEF Less
<1>3. (a.n * b.d) * c.d < (b.n * a.d) * c.d
  BY <1>1, <1>2
<1>4. (b.n * c.d) * a.d < (c.n * b.d) * a.d
  BY <1>1, <1>2
<1>5. (a.n * c.d) * b.d < (c.n * a.d) * b.d
  BY <1>1, <1>3, <1>4
<1>6. a.n * c.d < c.n * a.d
  BY <1>1, <1>5
<1> QED
  BY <1>6 DEF Less

-------------------------------------------------------------------------------
(* The SKUs that are chosen.                                                *)

\* What a price list holds: a finite list of tiers.
LEMMA PriceIs ==
  ASSUME NEW list \in Catalogues, NEW price \in Range(list)
  PROVE  /\ IsPrice(price)
         /\ price.tiers = [i \in 1 .. Len(price.tiers) |-> price.tiers[i]]
         /\ Len(price.tiers) \in Nat
         /\ \A i \in 1 .. Len(price.tiers) : IsTier(price.tiers[i])
<1>1. IsPrice(price)
  BY CatalogueAssumption
<1>2. price.tiers \in Seq(Range(price.tiers))
  BY <1>1 DEF IsPrice
<1>3. \A i \in 1 .. Len(price.tiers) : price.tiers[i] \in Range(price.tiers)
  BY <1>2
<1> QED
  BY <1>1, <1>2, <1>3 DEF IsPrice

\* The key a candidate is sorted by is a number.
LEMMA DearestIs ==
  ASSUME NEW list \in Catalogues, NEW price \in Range(list)
  PROVE  Dearest(price) \in Int
<1> DEFINE tiers == price.tiers
           rates == {TierPrice(tiers[i]) : i \in DOMAIN tiers}
<1>1. DOMAIN tiers = 1 .. Len(tiers) /\ Len(tiers) \in Nat /\ \A i \in DOMAIN tiers : IsTier(tiers[i])
  BY PriceIs
<1>2. CASE Invalid \in rates \/ rates = {}
  BY <1>2 DEF Dearest, DearestOf
<1>3. CASE Invalid \notin rates /\ rates # {}
  <2>1. rates \in SUBSET Int
    <3> SUFFICES ASSUME NEW i \in DOMAIN tiers PROVE TierPrice(tiers[i]) \in Int
      OBVIOUS
    <3>1. TierPrice(tiers[i]) # Invalid
      BY <1>3
    <3> QED
      BY <1>1, <3>1, TierPriceIs, PowersArePositive, PricingAssumption DEF Word
  <2>2. IsFiniteSet(rates)
    <3> DEFINE f == [i \in DOMAIN tiers |-> TierPrice(tiers[i])]
    <3>1. IsFiniteSet(DOMAIN tiers)
      <4>1. 1 \in Int /\ Len(tiers) \in Int /\ DOMAIN tiers = 1 .. Len(tiers)
        BY <1>1
      <4> HIDE DEF f, rates, tiers
      <4> QED
        BY <4>1, FS_Interval
    <3>2. f \in Surjection(DOMAIN tiers, rates)
      <4>1. f \in [DOMAIN tiers -> rates]
        OBVIOUS
      <4>2. \A y \in rates : \E x \in DOMAIN tiers : f[x] = y
        OBVIOUS
      <4> HIDE DEF f, rates, tiers
      <4> QED
        BY <4>1, <4>2 DEF Surjection
    <3> HIDE DEF f, rates
    <3> QED
      BY <3>1, <3>2, FS_Surjection
  <2> QED
    BY <1>3, <2>1, <2>2, MaxIs DEF Dearest, DearestOf
<1> QED
  BY <1>2, <1>3

\* What a search sorts: SKUs and the price each is sorted by.
Candidates(list, keys) ==
  /\ DOMAIN keys \in SUBSET Nat /\ IsFiniteSet(DOMAIN keys)
  /\ \A i \in DOMAIN keys : keys[i] \in Int /\ list[i].sku \in Int

\* Some place holds the candidate that LastOf takes, and no candidate comes after it.
LEMMA LastIs ==
  ASSUME NEW list, NEW keys, Candidates(list, keys), DOMAIN keys # {}
  PROVE  \E i \in DOMAIN keys :
           /\ LastOf(list, keys) = list[i]
           /\ \A j \in DOMAIN keys :
                keys[i] > keys[j] \/ (keys[i] = keys[j] /\ list[i].sku >= list[j].sku)
<1> DEFINE after(i, j) ==
             \/ keys[i] > keys[j]
             \/ keys[i] = keys[j] /\ list[i].sku > list[j].sku
             \/ keys[i] = keys[j] /\ list[i].sku = list[j].sku /\ i >= j
           S == DOMAIN keys
           R == {p \in S \X S : after(p[1], p[2])}
<1>1. IsFiniteSet(S) /\ S \in SUBSET Nat /\ \A i \in S : keys[i] \in Int /\ list[i].sku \in Int
  BY DEF Candidates
<1>2. \A i, j \in S : <<i, j>> \in R <=> after(i, j)
  OBVIOUS
<1> HIDE DEF R
<1>3. \A i, j \in S : <<i, j>> \in R \/ <<j, i>> \in R
  <2>1. \A i, j \in S : after(i, j) \/ after(j, i)
    BY <1>1
  <2> HIDE DEF after
  <2> QED
    BY <1>2, <2>1
<1>4. \A i, j, k \in S : <<i, j>> \in R /\ <<j, k>> \in R => <<i, k>> \in R
  <2>1. \A i, j, k \in S : after(i, j) /\ after(j, k) => after(i, k)
    BY <1>1
  <2> HIDE DEF after
  <2> QED
    BY <1>2, <2>1
<1>5. LastOf(list, keys) = list[CHOOSE i \in S : \A j \in S : after(i, j)]
  BY DEF LastOf
<1>6. \E i \in S : \A j \in S : after(i, j)
  <2>1. IsFiniteSet(S) /\ S # {}
    BY <1>1
  <2>2. \E i \in S : \A j \in S : <<i, j>> \in R
    <3> HIDE DEF S
    <3> QED
      BY <1>3, <1>4, <2>1, FirstExists
  <2> QED
    BY <1>2, <2>2
<1> DEFINE l == CHOOSE i \in S : \A j \in S : after(i, j)
<1> HIDE DEF after
<1>7. l \in S /\ \A j \in S : after(l, j)
  BY <1>6
<1> HIDE DEF l
<1>8. \A j \in S : keys[l] > keys[j] \/ (keys[l] = keys[j] /\ list[l].sku >= list[j].sku)
  BY <1>1, <1>7 DEF after
<1>9. LastOf(list, keys) = list[l]
  BY <1>5 DEF l
<1> QED
  BY <1>7, <1>8, <1>9

\* The keys of a selection from a catalogue are those of candidates.
LEMMA CandidatesAre ==
  ASSUME NEW list \in Catalogues, NEW keys, DOMAIN keys \in SUBSET DOMAIN list,
         \A i \in DOMAIN keys : keys[i] \in Int
  PROVE  Candidates(list, keys)
<1>1. list \in Seq(Range(list)) /\ \A i \in DOMAIN list : list[i].sku \in Int
  <2>1. \A i \in DOMAIN list : list[i] \in Range(list)
    BY DEF Range
  <2> QED
    BY <2>1, CatalogueAssumption DEF IsPrice
<1>2. DOMAIN list = 1 .. Len(list) /\ Len(list) \in Nat
  BY <1>1
<1>3. IsFiniteSet(1 .. Len(list))
  BY <1>2, FS_Interval
<1>4. IsFiniteSet(DOMAIN keys) /\ DOMAIN keys \in SUBSET Nat
  BY <1>2, <1>3, FS_Subset
<1> QED
  BY <1>1, <1>4 DEF Candidates

\* The last candidate is one of the list.
LEMMA LastOfIs ==
  ASSUME NEW list \in Catalogues, NEW keys, DOMAIN keys \in SUBSET DOMAIN list,
         \A i \in DOMAIN keys : keys[i] \in Int, LastOf(list, keys) # Invalid
  PROVE  LastOf(list, keys) \in Range(list)
<1>1. Candidates(list, keys) /\ DOMAIN keys # {}
  BY CandidatesAre DEF LastOf
<1>2. PICK i \in DOMAIN keys : LastOf(list, keys) = list[i]
  BY <1>1, LastIs
<1> QED
  BY <1>2 DEF Range

\* A SKU found by its words is one of the list.
LEMMA SelectedIs ==
  ASSUME NEW list \in Catalogues, NEW words, SelectPrice(list, words) # Invalid
  PROVE  SelectPrice(list, words) \in Range(list)
<1> DEFINE found == {j \in DOMAIN list : Mentions(list[j], words)}
           keys == [i \in found |-> Dearest(list[i])]
<1>1. \A i \in found : keys[i] \in Int
  BY DearestIs DEF Range
<1>2. DOMAIN keys \in SUBSET DOMAIN list /\ SelectPrice(list, words) = LastOf(list, keys)
  BY DEF SelectPrice
<1> HIDE DEF keys
<1> QED
  BY <1>1, <1>2, LastOfIs DEF keys

\* So is one found by either of two sets of words.
LEMMA AnyIs ==
  ASSUME NEW list \in Catalogues, NEW words, NEW otherwise,
         SelectAny(list, words, otherwise) # Invalid
  PROVE  SelectAny(list, words, otherwise) \in Range(list)
BY SelectedIs DEF SelectAny

\* So is the single one found by its description.
LEMMA ExactlyIs ==
  ASSUME NEW list \in Catalogues, NEW description, SelectExact(list, description) # Invalid
  PROVE  SelectExact(list, description) \in Range(list)
<1> DEFINE found == {i \in DOMAIN list : /\ list[i].usd /\ list[i].text = description
                                         /\ list[i].suffix # "other"}
<1>1. /\ Cardinality(found) = 1
      /\ SelectExact(list, description) = list[CHOOSE i \in found : TRUE]
  BY DEF SelectExact
<1>2. found # {}
  BY <1>1, FS_EmptySet
<1>3. (CHOOSE i \in found : TRUE) \in found
  BY <1>2
<1> QED
  BY <1>1, <1>3 DEF Range

-------------------------------------------------------------------------------
(* What a configuration needs.                                              *)

\* The first powers of two.
LEMMA SmallPowers ==
  /\ Pow2[0] = 1 /\ Pow2[1] = 2 /\ Pow2[2] = 4 /\ Pow2[3] = 8 /\ Pow2[4] = 16 /\ Pow2[5] = 32
  /\ Pow2[6] = 64 /\ Pow2[7] = 128 /\ Pow2[8] = 256 /\ Pow2[9] = 512 /\ Pow2[10] = 1024
<1>1. Pow2[0] = 1 /\ Pow2[0 + 1] = 2 * Pow2[0] /\ Pow2[1 + 1] = 2 * Pow2[1]
      /\ Pow2[2 + 1] = 2 * Pow2[2] /\ Pow2[3 + 1] = 2 * Pow2[3]
  BY Powers
<1>2. Pow2[4 + 1] = 2 * Pow2[4] /\ Pow2[5 + 1] = 2 * Pow2[5] /\ Pow2[6 + 1] = 2 * Pow2[6]
      /\ Pow2[7 + 1] = 2 * Pow2[7] /\ Pow2[8 + 1] = 2 * Pow2[8] /\ Pow2[9 + 1] = 2 * Pow2[9]
  BY Powers
<1> QED
  BY <1>1, <1>2

\* A dyadic in lowest terms.
LEMMA DyadicIs ==
  ASSUME NEW n \in Nat, NEW k \in Nat, NEW z \in 0 .. k, n % Pow2[z] = 0,
         \A i \in 0 .. k : n % Pow2[i] = 0 => i <= z
  PROVE  Dyadic(n, k) = [num |-> n \div Pow2[z], shift |-> k - z]
<1> DEFINE S == {i \in 0 .. k : n % Pow2[i] = 0}
<1>1. S \in SUBSET Int /\ IsFiniteSet(S) /\ S # {}
  <2>1. IsFiniteSet(0 .. k)
    BY FS_Interval
  <2> QED
    BY <2>1, FS_Subset
<1>2. Max(S) \in S /\ \A y \in S : y <= Max(S)
  BY <1>1, MaxIs
<1>3. Max(S) = z
  BY <1>2
<1> QED
  BY <1>3 DEF Dyadic

\* Half a CPU, two CPUs or GiB, and 4096 MiB in GiB.
LEMMA MachineValues ==
  /\ Dyadic(1, 1) = [num |-> 1, shift |-> 1]
  /\ Dyadic(2, 0) = [num |-> 2, shift |-> 0]
  /\ Dyadic(4096, 10) = [num |-> 4, shift |-> 0]
<1>1. Dyadic(1, 1) = [num |-> 1, shift |-> 1]
  <2>1. Dyadic(1, 1) = [num |-> 1 \div Pow2[0], shift |-> 1 - 0]
    <3>1. 1 % Pow2[0] = 0 /\ 1 % Pow2[1] # 0
      BY SmallPowers
    <3>2. \A i \in 0 .. 1 : 1 % Pow2[i] = 0 => i <= 0
      BY <3>1
    <3> QED
      BY <3>1, <3>2, DyadicIs
  <2> QED
    BY <2>1, SmallPowers
<1>2. Dyadic(2, 0) = [num |-> 2, shift |-> 0]
  <2>1. Dyadic(2, 0) = [num |-> 2 \div Pow2[0], shift |-> 0 - 0]
    <3>1. 2 % Pow2[0] = 0
      BY SmallPowers
    <3> QED
      BY <3>1, DyadicIs
  <2> QED
    BY <2>1, SmallPowers
<1>3. Dyadic(4096, 10) = [num |-> 4, shift |-> 0]
  <2>1. Dyadic(4096, 10) = [num |-> 4096 \div Pow2[10], shift |-> 10 - 10]
    <3>1. 4096 % Pow2[10] = 0
      BY SmallPowers
    <3> QED
      BY <3>1, DyadicIs
  <2> QED
    BY <2>1, SmallPowers
<1> QED
  BY <1>1, <1>2, <1>3

\* The CPU and the memory of both machines have at most one binary place.
LEMMA MachineIs ==
  ASSUME NEW small \in BOOLEAN
  PROVE  /\ IsFloat(Machine(small).vcpus) /\ Machine(small).vcpus.shift \in 0 .. 1
         /\ IsFloat(Machine(small).memory) /\ Machine(small).memory.shift \in 0 .. 1
BY MachineValues DEF Machine, IsFloat

\* A month of such a machine is a rational in halves.
LEMMA HoursIs ==
  ASSUME NEW f, IsFloat(f), f.shift \in 0 .. 1, HoursOf(f) # Invalid
  PROVE  HoursOf(f) \in Rational /\ HoursOf(f).d \in {1, 2}
<1> DEFINE q == ExactPositive(f)
<1>1. q # Invalid /\ HoursOf(f) = Reduced(q.n * HOURS, q.d)
  BY DEF HoursOf, OverMonth
<1>2. q \in Rational /\ q = ExactNonnegative(f) /\ ExactNonnegative(f) # Invalid
  BY <1>1, FactorIs DEF ExactPositive, Positive
<1>3. q.d \in {1, 2}
  BY <1>2, ExactIs, SmallPowers
<1>4. q.n * HOURS \in Nat /\ q.d \in Nat /\ q.d > 0
  BY <1>2, PricingAssumption DEF Rational
<1> HIDE DEF q
<1>5. PICK g \in Nat : /\ g > 0 /\ HoursOf(f).n \in Nat /\ HoursOf(f).d \in Nat
                       /\ q.d = g * HoursOf(f).d /\ HoursOf(f).d > 0
                       /\ HoursOf(f) = [n |-> HoursOf(f).n, d |-> HoursOf(f).d]
  BY <1>1, <1>4, ReducedIs
<1>6. HoursOf(f).d \in {1, 2}
  BY <1>3, <1>5
<1>7. HoursOf(f) \in Rational
  BY <1>5 DEF Rational
<1> QED
  BY <1>6, <1>7

\* The four SKUs with their usage: from the list, with usages in whole or half units.
LEMMA QuantitiesAre ==
  ASSUME NEW c \in Configs, NEW list \in Catalogues
  PROVE  /\ DOMAIN Quantities(c, list) = 1 .. 4
         /\ \A i \in 1 .. 4 :
              LET w == Quantities(c, list)[i]
              IN /\ w.price # Invalid => w.price \in Range(list)
                 /\ w.usage # Invalid => w.usage \in Rational /\ w.usage.d \in {1, 2}
<1> DEFINE machine == Machine(c.small)
           q == Quantities(c, list)
<1>1. c.small \in BOOLEAN /\ c.disk \in Nat
  BY CatalogueAssumption
<1>2. /\ IsFloat(machine.vcpus) /\ machine.vcpus.shift \in 0 .. 1
      /\ IsFloat(machine.memory) /\ machine.memory.shift \in 0 .. 1
  BY <1>1, MachineIs
<1> HIDE DEF machine
<1>3. HoursOf(machine.vcpus) # Invalid =>
        HoursOf(machine.vcpus) \in Rational /\ HoursOf(machine.vcpus).d \in {1, 2}
  BY <1>2, HoursIs
<1>4. HoursOf(machine.memory) # Invalid =>
        HoursOf(machine.memory) \in Rational /\ HoursOf(machine.memory).d \in {1, 2}
  BY <1>2, HoursIs
<1>5. /\ q[1].usage = HoursOf(machine.vcpus)
      /\ q[2].usage = HoursOf(machine.memory)
      /\ q[3].usage = [n |-> c.disk, d |-> 1]
      /\ q[4].usage = [n |-> HOURS, d |-> 1]
      /\ DOMAIN q = 1 .. 4
  BY DEF Quantities, machine
<1>6. /\ q[1].price \in {SelectExact(list, "core"), SelectPrice(list, {"e2", "core"})}
      /\ q[2].price \in {SelectExact(list, "ram"),
                         SelectAny(list, {"e2", "ram"}, {"e2", "memory"})}
      /\ q[3].price = SelectExact(list, "disk")
      /\ q[4].price = SelectExact(list, "address")
  BY DEF Quantities
<1>7. [n |-> c.disk, d |-> 1] \in Rational /\ [n |-> HOURS, d |-> 1] \in Rational
  BY <1>1, PricingAssumption DEF Rational
<1>8. \A i \in 1 .. 4 : q[i].usage # Invalid => q[i].usage \in Rational /\ q[i].usage.d \in {1, 2}
  <2> HIDE DEF q
  <2>1. q[3].usage.d = 1 /\ q[4].usage.d = 1
    BY <1>5
  <2> QED
    BY <1>3, <1>4, <1>5, <1>7, <2>1
<1>9. \A i \in 1 .. 4 : q[i].price # Invalid => q[i].price \in Range(list)
  <2> HIDE DEF q
  <2>1. q[1].price # Invalid => q[1].price \in Range(list)
    BY <1>6, ExactlyIs, SelectedIs
  <2>2. q[2].price # Invalid => q[2].price \in Range(list)
    BY <1>6, ExactlyIs, AnyIs
  <2>3. q[3].price # Invalid => q[3].price \in Range(list)
    BY <1>6, ExactlyIs
  <2>4. q[4].price # Invalid => q[4].price \in Range(list)
    BY <1>6, ExactlyIs
  <2> QED
    BY <2>1, <2>2, <2>3, <2>4
<1> QED
  BY <1>5, <1>8, <1>9

\* Tiers each above the one before are in order.
LEMMA AllIncrease ==
  ASSUME NEW n \in Nat, NEW s, \A i \in 1 .. n : s[i] \in Rational,
         \A i \in 2 .. n : Less(s[i - 1], s[i])
  PROVE  \A i, j \in 1 .. n : i < j => Less(s[i], s[j])
<1> DEFINE N == {k \in Nat : \A i \in 1 .. n : i + 1 + k \in 1 .. n => Less(s[i], s[i + 1 + k])}
<1>1. 0 \in N
  <2> SUFFICES ASSUME NEW i \in 1 .. n, i + 1 + 0 \in 1 .. n PROVE Less(s[i], s[i + 1 + 0])
    OBVIOUS
  <2>1. i + 1 \in 2 .. n /\ (i + 1) - 1 = i /\ i + 1 + 0 = i + 1
    OBVIOUS
  <2>2. Less(s[(i + 1) - 1], s[i + 1])
    BY <2>1
  <2> QED
    BY <2>1, <2>2
<1>2. \A k \in Nat : k \in N => k + 1 \in N
  <2> SUFFICES ASSUME NEW k \in Nat, k \in N
               PROVE  k + 1 \in N
    OBVIOUS
  <2>0. k + 1 \in Nat
    OBVIOUS
  <2> SUFFICES ASSUME NEW i \in 1 .. n, i + 1 + (k + 1) \in 1 .. n
               PROVE  Less(s[i], s[i + 1 + (k + 1)])
    BY <2>0
  <2> DEFINE j == i + 1 + k
  <2>1. j \in 1 .. n /\ j + 1 \in 2 .. n /\ (j + 1) - 1 = j /\ i + 1 + (k + 1) = j + 1
    OBVIOUS
  <2>2. Less(s[i], s[j])
    BY <2>1
  <2> HIDE DEF j
  <2>3. Less(s[(j + 1) - 1], s[j + 1])
    BY <2>1
  <2>4. Less(s[i], s[j + 1])
    BY <2>1, <2>2, <2>3, LessIsTransitive
  <2> QED
    BY <2>1, <2>4
<1>3. \A k \in Nat : k \in N
  <2> HIDE DEF N
  <2> QED
    BY <1>1, <1>2, Induction
<1> QED
  <2> SUFFICES ASSUME NEW i \in 1 .. n, NEW j \in 1 .. n, i < j PROVE Less(s[i], s[j])
    OBVIOUS
  <2>1. j - i - 1 \in Nat /\ i + 1 + (j - i - 1) = j
    OBVIOUS
  <2> QED
    BY <1>3, <2>1

\* Base-unit boundaries keep the order of the boundaries they come from.
LEMMA BasesIncrease ==
  ASSUME NEW a \in Rational, NEW b \in Rational, NEW f \in Rational, f.n > 0, Less(a, b),
         NEW x \in Nat, NEW y \in Nat,
         a.n * f.n = (a.d * f.d) * x, b.n * f.n = (b.d * f.d) * y
  PROVE  x < y
<1>1. /\ a.n \in Nat /\ b.n \in Nat /\ f.n \in Nat
      /\ a.d \in Nat /\ b.d \in Nat /\ f.d \in Nat /\ a.d > 0 /\ b.d > 0 /\ f.d > 0
  BY DEF Rational
<1>2. a.n * b.d < b.n * a.d
  BY DEF Less
<1>3. (a.n * b.d) * f.n < (b.n * a.d) * f.n
  BY <1>1, <1>2
<1>4. (a.n * b.d) * f.n = (a.d * b.d * f.d) * x
  <2>1. (a.n * b.d) * f.n = (a.n * f.n) * b.d
    BY <1>1
  <2>2. ((a.d * f.d) * x) * b.d = (a.d * b.d * f.d) * x
    BY <1>1
  <2> QED
    BY <2>1, <2>2
<1>5. (b.n * a.d) * f.n = (a.d * b.d * f.d) * y
  <2>1. (b.n * a.d) * f.n = (b.n * f.n) * a.d
    BY <1>1
  <2>2. ((b.d * f.d) * y) * a.d = (a.d * b.d * f.d) * y
    BY <1>1
  <2> QED
    BY <2>1, <2>2
<1> DEFINE m == a.d * b.d * f.d
<1>6. m \in Nat /\ m > 0
  BY <1>1
<1>7. m * x < m * y
  BY <1>3, <1>4, <1>5
<1> HIDE DEF m
<1> QED
  BY <1>6, <1>7

-------------------------------------------------------------------------------
(* The tiers of a SKU.                                                      *)

(* What Normalized returns: tiers from zero up, in order, on base-unit      *)
(* boundaries that keep their order.                                        *)
Tiered(t, n) ==
  /\ n \in Nat /\ n > 0 /\ Len(t) = n /\ DOMAIN t = 1 .. n
  /\ \A i \in 1 .. n : t[i].start \in Rational /\ t[i].nanos \in Word /\ t[i].base \in Word
  /\ \A i, j \in 1 .. n : i < j => Less(t[i].start, t[j].start) /\ t[i].base < t[j].base
  /\ t[1].start.n = 0

\* Each tier of the SKU is behind a free one or none.
TiersOf(price, t, free) ==
  /\ free \in {0, 1} /\ Len(t) = Len(price.tiers) + free
  /\ free = 1 => t[1].nanos = 0 /\ t[1].start = Zero
  /\ \A i \in 1 .. Len(price.tiers) :
       /\ ExactNonnegative(price.tiers[i].start) # Invalid /\ TierPrice(price.tiers[i]) # Invalid
       /\ t[i + free].start = ExactNonnegative(price.tiers[i].start)
       /\ t[i + free].nanos = TierPrice(price.tiers[i])

\* The tiers as Ordered accepts them.
Accepted(price, raw, n) ==
  /\ \A i \in 1 .. n : /\ IsTier(price.tiers[i])
                        /\ raw[i] = NormalizedTier(price.tiers[i],
                                                   ExactNonnegative(price.tiers[i].start),
                                                   ExactPositive(price.conversion))
                        /\ Invalid \notin {raw[i].start, raw[i].base, raw[i].nanos}
  /\ \A i \in 2 .. n : Less(raw[i - 1].start, raw[i].start)

\* The tiers that Ordered accepts are in order and on base-unit boundaries.
LEMMA AcceptedAre ==
  ASSUME NEW price, IsPrice(price), NEW n \in Nat, n > 0, NEW raw, Accepted(price, raw, n)
  PROVE  /\ \A i \in 1 .. n : /\ raw[i].start = ExactNonnegative(price.tiers[i].start)
                              /\ raw[i].nanos = TierPrice(price.tiers[i])
         /\ \A i \in 1 .. n : /\ raw[i].start \in Rational /\ raw[i].nanos \in Word
                              /\ raw[i].base \in Word
                              /\ raw[i].start.n > 0 => raw[i].base > 0
         /\ \A i, j \in 1 .. n : i < j => /\ Less(raw[i].start, raw[j].start)
                                          /\ raw[i].base < raw[j].base
<1> DEFINE f == ExactPositive(price.conversion)
<1>1. ASSUME NEW i \in 1 .. n
      PROVE  /\ raw[i].start = ExactNonnegative(price.tiers[i].start)
             /\ raw[i].nanos = TierPrice(price.tiers[i])
             /\ raw[i].start # Invalid /\ raw[i].nanos # Invalid
             /\ f # Invalid /\ MultiplyToInteger(raw[i].start, f) # Invalid
             /\ raw[i].base = MultiplyToInteger(raw[i].start, f)
  <2>1. /\ raw[i] = NormalizedTier(price.tiers[i], ExactNonnegative(price.tiers[i].start), f)
        /\ Invalid \notin {raw[i].start, raw[i].base, raw[i].nanos}
    BY DEF Accepted
  <2> HIDE DEF f
  <2> QED
    BY <2>1 DEF NormalizedTier
<1>2. f \in Rational /\ f.n > 0
  <2>1. 1 \in 1 .. n
    OBVIOUS
  <2>2. f # Invalid
    BY <1>1, <2>1
  <2> QED
    BY <2>2, FactorIs DEF IsPrice
<1> HIDE DEF f
<1>3. ASSUME NEW i \in 1 .. n
      PROVE  /\ raw[i].start \in Rational /\ raw[i].nanos \in Word /\ raw[i].base \in Word
             /\ raw[i].start.n * f.n = (raw[i].start.d * f.d) * raw[i].base
  <2>1. raw[i].start \in Rational
    BY <1>1, ExactIs DEF Accepted, IsTier
  <2>2. raw[i].nanos \in Word
    BY <1>1, TierPriceIs DEF Accepted
  <2> QED
    BY <1>1, <1>2, <2>1, <2>2, MultiplyIs
<1>4. Word \subseteq Nat
  BY PowersArePositive, PricingAssumption DEF Word
<1>5. ASSUME NEW i \in 1 .. n, raw[i].start.n > 0 PROVE raw[i].base > 0
  <2>1. /\ raw[i].start.n * f.n = (raw[i].start.d * f.d) * raw[i].base
        /\ raw[i].start.n \in Nat /\ f.n \in Nat /\ raw[i].start.d \in Nat /\ f.d \in Nat
        /\ raw[i].base \in Nat
    BY <1>2, <1>3, <1>4 DEF Rational
  <2>2. raw[i].start.n * f.n > 0
    BY <1>2, <1>5, <2>1
  <2>3. raw[i].base # 0
    <3> DEFINE d == raw[i].start.d * f.d
               v == raw[i].base
    <3>1. d \in Nat /\ v \in Nat /\ d * v > 0
      BY <2>1, <2>2
    <3> HIDE DEF d, v
    <3>2. v # 0
      BY <3>1
    <3> QED
      BY <3>2 DEF v
  <2> QED
    BY <2>1, <2>3
<1>6. \A i, j \in 1 .. n : i < j => Less(raw[i].start, raw[j].start)
  <2> DEFINE s == [i \in 1 .. n |-> raw[i].start]
  <2>1. \A i \in 1 .. n : s[i] = raw[i].start /\ s[i] \in Rational
    BY <1>3
  <2>2. \A i \in 2 .. n : Less(s[i - 1], s[i])
    BY DEF Accepted
  <2> HIDE DEF s
  <2>3. \A i, j \in 1 .. n : i < j => Less(s[i], s[j])
    BY <2>1, <2>2, AllIncrease
  <2> QED
    BY <2>1, <2>3
<1>7. ASSUME NEW i \in 1 .. n, NEW j \in 1 .. n, i < j PROVE raw[i].base < raw[j].base
  <2>1. Less(raw[i].start, raw[j].start)
    BY <1>6, <1>7
  <2>2. raw[i].base \in Nat /\ raw[j].base \in Nat
    BY <1>3, <1>4
  <2> QED
    BY <1>2, <1>3, <2>1, <2>2, BasesIncrease
<1> QED
  BY <1>1, <1>3, <1>5, <1>6, <1>7

\* What Normalized returns is such a list of tiers.
LEMMA NormalizedIs ==
  ASSUME NEW list \in Catalogues, NEW price \in Range(list), Normalized(price) # Invalid
  PROVE  \E n, free : Tiered(Normalized(price), n) /\ TiersOf(price, Normalized(price), free)
<1> DEFINE m == Len(price.tiers)
           raw == [i \in 1 .. m |-> NormalizedTier(price.tiers[i],
                                                   ExactNonnegative(price.tiers[i].start),
                                                   ExactPositive(price.conversion))]
           t == Normalized(price)
<1>1. IsPrice(price) /\ m \in Nat /\ DOMAIN price.tiers = 1 .. m
      /\ \A i \in 1 .. m : IsTier(price.tiers[i])
  BY PriceIs
<1>2. t = Ordered(raw)
  BY <1>1 DEF Normalized
<1>3. raw \in Seq(Range(raw)) /\ Len(raw) = m /\ DOMAIN raw = 1 .. m
  BY <1>1 DEF Range
<1>4. \A i \in 1 .. m : raw[i] = NormalizedTier(price.tiers[i],
                                                ExactNonnegative(price.tiers[i].start),
                                                ExactPositive(price.conversion))
  OBVIOUS
<1> HIDE DEF raw, t, m
<1>5. /\ raw # <<>>
      /\ \A i \in DOMAIN raw : Invalid \notin {raw[i].start, raw[i].base, raw[i].nanos}
      /\ \A i \in 2 .. Len(raw) : Less(raw[i - 1].start, raw[i].start)
      /\ t = IF raw[1].start.n = 0 THEN raw
             ELSE <<[start |-> Zero, base |-> 0, nanos |-> 0]>> \o raw
  BY <1>2 DEF Ordered, t
<1>6. m > 0
  BY <1>1, <1>3, <1>5
<1>7. /\ \A i \in 1 .. m : /\ raw[i].start = ExactNonnegative(price.tiers[i].start)
                           /\ raw[i].nanos = TierPrice(price.tiers[i])
      /\ \A i \in 1 .. m : /\ raw[i].start \in Rational /\ raw[i].nanos \in Word
                           /\ raw[i].base \in Word
                           /\ raw[i].start.n > 0 => raw[i].base > 0
      /\ \A i, j \in 1 .. m : i < j => /\ Less(raw[i].start, raw[j].start)
                                       /\ raw[i].base < raw[j].base
  <2>1. Accepted(price, raw, m)
    BY <1>1, <1>3, <1>4, <1>5 DEF Accepted
  <2> QED
    BY <1>1, <1>6, <2>1, AcceptedAre
<1>8. \A i \in 1 .. m : ExactNonnegative(price.tiers[i].start) # Invalid
                        /\ TierPrice(price.tiers[i]) # Invalid
  BY <1>3, <1>5, <1>7
<1>9. CASE raw[1].start.n = 0
  <2>1. t = raw
    BY <1>5, <1>9
  <2>2. Tiered(t, m)
    BY <1>1, <1>3, <1>6, <1>7, <1>9, <2>1 DEF Tiered
  <2>3. TiersOf(price, t, 0)
    <3>1. \A i \in 1 .. m : i + 0 = i
      BY <1>1
    <3> QED
      BY <1>1, <1>3, <1>7, <1>8, <2>1, <3>1 DEF TiersOf, m
  <2> QED
    BY <2>2, <2>3 DEF t
<1>10. CASE raw[1].start.n # 0
  <2> DEFINE zero == [start |-> Zero, base |-> 0, nanos |-> 0]
  <2>1. t = <<zero>> \o raw
    BY <1>5, <1>10
  <2>2. Len(t) = m + 1 /\ DOMAIN t = 1 .. m + 1 /\ t[1] = zero /\ \A i \in 1 .. m : t[i + 1] = raw[i]
    BY <1>1, <1>3, <2>1
  <2>3. zero.start = Zero /\ zero.base = 0 /\ zero.nanos = 0 /\ zero.start.n = 0
        /\ Zero \in Rational /\ 0 \in Word
    BY PowersArePositive, PricingAssumption DEF Zero, Rational, Word
  <2> HIDE DEF zero
  <2>4. \A i \in 2 .. m + 1 : i - 1 \in 1 .. m /\ t[i] = raw[i - 1]
    <3> SUFFICES ASSUME NEW i \in 2 .. m + 1 PROVE i - 1 \in 1 .. m /\ t[i] = raw[i - 1]
      OBVIOUS
    <3>1. i - 1 \in 1 .. m /\ (i - 1) + 1 = i
      BY <1>1
    <3>2. t[(i - 1) + 1] = raw[i - 1]
      BY <2>2, <3>1
    <3> QED
      BY <3>1, <3>2
  <2>5. \A i \in 1 .. m : Less(Zero, raw[i].start) /\ raw[i].base > 0
    <3>1. raw[1].start \in Rational /\ raw[1].start.n \in Nat /\ raw[1].start.n > 0
      BY <1>1, <1>6, <1>7, <1>10 DEF Rational
    <3>2. Less(Zero, raw[1].start)
      BY <3>1 DEF Less, Zero, Rational
    <3>3. ASSUME NEW i \in 1 .. m PROVE Less(Zero, raw[i].start)
      <4>1. CASE i = 1
        BY <3>2, <4>1
      <4>2. CASE i > 1
        <5>1. Less(raw[1].start, raw[i].start) /\ raw[i].start \in Rational
          BY <1>1, <1>6, <1>7, <4>2
        <5> QED
          BY <2>3, <3>1, <3>2, <5>1, LessIsTransitive
      <4> QED
        BY <4>1, <4>2
    <3>4. ASSUME NEW i \in 1 .. m PROVE raw[i].base > 0
      <4>1. raw[i].start.n > 0
        BY <1>7, <3>3 DEF Less, Zero, Rational
      <4> QED
        BY <1>7, <4>1
    <3> QED
      BY <3>3, <3>4
  <2>6. \A i \in 1 .. m + 1 : t[i].start \in Rational /\ t[i].nanos \in Word /\ t[i].base \in Word
    <3> SUFFICES ASSUME NEW i \in 1 .. m + 1
                 PROVE  t[i].start \in Rational /\ t[i].nanos \in Word /\ t[i].base \in Word
      OBVIOUS
    <3>1. CASE i = 1
      BY <2>2, <2>3, <3>1
    <3>2. CASE i > 1
      BY <1>1, <1>7, <2>4, <3>2
    <3> QED
      BY <3>1, <3>2
  <2>7. ASSUME NEW i \in 1 .. m + 1, NEW j \in 1 .. m + 1, i < j
        PROVE  Less(t[i].start, t[j].start) /\ t[i].base < t[j].base
    <3>1. j \in 2 .. m + 1
      BY <1>1, <2>7
    <3>2. CASE i = 1
      BY <2>2, <2>3, <2>4, <2>5, <3>1, <3>2
    <3>3. CASE i > 1
      <4>1. i \in 2 .. m + 1 /\ i - 1 < j - 1
        BY <1>1, <2>7, <3>3
      <4> QED
        BY <1>7, <2>4, <3>1, <4>1
    <3> QED
      BY <3>2, <3>3
  <2>8. Tiered(t, m + 1)
    BY <1>1, <2>2, <2>3, <2>6, <2>7 DEF Tiered
  <2>9. TiersOf(price, t, 1)
    BY <1>7, <1>8, <2>2, <2>3 DEF TiersOf, m
  <2> QED
    BY <2>8, <2>9 DEF t
<1> QED
  BY <1>9, <1>10

-------------------------------------------------------------------------------
(* The lines of a SKU.                                                      *)

(* The lines of one SKU: the usage up to the start of each tier it reaches, *)
(* cut into the first m of the n tiers.                                     *)
Sliced(price, usage, lines, t, n, m) ==
  /\ Tiered(t, n) /\ m \in 1 .. n /\ DOMAIN lines = 1 .. m
  /\ IsReduced(usage)
  /\ \A i \in 1 .. m : Less(t[i].start, usage)
  /\ \A i \in 1 .. n : i > m => ~Less(t[i].start, usage)
  /\ \A i \in 1 .. m :
       lines[i] = LineForTier(price, t[i],
                              Subtract(IF i < m THEN t[i + 1].start ELSE usage, t[i].start))

\* PricingLines cuts the usage so.
LEMMA CutsAre ==
  ASSUME NEW list \in Catalogues, NEW price \in Range(list), NEW usage \in Rational,
         IsReduced(usage), Normalized(price) # Invalid
  PROVE  \E n, free, m :
           /\ TiersOf(price, Normalized(price), free)
           /\ Sliced(price, usage, PricingLines(price, usage), Normalized(price), n, m)
<1> DEFINE t == Normalized(price)
           lines == PricingLines(price, usage)
           used == {i \in DOMAIN t : Less(t[i].start, usage)}
           end(i) == IF i < Len(t) /\ Less(t[i + 1].start, usage) THEN t[i + 1].start ELSE usage
<1>1. /\ IsReduced(usage) /\ t # Invalid
      /\ lines = [i \in used |-> LineForTier(price, t[i], Subtract(end(i), t[i].start))]
  BY DEF PricingLines, Slices
<1>2. PICK n, free : Tiered(t, n) /\ TiersOf(price, t, free)
  BY <1>1, NormalizedIs
<1> HIDE DEF lines, t
<1>3. n \in Nat /\ n > 0 /\ Len(t) = n /\ DOMAIN t = 1 .. n
  BY <1>2 DEF Tiered
<1>4. 1 \in used
  <2>1. t[1].start \in Rational /\ t[1].start.n = 0
    BY <1>2, <1>3 DEF Tiered
  <2>2. usage.n > 0 /\ usage.n \in Nat
    BY <1>1 DEF IsReduced, Rational
  <2>3. Less(t[1].start, usage)
    BY <2>1, <2>2 DEF Less, Rational
  <2> QED
    BY <1>3, <2>3
<1>5. \A i \in used : \A j \in 1 .. n : j < i => j \in used
  <2> SUFFICES ASSUME NEW i \in used, NEW j \in 1 .. n, j < i PROVE Less(t[j].start, usage)
    BY <1>3
  <2>1. Less(t[j].start, t[i].start) /\ Less(t[i].start, usage)
        /\ t[j].start \in Rational /\ t[i].start \in Rational
    BY <1>2, <1>3 DEF Tiered
  <2> QED
    BY <2>1, LessIsTransitive
<1>6. used \in SUBSET Int /\ IsFiniteSet(used) /\ used # {}
  <2>1. IsFiniteSet(1 .. n) /\ used \in SUBSET (1 .. n)
    BY <1>3, FS_Interval
  <2> HIDE DEF used
  <2>2. IsFiniteSet(used)
    BY <2>1, FS_Subset
  <2> QED
    BY <1>3, <1>4, <2>1, <2>2
<1> DEFINE m == Max(used)
<1>7. m \in used /\ \A i \in used : i <= m
  BY <1>6, MaxIs
<1> HIDE DEF m
<1>8. m \in 1 .. n /\ used = 1 .. m
  <2>1. m \in 1 .. n /\ used \in SUBSET (1 .. n)
    BY <1>3, <1>7
  <2>2. ASSUME NEW i \in 1 .. m PROVE i \in used
    <3>1. i \in 1 .. n /\ (i = m \/ i < m)
      BY <1>3, <2>1
    <3> HIDE DEF used
    <3> QED
      BY <1>5, <1>7, <3>1
  <2> HIDE DEF used
  <2>3. \A i \in used : i \in 1 .. m
    BY <1>7, <2>1
  <2> QED
    BY <2>1, <2>2, <2>3
<1>9. \A i \in 1 .. m : Less(t[i].start, usage)
  BY <1>8
<1>10. \A i \in 1 .. n : i > m => ~Less(t[i].start, usage)
  BY <1>3, <1>8
<1>11. ASSUME NEW i \in 1 .. m
       PROVE  lines[i] = LineForTier(price, t[i],
                           Subtract(IF i < m THEN t[i + 1].start ELSE usage, t[i].start))
  <2>1. end(i) = IF i < m THEN t[i + 1].start ELSE usage
    <3>1. CASE i < m
      <4>1. i + 1 \in 1 .. m /\ i < n
        BY <1>3, <1>8, <3>1
      <4> QED
        BY <1>3, <1>9, <3>1, <4>1
    <3>2. CASE i = m
      <4>1. i < n => i + 1 \in 1 .. n /\ i + 1 > m
        BY <1>3, <1>8, <3>2
      <4> QED
        BY <1>3, <1>8, <1>10, <3>2, <4>1
    <3> QED
      BY <1>3, <1>8, <3>1, <3>2
  <2>2. i \in used
    BY <1>8
  <2> HIDE DEF used
  <2>3. lines[i] = LineForTier(price, t[i], Subtract(end(i), t[i].start))
    BY <1>1, <2>2
  <2> HIDE DEF end
  <2> QED
    BY <2>1, <2>3
<1>12. DOMAIN lines = 1 .. m
  <2> HIDE DEF used, end
  <2> QED
    BY <1>1, <1>8
<1>13. Sliced(price, usage, lines, t, n, m)
  BY <1>1, <1>2, <1>8, <1>9, <1>10, <1>11, <1>12 DEF Sliced
<1> QED
  BY <1>2, <1>13 DEF lines, t

LEMMA LinesAre ==
  ASSUME NEW list \in Catalogues, NEW price \in Range(list), NEW usage \in Rational,
         PricingLines(price, usage) # Invalid
  PROVE  \E n, free, m :
           /\ TiersOf(price, Normalized(price), free)
           /\ Sliced(price, usage, PricingLines(price, usage), Normalized(price), n, m)
<1>1. IsReduced(usage) /\ Normalized(price) # Invalid
  BY DEF PricingLines, Slices
<1> QED
  BY <1>1, CutsAre

\* One line: its tier, the ends of its slice and what it is billed.
LineSound(line, tier, end) ==
  /\ line.usage = Subtract(end, tier.start) /\ line.usage # Invalid
  /\ line.usage \in Rational /\ IsReduced(line.usage)
  /\ line.start = tier.base /\ line.nanos = tier.nanos
  /\ line.start \in Word /\ line.nanos \in Word /\ line.subtotal \in Word
  /\ line.subtotal = Subtotal(line.nanos, line.usage)

\* A line whose subtotal was accepted is a sound line of its SKU.
LEMMA LineIs ==
  ASSUME NEW price, NEW usage \in Rational, NEW lines, NEW t, NEW n, NEW m,
         Sliced(price, usage, lines, t, n, m), NEW i \in 1 .. m, lines[i].subtotal # Invalid
  PROVE  /\ LineSound(lines[i], t[i], IF i < m THEN t[i + 1].start ELSE usage)
         /\ lines[i].sku = price.sku /\ lines[i].safe = price.safe
<1> DEFINE end == IF i < m THEN t[i + 1].start ELSE usage
           q == Subtract(end, t[i].start)
<1>1. /\ n \in Nat /\ m \in 1 .. n
      /\ \A j \in 1 .. n : t[j].start \in Rational /\ t[j].nanos \in Word /\ t[j].base \in Word
      /\ lines[i] = LineForTier(price, t[i], q)
  BY DEF Sliced, Tiered
<1>2. end \in Rational /\ t[i].start \in Rational
  <2>1. i < m => i + 1 \in 1 .. n
    BY <1>1
  <2> QED
    BY <1>1, <2>1
<1> HIDE DEF end
<1>3. q # Invalid /\ lines[i].subtotal = Subtotal(t[i].nanos, q)
  BY <1>1 DEF LineForTier
<1>4. q \in Rational
  BY <1>2, <1>3, SubtractIs
<1>5. /\ lines[i].usage = q /\ lines[i].nanos = t[i].nanos /\ lines[i].start = t[i].base
      /\ lines[i].sku = price.sku /\ lines[i].safe = price.safe
  BY <1>1 DEF LineForTier
<1>6. t[i].nanos \in Nat /\ t[i].nanos \in Word /\ t[i].base \in Word
  BY <1>1, PowersArePositive, PricingAssumption DEF Word
<1> HIDE DEF q
<1>7. Subtotal(t[i].nanos, q) \in Word /\ IsReduced(q)
  BY <1>3, <1>4, <1>6, SubtotalIs
<1> QED
  BY <1>3, <1>4, <1>5, <1>6, <1>7 DEF LineSound, q, end

\* The pieces of a quote are those of its parts.
LEMMA PiecesAre ==
  ASSUME NEW parts
  PROVE  /\ \A i \in DOMAIN parts : \A k \in DOMAIN parts[i] :
              <<i, k>> \in DOMAIN Pieces(parts) /\ Pieces(parts)[<<i, k>>] = parts[i][k]
         /\ \A at \in DOMAIN Pieces(parts) :
              \E i \in DOMAIN parts : \E k \in DOMAIN parts[i] : at = <<i, k>>
<1> DEFINE D == UNION {{i} \X DOMAIN parts[i] : i \in DOMAIN parts}
<1>1. DOMAIN Pieces(parts) = D
  BY DEF Pieces
<1>2. \A i \in DOMAIN parts : \A k \in DOMAIN parts[i] : <<i, k>> \in D
  OBVIOUS
<1>3. \A at \in D : \E i \in DOMAIN parts : \E k \in DOMAIN parts[i] : at = <<i, k>>
  OBVIOUS
<1>4. \A at \in D : Pieces(parts)[at] = parts[at[1]][at[2]]
  BY DEF Pieces
<1> HIDE DEF D
<1> QED
  BY <1>1, <1>2, <1>3, <1>4

-------------------------------------------------------------------------------
(* The quote.                                                               *)

\* The line at place k of the i-th SKU that a configuration needs.
Wanted(c, list, i) == Quantities(c, list)[i]
LinesOf(c, list, i) == PricingLines(Wanted(c, list, i).price, Wanted(c, list, i).usage)

QuoteSound(c, list, q) ==
  /\ \A i \in 1 .. 4 :
       /\ Wanted(c, list, i).price \in Range(list)
       /\ Wanted(c, list, i).usage \in Rational /\ Wanted(c, list, i).usage.d \in {1, 2}
       /\ LinesOf(c, list, i) # Invalid
       /\ \A k \in DOMAIN LinesOf(c, list, i) : LinesOf(c, list, i)[k].subtotal # Invalid
  /\ \A i, j \in 1 .. 4 : \A k \in DOMAIN LinesOf(c, list, i), l \in DOMAIN LinesOf(c, list, j) :
       LinesOf(c, list, i)[k] = LinesOf(c, list, j)[l] => i = j /\ k = l
  /\ q.lines = UNION {Range(LinesOf(c, list, i)) : i \in 1 .. 4}
  /\ q.total = Total(q.lines) /\ Checked(q.total) # Invalid

\* An accepted quote is one of four accepted parts, all of whose lines differ.
LEMMA QuoteIs ==
  ASSUME NEW c \in Configs, NEW list \in Catalogues, Quote(c, list) # Invalid
  PROVE  QuoteSound(c, list, Quote(c, list))
<1> DEFINE wanted == Quantities(c, list)
           parts == PricedParts(wanted)
           pieces == Pieces(parts)
           q == Quote(c, list)
<1>1. /\ Invalid \notin Range(parts)
      /\ \A at \in DOMAIN pieces : pieces[at].subtotal # Invalid
      /\ IsInjective(pieces) /\ Checked(Total(Range(pieces))) # Invalid
      /\ q = [lines |-> Range(pieces), total |-> Total(Range(pieces))]
  BY DEF Quote, QuoteParts, QuoteLines
<1>2. DOMAIN wanted = 1 .. 4
  BY QuantitiesAre
<1>3. DOMAIN parts = 1 .. 4
  BY <1>2 DEF PricedParts
<1>4. ASSUME NEW i \in 1 .. 4
      PROVE  /\ Wanted(c, list, i).price # Invalid /\ Wanted(c, list, i).usage # Invalid
             /\ LinesOf(c, list, i) # Invalid /\ parts[i] = LinesOf(c, list, i)
  <2>1. parts[i] # Invalid
    BY <1>1, <1>3 DEF Range
  <2>2. parts[i] = IF Invalid \in {wanted[i].price, wanted[i].usage} THEN Invalid
                   ELSE PricingLines(wanted[i].price, wanted[i].usage)
    BY <1>2 DEF PricedParts
  <2> HIDE DEF parts, wanted
  <2> QED
    BY <2>1, <2>2 DEF LinesOf, Wanted, wanted
<1>5. /\ \A i \in DOMAIN parts : \A k \in DOMAIN parts[i] :
           <<i, k>> \in DOMAIN pieces /\ pieces[<<i, k>>] = parts[i][k]
      /\ \A at \in DOMAIN pieces :
           \E i \in DOMAIN parts : \E k \in DOMAIN parts[i] : at = <<i, k>>
  BY PiecesAre
<1> HIDE DEF wanted, parts, pieces, q
<1>6. ASSUME NEW i \in 1 .. 4
      PROVE  /\ Wanted(c, list, i).price \in Range(list)
             /\ Wanted(c, list, i).usage \in Rational /\ Wanted(c, list, i).usage.d \in {1, 2}
             /\ LinesOf(c, list, i) # Invalid
             /\ \A k \in DOMAIN LinesOf(c, list, i) : LinesOf(c, list, i)[k].subtotal # Invalid
  <2>1. ASSUME NEW k \in DOMAIN LinesOf(c, list, i)
        PROVE  LinesOf(c, list, i)[k].subtotal # Invalid
    <3>1. <<i, k>> \in DOMAIN pieces /\ pieces[<<i, k>>] = LinesOf(c, list, i)[k]
      BY <1>3, <1>4, <1>5
    <3> QED
      BY <1>1, <3>1
  <2>2. /\ wanted[i].price # Invalid => wanted[i].price \in Range(list)
        /\ wanted[i].usage # Invalid => wanted[i].usage \in Rational /\ wanted[i].usage.d \in {1, 2}
    BY QuantitiesAre DEF wanted
  <2>3. Wanted(c, list, i) = wanted[i]
    BY DEF Wanted, wanted
  <2> QED
    BY <1>4, <2>1, <2>2, <2>3
<1>7. ASSUME NEW i \in 1 .. 4, NEW j \in 1 .. 4, NEW k \in DOMAIN LinesOf(c, list, i),
             NEW l \in DOMAIN LinesOf(c, list, j), LinesOf(c, list, i)[k] = LinesOf(c, list, j)[l]
      PROVE  i = j /\ k = l
  <2>1. /\ <<i, k>> \in DOMAIN pieces /\ pieces[<<i, k>>] = LinesOf(c, list, i)[k]
        /\ <<j, l>> \in DOMAIN pieces /\ pieces[<<j, l>>] = LinesOf(c, list, j)[l]
    BY <1>3, <1>4, <1>5
  <2>2. <<i, k>> = <<j, l>>
    BY <1>1, <1>7, <2>1 DEF IsInjective
  <2> QED
    BY <2>2
<1>8. Range(pieces) = UNION {Range(LinesOf(c, list, i)) : i \in 1 .. 4}
  <2>1. ASSUME NEW at \in DOMAIN pieces PROVE \E i \in 1 .. 4 : pieces[at] \in Range(LinesOf(c, list, i))
    <3>1. PICK i \in 1 .. 4 : \E k \in DOMAIN parts[i] : at = <<i, k>>
      BY <1>3, <1>5
    <3>2. PICK k \in DOMAIN parts[i] : at = <<i, k>>
      BY <3>1
    <3>3. pieces[at] = LinesOf(c, list, i)[k] /\ k \in DOMAIN LinesOf(c, list, i)
      BY <1>3, <1>4, <1>5, <3>2
    <3> QED
      BY <3>3 DEF Range
  <2>2. ASSUME NEW i \in 1 .. 4, NEW k \in DOMAIN LinesOf(c, list, i)
        PROVE  LinesOf(c, list, i)[k] \in Range(pieces)
    <3>1. <<i, k>> \in DOMAIN pieces /\ pieces[<<i, k>>] = LinesOf(c, list, i)[k]
      BY <1>3, <1>4, <1>5
    <3> QED
      BY <3>1 DEF Range
  <2>3. Range(pieces) \subseteq UNION {Range(LinesOf(c, list, i)) : i \in 1 .. 4}
    BY <2>1 DEF Range
  <2>4. UNION {Range(LinesOf(c, list, i)) : i \in 1 .. 4} \subseteq Range(pieces)
    <3> SUFFICES ASSUME NEW i \in 1 .. 4, NEW x \in Range(LinesOf(c, list, i))
                 PROVE  x \in Range(pieces)
      OBVIOUS
    <3>1. PICK k \in DOMAIN LinesOf(c, list, i) : x = LinesOf(c, list, i)[k]
      BY DEF Range
    <3> QED
      BY <2>2, <3>1
  <2> QED
    BY <2>3, <2>4
<1>9. q.lines = Range(pieces) /\ q.total = Total(Range(pieces))
  BY <1>1
<1>10. QuoteSound(c, list, q)
  BY <1>1, <1>6, <1>7, <1>8, <1>9 DEF QuoteSound
<1> QED
  BY <1>10 DEF q

\* The lines of a quote, SKU by SKU.
LEMMA LinesAreSound ==
  ASSUME NEW c \in Configs, NEW list \in Catalogues, NEW q, QuoteSound(c, list, q), NEW i \in 1 .. 4
  PROVE  LET w == Wanted(c, list, i)
             lines == LinesOf(c, list, i)
             t == Normalized(w.price)
         IN \E n, free, m :
              /\ TiersOf(w.price, t, free) /\ Sliced(w.price, w.usage, lines, t, n, m)
              /\ \A k \in 1 .. m :
                   /\ LineSound(lines[k], t[k], IF k < m THEN t[k + 1].start ELSE w.usage)
                   /\ lines[k].sku = w.price.sku /\ lines[k].safe = w.price.safe
<1> DEFINE w == Wanted(c, list, i)
           lines == LinesOf(c, list, i)
           t == Normalized(w.price)
<1>1. /\ w.price \in Range(list) /\ w.usage \in Rational /\ lines # Invalid
      /\ \A k \in DOMAIN lines : lines[k].subtotal # Invalid
      /\ lines = PricingLines(w.price, w.usage)
  BY DEF QuoteSound, LinesOf
<1>2. PICK n, free, m : TiersOf(w.price, t, free) /\ Sliced(w.price, w.usage, lines, t, n, m)
  <2> HIDE DEF w, lines
  <2> QED
    BY <1>1, LinesAre
<1> HIDE DEF w, lines, t
<1>3. DOMAIN lines = 1 .. m
  BY <1>2 DEF Sliced
<1>4. \A k \in 1 .. m :
        /\ LineSound(lines[k], t[k], IF k < m THEN t[k + 1].start ELSE w.usage)
        /\ lines[k].sku = w.price.sku /\ lines[k].safe = w.price.safe
  BY <1>1, <1>2, <1>3, LineIs
<1> QED
  BY <1>2, <1>4 DEF w, lines, t

\* A list has at most as many lines as it is long.
LEMMA LinesAreCounted ==
  ASSUME NEW lines, NEW m \in Nat, DOMAIN lines = 1 .. m
  PROVE  /\ IsFiniteSet(Range(lines)) /\ Cardinality(Range(lines)) \in Nat
         /\ Cardinality(Range(lines)) <= m
<1> DEFINE f == [i \in 1 .. m |-> lines[i]]
<1>1. IsFiniteSet(1 .. m) /\ Cardinality(1 .. m) = m
  <2>1. IsFiniteSet(1 .. m) /\ Cardinality(1 .. m) = IF 1 > m THEN 0 ELSE m - 1 + 1
    BY FS_Interval
  <2> QED
    BY <2>1
<1>2. f \in Surjection(1 .. m, Range(lines))
  BY DEF Surjection, Range
<1> HIDE DEF f
<1>3. IsFiniteSet(Range(lines)) /\ Cardinality(Range(lines)) <= m
  BY <1>1, <1>2, FS_Surjection
<1> QED
  BY <1>3, FS_CardinalityType

\* The lines of a quote and its total fit the width and are what Validate recomputes.
LEMMA QuoteIsSound ==
  ASSUME NEW c \in Configs, NEW list \in Catalogues, NEW q, QuoteSound(c, list, q)
  PROVE  /\ IsFiniteSet(q.lines) /\ q.total \in Word /\ q.total = Total(q.lines)
         /\ \A line \in q.lines :
              /\ line.start \in Word /\ line.nanos \in Word /\ line.subtotal \in Word
              /\ IsReduced(line.usage) /\ line.subtotal = Subtotal(line.nanos, line.usage)
<1>1. ASSUME NEW i \in 1 .. 4
      PROVE  /\ IsFiniteSet(Range(LinesOf(c, list, i)))
             /\ \A line \in Range(LinesOf(c, list, i)) :
                  /\ line.start \in Word /\ line.nanos \in Word /\ line.subtotal \in Word
                  /\ IsReduced(line.usage) /\ line.subtotal = Subtotal(line.nanos, line.usage)
  <2> DEFINE w == Wanted(c, list, i)
             lines == LinesOf(c, list, i)
             t == Normalized(w.price)
  <2>1. PICK n, free, m :
          /\ Sliced(w.price, w.usage, lines, t, n, m)
          /\ \A k \in 1 .. m : LineSound(lines[k], t[k], IF k < m THEN t[k + 1].start ELSE w.usage)
    BY LinesAreSound
  <2> HIDE DEF w, lines, t
  <2>2. m \in Nat /\ DOMAIN lines = 1 .. m
    BY <2>1 DEF Sliced, Tiered
  <2>3. IsFiniteSet(Range(lines))
    BY <2>2, LinesAreCounted
  <2>4. \A k \in 1 .. m :
          /\ lines[k].start \in Word /\ lines[k].nanos \in Word /\ lines[k].subtotal \in Word
          /\ IsReduced(lines[k].usage)
          /\ lines[k].subtotal = Subtotal(lines[k].nanos, lines[k].usage)
    BY <2>1 DEF LineSound
  <2> QED
    BY <2>2, <2>3, <2>4 DEF Range, lines
<1>2. q.lines = Range(LinesOf(c, list, 1)) \cup Range(LinesOf(c, list, 2))
                  \cup Range(LinesOf(c, list, 3)) \cup Range(LinesOf(c, list, 4))
  <2>1. 1 .. 4 = {1, 2, 3, 4}
    OBVIOUS
  <2> QED
    BY <2>1 DEF QuoteSound
<1>3. IsFiniteSet(q.lines)
  <2> DEFINE L(i) == Range(LinesOf(c, list, i))
  <2>1. IsFiniteSet(L(1)) /\ IsFiniteSet(L(2)) /\ IsFiniteSet(L(3)) /\ IsFiniteSet(L(4))
    BY <1>1
  <2> HIDE DEF L
  <2>2. IsFiniteSet(L(1) \cup L(2))
    BY <2>1, FS_Union
  <2>3. IsFiniteSet(L(1) \cup L(2) \cup L(3))
    BY <2>1, <2>2, FS_Union
  <2>4. IsFiniteSet(L(1) \cup L(2) \cup L(3) \cup L(4))
    BY <2>1, <2>3, FS_Union
  <2> QED
    BY <1>2, <2>4 DEF L
<1>4. \A line \in q.lines :
        /\ line.start \in Word /\ line.nanos \in Word /\ line.subtotal \in Word
        /\ IsReduced(line.usage) /\ line.subtotal = Subtotal(line.nanos, line.usage)
  BY <1>1 DEF QuoteSound
<1>5. q.total \in Nat /\ q.total = Total(q.lines)
  <2> DEFINE f == [line \in q.lines |-> line.subtotal]
  <2>1. f \in [q.lines -> Nat]
    BY <1>4, PowersArePositive, PricingAssumption DEF Word
  <2>2. SumOf(f) \in Nat
    <3> HIDE DEF f
    <3> QED
      BY <1>3, <2>1, SumIsNat
  <2> QED
    BY <2>2 DEF QuoteSound, Total
<1>6. q.total \in Word
  BY <1>5, CheckedIs DEF QuoteSound
<1> QED
  BY <1>3, <1>4, <1>5, <1>6

-------------------------------------------------------------------------------
(* The specification.                                                       *)

(* The inductive invariant: a quote is the one that its configuration and   *)
(* price list give, and a verdict is the one its validation gives.          *)
Inputs == config \in Configs /\ prices \in Catalogues
QuoteOfInputs ==
  /\ stage = "asked" => quote = Invalid
  /\ stage # "asked" => quote = Quote(config, prices)
  /\ (quote = Invalid) = (stage \in {"asked", "refused"})
VerdictOfQuote ==
  /\ stage = "planned" => Validate(quote, config.maximum)
  /\ stage = "rejected" => ~Validate(quote, config.maximum)
Inv ==
  /\ Inputs
  /\ stage \in {"asked", "quoted", "refused", "planned", "rejected"}
  /\ QuoteOfInputs
  /\ VerdictOfQuote

\* The invariant holds at first.
LEMMA InvInit == Init => Inv
BY DEF Init, Inv, Inputs, QuoteOfInputs, VerdictOfQuote

\* Every step keeps the invariant.
LEMMA InvNext == Inv /\ [Next]_vars => Inv'
<1> SUFFICES ASSUME Inv, [Next]_vars PROVE Inv'
  OBVIOUS
<1> USE DEF Inv, Inputs, QuoteOfInputs, VerdictOfQuote
<1>1. CASE Estimate
  <2>1. CASE Quote(config, prices) = Invalid
    BY <1>1, <2>1 DEF Estimate
  <2>2. CASE Quote(config, prices) # Invalid
    BY <1>1, <2>2 DEF Estimate
  <2> QED
    BY <2>1, <2>2
<1>2. CASE CheckBudget
  <2>1. CASE Validate(quote, config.maximum)
    BY <1>2, <2>1 DEF CheckBudget
  <2>2. CASE ~Validate(quote, config.maximum)
    BY <1>2, <2>2 DEF CheckBudget
  <2> QED
    BY <2>1, <2>2
<1>3. CASE UNCHANGED vars
  BY <1>3 DEF vars
<1> QED
  BY <1>1, <1>2, <1>3 DEF Next

(* The invariant: the configuration and the price list are the ones the     *)
(* estimate started from, the quote is what quote() computes from them, and *)
(* the verdict is what the plan's validation says of it.                    *)
THEOREM InvariantHolds == Spec => []Inv
BY InvInit, InvNext, PTL DEF Spec

\* A quote that was made is a sound one.
LEMMA QuotedIsSound == Inv /\ quote # Invalid => QuoteSound(config, prices, quote)
<1> SUFFICES ASSUME Inv, quote # Invalid PROVE QuoteSound(config, prices, quote)
  OBVIOUS
<1>1. config \in Configs /\ prices \in Catalogues /\ quote = Quote(config, prices)
  BY DEF Inv, Inputs, QuoteOfInputs
<1> QED
  BY <1>1, QuoteIs

(* Every quote that pricing returns holds positive reduced usages, prices,  *)
(* boundaries and subtotals that fit an integer of WIDTH bits, and so does  *)
(* its total: TypeOK holds in every state, for every catalogue.             *)
THEOREM TypeCorrect == Spec => []TypeOK
<1>1. Inv => TypeOK
  <2> SUFFICES ASSUME Inv PROVE TypeOK
    OBVIOUS
  <2>1. /\ stage \in {"asked", "quoted", "refused", "planned", "rejected"}
        /\ (quote = Invalid) = (stage \in {"asked", "refused"})
    BY DEF Inv, QuoteOfInputs
  <2>2. ASSUME quote # Invalid
        PROVE  /\ quote.total \in 0 .. Pow2[WIDTH] - 1
               /\ \A line \in quote.lines :
                    /\ {line.start, line.nanos, line.subtotal} \subseteq 0 .. Pow2[WIDTH] - 1
                    /\ IsReduced(line.usage)
    <3>1. config \in Configs /\ prices \in Catalogues
      BY DEF Inv, Inputs
    <3> QED
      BY <2>2, <3>1, QuotedIsSound, QuoteIsSound DEF Word
  <2> QED
    BY <2>1, <2>2 DEF TypeOK
<1> QED
  BY <1>1, InvariantHolds, PTL

\* Four different values are at four different places.
LEMMA FourApart ==
  ASSUME NEW s, DOMAIN s = 1 .. 4, ~(Cardinality(Range(s)) < 4)
  PROVE  \A i, j \in 1 .. 4 : s[i] = s[j] => i = j
<1> DEFINE f == [i \in 1 .. 4 |-> s[i]]
<1>1. IsFiniteSet(1 .. 4) /\ Cardinality(1 .. 4) = 4
  <2>1. 1 \in Int /\ 4 \in Int
    OBVIOUS
  <2>2. IsFiniteSet(1 .. 4) /\ Cardinality(1 .. 4) = IF 1 > 4 THEN 0 ELSE 4 - 1 + 1
    BY <2>1, FS_Interval
  <2> QED
    BY <2>2
<1>2. f \in Surjection(1 .. 4, Range(s))
  BY DEF Surjection, Range
<1>3. /\ Cardinality(Range(s)) <= 4 /\ IsFiniteSet(Range(s))
      /\ Cardinality(Range(s)) = 4 => f \in Injection(1 .. 4, Range(s))
  <2> HIDE DEF f
  <2> QED
    BY <1>1, <1>2, FS_Surjection
<1>4. Cardinality(Range(s)) = 4
  BY <1>3, FS_CardinalityType
<1>5. f \in Injection(1 .. 4, Range(s))
  BY <1>3, <1>4
<1> QED
  BY <1>5 DEF Injection, IsInjective

\* Four different SKUs have four different names.
LEMMA SkusAre ==
  ASSUME NEW c \in Configs, NEW list \in Catalogues,
         ~(Cardinality({w.price.sku : w \in Range(Quantities(c, list))}) < 4)
  PROVE  \A i, j \in 1 .. 4 :
           Wanted(c, list, i).price.sku = Wanted(c, list, j).price.sku => i = j
<1> DEFINE q == Quantities(c, list)
           s == [i \in 1 .. 4 |-> q[i].price.sku]
<1>1. DOMAIN q = 1 .. 4
  BY QuantitiesAre
<1> HIDE DEF q
<1>2. {w.price.sku : w \in Range(q)} = Range(s)
  BY <1>1 DEF Range
<1>3. DOMAIN s = 1 .. 4
  OBVIOUS
<1>4. ~(Cardinality(Range(s)) < 4)
  <2> HIDE DEF s
  <2> QED
    BY <1>2 DEF q
<1>5. \A i, j \in 1 .. 4 : s[i] = s[j] => i = j
  <2> HIDE DEF s
  <2> QED
    BY <1>3, <1>4, FourApart
<1> QED
  BY <1>5 DEF Wanted, q

\* A sound quote within the budget, not free, of four different SKUs with good names is valid.
LEMMA QuoteIsValid ==
  ASSUME NEW c \in Configs, NEW list \in Catalogues, NEW q, QuoteSound(c, list, q),
         q.total <= c.maximum, q.total # 0,
         \A w \in Range(Quantities(c, list)) : w.price.safe,
         ~(Cardinality({w.price.sku : w \in Range(Quantities(c, list))}) < 4)
  PROVE  Validate(q, c.maximum)
<1> DEFINE w(i) == Wanted(c, list, i)
           lines(i) == LinesOf(c, list, i)
           t(i) == Normalized(w(i).price)
<1>1. \A i \in 1 .. 4 : w(i) \in Range(Quantities(c, list))
  BY QuantitiesAre DEF Wanted, Range
<1>2. ASSUME NEW i \in 1 .. 4
      PROVE  \A k \in DOMAIN lines(i) :
               /\ lines(i)[k].sku = w(i).price.sku /\ lines(i)[k].safe = w(i).price.safe
               /\ \A l \in DOMAIN lines(i) : lines(i)[k].start = lines(i)[l].start => k = l
  <2>1. PICK n, m :
          /\ Sliced(w(i).price, w(i).usage, lines(i), t(i), n, m)
          /\ \A k \in 1 .. m :
               /\ LineSound(lines(i)[k], t(i)[k], IF k < m THEN t(i)[k + 1].start ELSE w(i).usage)
               /\ lines(i)[k].sku = w(i).price.sku /\ lines(i)[k].safe = w(i).price.safe
    BY LinesAreSound
  <2> HIDE DEF w, lines, t
  <2>2. /\ DOMAIN lines(i) = 1 .. m /\ m \in 1 .. n /\ n \in Nat
        /\ \A k \in 1 .. n : t(i)[k].base \in Nat
        /\ \A k, l \in 1 .. n : k < l => t(i)[k].base < t(i)[l].base
    BY <2>1, PowersArePositive, PricingAssumption DEF Sliced, Tiered, Word
  <2>3. \A k \in 1 .. m : lines(i)[k].start = t(i)[k].base
    BY <2>1 DEF LineSound
  <2>4. ASSUME NEW k \in 1 .. m, NEW l \in 1 .. m, lines(i)[k].start = lines(i)[l].start
        PROVE  k = l
    <3>1. k \in 1 .. n /\ l \in 1 .. n /\ t(i)[k].base = t(i)[l].base
      BY <2>2, <2>3, <2>4
    <3>2. ~(k < l) /\ ~(l < k)
      BY <2>2, <3>1
    <3> QED
      BY <2>2, <3>1, <3>2
  <2> QED
    BY <2>1, <2>2, <2>4
<1>3. \A line \in q.lines : \E i \in 1 .. 4 : \E k \in DOMAIN lines(i) : line = lines(i)[k]
  BY DEF QuoteSound, Range
<1>4. /\ q.total = Total(q.lines)
      /\ \A line \in q.lines : line.subtotal = Subtotal(line.nanos, line.usage)
  BY QuoteIsSound
<1>5. \A i, j \in 1 .. 4 : w(i).price.sku = w(j).price.sku => i = j
  BY SkusAre
<1> HIDE DEF w, lines, t
<1>6. q.lines # {}
  <2> SUFFICES ASSUME q.lines = {} PROVE FALSE
    OBVIOUS
  <2> DEFINE f == [line \in {} |-> line.subtotal]
  <2>1. f \in [{} -> Int]
    OBVIOUS
  <2>2. SumOf(f) = 0
    <3> HIDE DEF f
    <3> QED
      BY <2>1, SumOfNothing
  <2> QED
    BY <1>4, <2>2 DEF Total
<1>7. \A line \in q.lines : line.safe
  BY <1>1, <1>2, <1>3
<1>8. ASSUME NEW a \in q.lines, NEW b \in q.lines, a.sku = b.sku, a.start = b.start PROVE a = b
  <2>1. PICK i \in 1 .. 4 : \E k \in DOMAIN lines(i) : a = lines(i)[k]
    BY <1>3
  <2>2. PICK k \in DOMAIN lines(i) : a = lines(i)[k]
    BY <2>1
  <2>3. PICK j \in 1 .. 4 : \E l \in DOMAIN lines(j) : b = lines(j)[l]
    BY <1>3
  <2>4. PICK l \in DOMAIN lines(j) : b = lines(j)[l]
    BY <2>3
  <2>5. i = j
    BY <1>2, <1>5, <1>8, <2>2, <2>4
  <2>6. k = l
    BY <1>2, <1>8, <2>2, <2>4, <2>5
  <2> QED
    BY <2>2, <2>4, <2>5, <2>6
<1> QED
  BY <1>4, <1>6, <1>7, <1>8 DEF Validate

(* A plan validates every quote the estimate returned, unless it is over    *)
(* the budget, free, of a SKU with a malformed name, or of one SKU found    *)
(* twice: AcceptedByPlan holds in every state.                              *)
THEOREM PlanAccepts == Spec => []AcceptedByPlan
<1>1. Inv => AcceptedByPlan
  <2> SUFFICES ASSUME Inv, stage = "rejected", ~(quote.total > config.maximum), quote.total # 0,
                      \A w \in Selected : w.price.safe,
                      ~(Cardinality({w.price.sku : w \in Selected}) < 4)
               PROVE  FALSE
    BY DEF AcceptedByPlan
  <2>1. config \in Configs /\ prices \in Catalogues /\ quote # Invalid
        /\ ~Validate(quote, config.maximum)
    BY DEF Inv, Inputs, QuoteOfInputs, VerdictOfQuote
  <2>2. QuoteSound(config, prices, quote)
    BY <2>1, QuotedIsSound
  <2>3. quote.total <= config.maximum
    BY <2>1, <2>2, QuoteIsSound, PowersArePositive, PricingAssumption, CatalogueAssumption DEF Word
  <2>4. ~(Cardinality({w.price.sku : w \in Selected}) < 4)
    OBVIOUS
  <2> QED
    BY <2>1, <2>2, <2>3, <2>4, QuoteIsValid DEF Selected
<1> QED
  BY <1>1, InvariantHolds, PTL

-------------------------------------------------------------------------------
(* Usage in grains.                                                         *)

(* Usage counted in grains: a boundary is at a whole number of them.         *)
Grains(q, grain) == (q.n * grain) \div q.d
OnGrain(q, grain) == q \in Rational /\ \E e \in Nat : grain = e * q.d

\* A boundary on the grain is exactly its number of grains.
LEMMA GrainsAre ==
  ASSUME NEW grain \in Nat, NEW q, OnGrain(q, grain)
  PROVE  Grains(q, grain) \in Nat /\ Grains(q, grain) * q.d = q.n * grain
<1>1. q.n \in Nat /\ q.d \in Nat /\ q.d > 0
  BY DEF OnGrain, Rational
<1>2. PICK e \in Nat : grain = e * q.d
  BY DEF OnGrain
<1>3. q.n * grain = q.d * (q.n * e) /\ q.n * e \in Nat
  BY <1>1, <1>2
<1> DEFINE p == q.n * grain
           k == q.n * e
<1>4. p = q.d * k /\ k \in Nat
  BY <1>3
<1> HIDE DEF p, k
<1>5. p \div q.d = k
  BY <1>1, <1>4
<1>6. k * q.d = p
  BY <1>1, <1>4
<1> QED
  BY <1>4, <1>5, <1>6 DEF Grains, p

\* Boundaries are ordered as their grains are.
LEMMA GrainsIncrease ==
  ASSUME NEW grain \in Nat, grain > 0, NEW a, NEW b, OnGrain(a, grain), OnGrain(b, grain)
  PROVE  Less(a, b) <=> Grains(a, grain) < Grains(b, grain)
<1> DEFINE x == Grains(a, grain)
           y == Grains(b, grain)
<1>1. /\ a.n \in Nat /\ b.n \in Nat /\ a.d \in Nat /\ b.d \in Nat /\ a.d > 0 /\ b.d > 0
  BY DEF OnGrain, Rational
<1>2. x \in Nat /\ y \in Nat /\ x * a.d = a.n * grain /\ y * b.d = b.n * grain
  BY GrainsAre
<1> HIDE DEF x, y
<1>3. (a.n * b.d) * grain = x * (a.d * b.d)
  <2>1. (a.n * b.d) * grain = (a.n * grain) * b.d
    BY <1>1
  <2>2. (x * a.d) * b.d = x * (a.d * b.d)
    BY <1>1, <1>2
  <2> QED
    BY <1>2, <2>1, <2>2
<1>4. (b.n * a.d) * grain = y * (a.d * b.d)
  <2>1. (b.n * a.d) * grain = (b.n * grain) * a.d
    BY <1>1
  <2>2. (y * b.d) * a.d = y * (a.d * b.d)
    BY <1>1, <1>2
  <2> QED
    BY <1>2, <2>1, <2>2
<1> DEFINE m == a.d * b.d
           u == a.n * b.d
           v == b.n * a.d
<1>5. m \in Nat /\ m > 0 /\ u \in Nat /\ v \in Nat
  BY <1>1
<1>6. u * grain = x * m /\ v * grain = y * m
  BY <1>3, <1>4
<1> HIDE DEF m, u, v
<1>7. u < v <=> u * grain < v * grain
  BY <1>5
<1>8. x < y <=> x * m < y * m
  BY <1>2, <1>5
<1>9. u < v <=> x < y
  BY <1>6, <1>7, <1>8
<1> QED
  BY <1>9 DEF Less, u, v, x, y

\* The length in grains of a slice.
LEMMA SliceIs ==
  ASSUME NEW grain \in Nat, grain > 0, NEW a, NEW b, OnGrain(a, grain), OnGrain(b, grain),
         Subtract(b, a) # Invalid
  PROVE  /\ Grains(a, grain) < Grains(b, grain)
         /\ (Grains(b, grain) - Grains(a, grain)) * Subtract(b, a).d = Subtract(b, a).n * grain
<1> DEFINE x == Grains(a, grain)
           y == Grains(b, grain)
           q == Subtract(b, a)
<1>1. /\ a.n \in Nat /\ b.n \in Nat /\ a.d \in Nat /\ b.d \in Nat /\ a.d > 0 /\ b.d > 0
      /\ a \in Rational /\ b \in Rational
  BY DEF OnGrain, Rational
<1>2. x \in Nat /\ y \in Nat /\ x * a.d = a.n * grain /\ y * b.d = b.n * grain
  BY GrainsAre
<1>3. q.n \in Nat /\ q.d \in Nat
      /\ (b.n * a.d - a.n * b.d) * q.d = q.n * (b.d * a.d)
  BY <1>1, SubtractIs DEF Rational
<1>4. x < y
  BY <1>1, GrainsIncrease DEF Subtract
<1> HIDE DEF x, y, q
<1> DEFINE m == b.d * a.d
<1>5. m \in Nat /\ m > 0
  BY <1>1
<1>6. (b.n * a.d - a.n * b.d) * grain = (y - x) * m
  <2>1. (b.n * a.d - a.n * b.d) * grain = (b.n * grain) * a.d - (a.n * grain) * b.d
    BY <1>1
  <2>2. (y * b.d) * a.d - (x * a.d) * b.d = (y - x) * m
    BY <1>1, <1>2
  <2> QED
    BY <1>2, <2>1, <2>2
<1> DEFINE z == b.n * a.d - a.n * b.d
<1>7. z \in Int /\ z * q.d = q.n * m /\ z * grain = (y - x) * m
  BY <1>1, <1>3, <1>6
<1> HIDE DEF z, m
<1>8. ((y - x) * q.d) * m = (q.n * grain) * m
  <2>1. ((y - x) * q.d) * m = ((y - x) * m) * q.d
    BY <1>2, <1>3, <1>5
  <2>2. (z * grain) * q.d = (z * q.d) * grain
    BY <1>3, <1>7
  <2>3. (q.n * m) * grain = (q.n * grain) * m
    BY <1>3, <1>5
  <2> QED
    BY <1>7, <2>1, <2>2, <2>3
<1>9. (y - x) * q.d = q.n * grain
  <2> DEFINE l == (y - x) * q.d
             r == q.n * grain
  <2>1. l \in Int /\ r \in Int /\ l * m = r * m
    BY <1>2, <1>3, <1>8
  <2> HIDE DEF l, r
  <2>2. l = r
    BY <1>5, <2>1
  <2> QED
    BY <2>2 DEF l, r
<1> QED
  BY <1>4, <1>9 DEF x, y, q

\* What a slice is billed, against its nanos grain by grain.
LEMMA SliceIsBilled ==
  ASSUME NEW grain \in Nat, grain > 0, NEW a, NEW b, OnGrain(a, grain), OnGrain(b, grain),
         NEW nanos \in Nat, NEW q \in Rational, q = Subtract(b, a), q # Invalid,
         Subtotal(nanos, q) # Invalid
  PROVE  LET sub == Subtotal(nanos, q)
             exact == nanos * (Grains(b, grain) - Grains(a, grain))
             scale == MICRO * grain
         IN sub * scale >= exact /\ sub * scale < exact + scale
<1> DEFINE len == Grains(b, grain) - Grains(a, grain)
           sub == Subtotal(nanos, q)
           exact == nanos * len
           scale == MICRO * grain
<1>1. len \in Nat /\ len * q.d = q.n * grain
  BY SliceIs, GrainsAre
<1>2. /\ q.n \in Nat /\ q.d \in Nat /\ q.d > 0
      /\ sub \in Nat /\ nanos * q.n <= sub * (MICRO * q.d)
      /\ sub * (MICRO * q.d) < nanos * q.n + MICRO * q.d
  BY SubtotalIs, PowersArePositive, PricingAssumption DEF Rational, Word
<1>3. MICRO \in Nat /\ MICRO > 0
  BY PricingAssumption
<1> HIDE DEF len, sub
<1>4. (nanos * q.n) * grain = exact * q.d
  <2>1. (nanos * q.n) * grain = nanos * (q.n * grain)
    BY <1>2
  <2>2. nanos * (len * q.d) = exact * q.d
    BY <1>1, <1>2
  <2> QED
    BY <1>1, <2>1, <2>2
<1>5. (sub * (MICRO * q.d)) * grain = (sub * scale) * q.d
  BY <1>2, <1>3
<1>6. (MICRO * q.d) * grain = scale * q.d
  BY <1>2, <1>3
<1> DEFINE A == nanos * q.n
           B == sub * (MICRO * q.d)
           C == MICRO * q.d
           D == sub * scale
<1>7. A \in Nat /\ B \in Nat /\ C \in Nat /\ D \in Nat /\ exact \in Nat /\ scale \in Nat
  BY <1>1, <1>2, <1>3
<1>8. A <= B /\ B < A + C /\ A * grain = exact * q.d /\ B * grain = D * q.d /\ C * grain = scale * q.d
  BY <1>2, <1>4, <1>5, <1>6
<1> HIDE DEF A, B, C, D, exact, scale
<1>9. A * grain <= B * grain /\ B * grain < A * grain + C * grain
  BY <1>7, <1>8
<1>10. exact * q.d <= D * q.d /\ D * q.d < (exact + scale) * q.d
  <2>1. (exact + scale) * q.d = exact * q.d + scale * q.d
    BY <1>2, <1>7
  <2> QED
    BY <1>8, <1>9, <2>1
<1>11. exact <= D
  BY <1>2, <1>7, <1>10
<1>12. D < exact + scale
  BY <1>2, <1>7, <1>10
<1> QED
  BY <1>7, <1>11, <1>12 DEF D, exact, len, sub, scale

\* Powers of two multiply by adding their exponents.
LEMMA PowersMultiply == \A a, k \in Nat : Pow2[a + k] = Pow2[k] * Pow2[a]
<1> SUFFICES ASSUME NEW a \in Nat PROVE \A k \in Nat : Pow2[a + k] = Pow2[k] * Pow2[a]
  OBVIOUS
<1> DEFINE N == {k \in Nat : Pow2[a + k] = Pow2[k] * Pow2[a]}
<1>1. 0 \in N
  BY Powers
<1>2. \A k \in Nat : k \in N => k + 1 \in N
  <2> SUFFICES ASSUME NEW k \in Nat, k \in N PROVE Pow2[a + (k + 1)] = Pow2[k + 1] * Pow2[a]
    OBVIOUS
  <2>1. a + k \in Nat /\ a + (k + 1) = (a + k) + 1
    OBVIOUS
  <2>2. Pow2[(a + k) + 1] = 2 * Pow2[a + k] /\ Pow2[k + 1] = 2 * Pow2[k]
    BY <2>1, Powers
  <2>3. Pow2[a + k] = Pow2[k] * Pow2[a] /\ Pow2[k] \in Nat /\ Pow2[a] \in Nat
    BY Powers
  <2>4. 2 * (Pow2[k] * Pow2[a]) = (2 * Pow2[k]) * Pow2[a]
    BY <2>3
  <2> QED
    BY <2>1, <2>2, <2>3, <2>4
<1>3. \A k \in Nat : k \in N
  <2> HIDE DEF N
  <2> QED
    BY <1>1, <1>2, Induction
<1> QED
  BY <1>3

\* Every tier of the SKU starts at a whole number of grains.
FitsGrain(price, grain) ==
  \A i \in 1 .. Len(price.tiers) :
    /\ price.tiers[i].start.num < Pow2[WIDTH]
    /\ \E e \in Nat : grain = e * Pow2[price.tiers[i].start.shift]

\* The boundaries of the normalized tiers are on the grain too.
LEMMA TierIsOnGrain ==
  ASSUME NEW list \in Catalogues, NEW price \in Range(list), NEW t, NEW n, NEW free,
         Tiered(t, n), TiersOf(price, t, free),
         NEW grain \in Nat, FitsGrain(price, grain), NEW j \in 1 .. n
  PROVE  OnGrain(t[j].start, grain)
<1>1. t[j].start \in Rational /\ n \in Nat /\ n = Len(price.tiers) + free /\ free \in {0, 1}
      /\ Len(price.tiers) \in Nat
  BY PriceIs DEF Tiered, TiersOf
<1>2. CASE free = 1 /\ j = 1
  <2>1. t[j].start.d = 1
    BY <1>2 DEF TiersOf, Zero
  <2>2. grain = grain * t[j].start.d
    BY <2>1
  <2> QED
    BY <1>1, <2>2 DEF OnGrain
<1>3. CASE ~(free = 1 /\ j = 1)
  <2> DEFINE i == j - free
  <2>1. i \in 1 .. Len(price.tiers) /\ i + free = j
    BY <1>1, <1>3
  <2> HIDE DEF i
  <2>2. /\ ExactNonnegative(price.tiers[i].start) # Invalid
        /\ t[j].start = ExactNonnegative(price.tiers[i].start)
    BY <2>1 DEF TiersOf
  <2>3. IsFloat(price.tiers[i].start)
    BY <2>1, PriceIs DEF IsTier
  <2>4. t[j].start.d = Pow2[price.tiers[i].start.shift]
    BY <2>2, <2>3, ExactIs
  <2> QED
    BY <1>1, <2>1, <2>4 DEF OnGrain, FitsGrain
<1> QED
  BY <1>2, <1>3

\* A tier of the SKU has begun at grain g when its boundary is at or before it.
LEMMA BegunIs ==
  ASSUME NEW list \in Catalogues, NEW price \in Range(list), NEW t, NEW n, NEW free,
         Tiered(t, n), TiersOf(price, t, free),
         NEW grain \in Nat, FitsGrain(price, grain), NEW i \in 1 .. Len(price.tiers), NEW g \in Nat
  PROVE  price.tiers[i].start.num * grain <= g * Pow2[price.tiers[i].start.shift]
           <=> Grains(t[i + free].start, grain) <= g
<1> DEFINE start == price.tiers[i].start
           x == Grains(t[i + free].start, grain)
           p == Pow2[start.shift]
<1>1. ExactNonnegative(start) # Invalid /\ t[i + free].start = ExactNonnegative(start)
  BY DEF TiersOf
<1>2. IsFloat(start) /\ i + free \in 1 .. n
  <2>1. IsTier(price.tiers[i]) /\ Len(price.tiers) \in Nat
    BY PriceIs
  <2>2. n = Len(price.tiers) + free /\ free \in {0, 1}
    BY DEF TiersOf, Tiered
  <2> QED
    BY <2>1, <2>2 DEF IsTier
<1>3. OnGrain(t[i + free].start, grain)
  BY <1>2, TierIsOnGrain
<1>4. x \in Nat /\ x * t[i + free].start.d = t[i + free].start.n * grain
  BY <1>3, GrainsAre
<1>5. t[i + free].start.d = p /\ t[i + free].start.n = start.num /\ start.num \in Nat
      /\ start.shift \in Nat
  BY <1>1, <1>2, ExactIs DEF FitsGrain
<1>6. p \in Nat /\ p > 0
  BY <1>5, PowersArePositive
<1> HIDE DEF x, p
<1>7. start.num * grain = x * p
  BY <1>4, <1>5
<1>8. x * p <= g * p <=> x <= g
  BY <1>4, <1>6
<1> QED
  BY <1>7, <1>8 DEF x, p

\* Within a slice every grain has the rate of the slice's tier.
LEMMA RateIs ==
  ASSUME NEW list \in Catalogues, NEW price \in Range(list), NEW usage \in Rational, NEW lines,
         NEW t, NEW n, NEW m, NEW free,
         TiersOf(price, t, free), Sliced(price, usage, lines, t, n, m),
         NEW grain \in Nat, grain > 0, FitsGrain(price, grain), OnGrain(usage, grain),
         NEW k \in 1 .. m, NEW g \in Nat,
         Grains(t[k].start, grain) <= g,
         g < Grains(IF k < m THEN t[k + 1].start ELSE usage, grain)
  PROVE  RateAt(price, g, grain) = t[k].nanos
<1> DEFINE begun == {i \in DOMAIN price.tiers :
                       price.tiers[i].start.num * grain <= g * Pow2[price.tiers[i].start.shift]}
           last == k - free
           at(j) == Grains(t[j].start, grain)
<1>1. Tiered(t, n) /\ m \in 1 .. n /\ n \in Nat
  BY DEF Sliced, Tiered
<1>2. /\ free \in {0, 1} /\ n = Len(price.tiers) + free /\ Len(price.tiers) \in Nat
      /\ DOMAIN price.tiers = 1 .. Len(price.tiers)
      /\ \A i \in 1 .. Len(price.tiers) : IsTier(price.tiers[i])
  BY <1>1, PriceIs DEF TiersOf, Tiered
<1>3. \A j \in 1 .. n : OnGrain(t[j].start, grain) /\ at(j) \in Nat
  BY <1>1, TierIsOnGrain, GrainsAre
<1>4. \A i, j \in 1 .. n : i < j => at(i) < at(j)
  BY <1>1, <1>3, GrainsIncrease DEF Tiered
<1>5. ASSUME NEW j \in 1 .. n PROVE at(j) <= g <=> j <= k
  <2>1. CASE j <= k
    <3>1. at(j) <= at(k) /\ at(j) \in Nat /\ at(k) \in Nat
      BY <1>1, <1>3, <1>4, <2>1
    <3> HIDE DEF at
    <3> QED
      BY <2>1, <3>1 DEF at
  <2>2. CASE j > k /\ k < m
    <3>1. k + 1 \in 1 .. n /\ at(k + 1) <= at(j) /\ at(j) \in Nat /\ at(k + 1) \in Nat
      BY <1>1, <1>3, <1>4, <2>2
    <3>2. g < at(k + 1)
      BY <2>2
    <3> HIDE DEF at
    <3> QED
      BY <2>2, <3>1, <3>2
  <2>3. CASE j > k /\ k = m
    <3>1. ~Less(t[j].start, usage)
      BY <2>3 DEF Sliced
    <3>2. ~(at(j) < Grains(usage, grain)) /\ at(j) \in Nat /\ Grains(usage, grain) \in Nat
      BY <1>3, <3>1, GrainsIncrease, GrainsAre
    <3>3. g < Grains(usage, grain)
      BY <2>3
    <3> HIDE DEF at
    <3> QED
      BY <2>3, <3>2, <3>3
  <2> QED
    BY <1>1, <2>1, <2>2, <2>3
<1>6. \A i \in 1 .. Len(price.tiers) : i \in begun <=> i + free <= k
  <2> SUFFICES ASSUME NEW i \in 1 .. Len(price.tiers) PROVE i \in begun <=> i + free <= k
    OBVIOUS
  <2>1. i + free \in 1 .. n
    BY <1>2
  <2>2. i \in begun <=> at(i + free) <= g
    BY <1>1, <1>2, BegunIs
  <2> HIDE DEF begun, at
  <2> QED
    BY <1>5, <2>1, <2>2
<1>7. begun \subseteq 1 .. Len(price.tiers)
  BY <1>2
<1>8. RateAt(price, g, grain) =
        IF begun = {} THEN 0
        ELSE price.tiers[Max(begun)].units * NANOS + price.tiers[Max(begun)].nanos
  BY DEF RateAt
<1> HIDE DEF begun, at
<1>9. CASE last = 0
  <2>1. free = 1 /\ k = 1
    BY <1>1, <1>2, <1>9
  <2>2. begun = {}
    <3>1. \A i \in 1 .. Len(price.tiers) : ~(i + free <= k)
      BY <1>2, <2>1
    <3> QED
      BY <1>6, <1>7, <3>1
  <2> QED
    BY <1>8, <2>1, <2>2 DEF TiersOf
<1>10. CASE last # 0
  <2>1. last \in 1 .. Len(price.tiers) /\ last + free = k
    BY <1>1, <1>2, <1>10
  <2> HIDE DEF last
  <2>2. last \in begun /\ \A i \in begun : i <= last
    BY <1>1, <1>2, <1>6, <1>7, <2>1
  <2>3. begun \in SUBSET Int /\ IsFiniteSet(begun)
    <3>1. IsFiniteSet(1 .. Len(price.tiers))
      BY <1>2, FS_Interval
    <3>2. IsFiniteSet(begun)
      BY <1>7, <3>1, FS_Subset
    <3> QED
      BY <1>2, <1>7, <3>2
  <2>4. Max(begun) \in begun /\ \A i \in begun : i <= Max(begun)
    BY <2>2, <2>3, MaxIs
  <2>5. Max(begun) = last
    <3>1. last \in Int /\ Max(begun) \in Int
      BY <2>2, <2>3, <2>4
    <3>2. last <= Max(begun) /\ Max(begun) <= last
      BY <2>2, <2>4
    <3> QED
      BY <3>1, <3>2
  <2>6. TierPrice(price.tiers[last]) # Invalid /\ t[k].nanos = TierPrice(price.tiers[last])
    BY <2>1 DEF TiersOf
  <2>7. t[k].nanos = price.tiers[last].units * NANOS + price.tiers[last].nanos
    BY <1>2, <2>1, <2>6, TierPriceIs
  <2> QED
    BY <1>8, <2>2, <2>5, <2>7
<1> QED
  BY <1>9, <1>10

-------------------------------------------------------------------------------
(* Sums over stretches of grains.                                           *)

\* A sum over the image of an injective function.
LEMMA SumOfImage ==
  ASSUME NEW S, IsFiniteSet(S), NEW e, DOMAIN e = S, \A x, y \in S : e[x] = e[y] => x = y,
         IsFiniteSet(Range(e)), NEW f \in [Range(e) -> Int]
  PROVE  SumOf(f) = SumOf([x \in S |-> f[e[x]]])
<1> DEFINE g == [x \in S |-> f[e[x]]]
           image(T) == {e[x] : x \in T}
<1>1. PICK h : AddsUp(f, Range(e), h) /\ SumOf(f) = h[Range(e)]
  BY SumIs
<1>2. g \in [S -> Int] /\ \A x \in S : g[x] = f[e[x]]
  BY DEF Range
<1> HIDE DEF g
<1>3. PICK k : AddsUp(g, S, k) /\ SumOf(g) = k[S]
  BY <1>2, SumIs
<1> DEFINE P == {T \in SUBSET S : h[image(T)] = k[T]}
<1>4. {} \in P
  <2>1. image({}) = {}
    OBVIOUS
  <2> QED
    BY <1>1, <1>3, <2>1 DEF AddsUp
<1>5. ASSUME NEW T \in SUBSET S, T # {}, \A x \in T : T \ {x} \in P PROVE T \in P
  <2>1. PICK x \in T : TRUE
    BY <1>5
  <2>2. h[image(T \ {x})] = k[T \ {x}]
    BY <1>5
  <2>3. image(T) \ {e[x]} = image(T \ {x})
    OBVIOUS
  <2>4. image(T) \in SUBSET Range(e) /\ e[x] \in image(T)
    BY DEF Range
  <2> DEFINE I == image(T)
  <2>5. h[I] = f[e[x]] + h[I \ {e[x]}]
    <3>1. I \in SUBSET Range(e) /\ e[x] \in I
      BY <2>4
    <3> HIDE DEF I
    <3> QED
      BY <1>1, <3>1 DEF AddsUp
  <2>6. k[T] = g[x] + k[T \ {x}]
    BY <1>3 DEF AddsUp
  <2> HIDE DEF image
  <2> QED
    BY <1>2, <2>2, <2>3, <2>5, <2>6
<1>6. S \in P
  <2>1. \A T \in SUBSET S : T # {} /\ (\A x \in T : T \ {x} \in P) => T \in P
    BY <1>5
  <2> HIDE DEF P, image
  <2>2. \A T \in SUBSET S : T \in P
    BY <1>4, <2>1, FiniteInduction
  <2> QED
    BY <2>2
<1>7. image(S) = Range(e)
  BY DEF Range
<1> HIDE DEF image
<1> QED
  BY <1>1, <1>3, <1>6, <1>7 DEF g

\* A sum over a subset is one of its values and the sum over the rest.
LEMMA TakenOut ==
  ASSUME NEW f, NEW S, NEW h, AddsUp(f, S, h), NEW T \in SUBSET S, NEW x \in T
  PROVE  h[T] = f[x] + h[T \ {x}]
BY DEF AddsUp

\* A sum over four places.
LEMMA SumOfFour ==
  ASSUME NEW f \in [1 .. 4 -> Int] PROVE SumOf(f) = f[1] + f[2] + f[3] + f[4]
<1>1. 1 .. 4 = {1, 2, 3, 4} /\ IsFiniteSet(1 .. 4)
  <2>1. 1 \in Int /\ 4 \in Int
    OBVIOUS
  <2>2. IsFiniteSet(1 .. 4)
    BY <2>1, FS_Interval
  <2> QED
    BY <2>2
<1> DEFINE S == {1, 2, 3, 4}
<1>2. PICK h : AddsUp(f, S, h) /\ SumOf(f) = h[S]
  BY <1>1, SumIs
<1> HIDE DEF S
<1>3. h[{1, 2, 3, 4}] = f[1] + h[{2, 3, 4}]
  <2> DEFINE T == {1, 2, 3, 4}
  <2>1. T \ {1} = {2, 3, 4} /\ T \in SUBSET S /\ 1 \in T
    BY DEF S
  <2> HIDE DEF T
  <2>2. h[T] = f[1] + h[T \ {1}]
    BY <1>2, <2>1, TakenOut
  <2>3. h[T] = f[1] + h[{2, 3, 4}]
    BY <2>1, <2>2
  <2> QED
    BY <2>3 DEF T
<1>4. h[{2, 3, 4}] = f[2] + h[{3, 4}]
  <2> DEFINE T == {2, 3, 4}
  <2>1. T \ {2} = {3, 4} /\ T \in SUBSET S /\ 2 \in T
    BY DEF S
  <2> HIDE DEF T
  <2>2. h[T] = f[2] + h[T \ {2}]
    BY <1>2, <2>1, TakenOut
  <2>3. h[T] = f[2] + h[{3, 4}]
    BY <2>1, <2>2
  <2> QED
    BY <2>3 DEF T
<1>5. h[{3, 4}] = f[3] + h[{4}]
  <2> DEFINE T == {3, 4}
  <2>1. T \ {3} = {4} /\ T \in SUBSET S /\ 3 \in T
    BY DEF S
  <2> HIDE DEF T
  <2>2. h[T] = f[3] + h[T \ {3}]
    BY <1>2, <2>1, TakenOut
  <2>3. h[T] = f[3] + h[{4}]
    BY <2>1, <2>2
  <2> QED
    BY <2>3 DEF T
<1>6. h[{4}] = f[4] + h[{}]
  <2> DEFINE T == {4}
  <2>1. T \ {4} = {} /\ T \in SUBSET S /\ 4 \in T
    BY DEF S
  <2> HIDE DEF T
  <2>2. h[T] = f[4] + h[T \ {4}]
    BY <1>2, <2>1, TakenOut
  <2>3. h[T] = f[4] + h[{}]
    BY <2>1, <2>2
  <2> QED
    BY <2>3 DEF T
<1>7. f[1] \in Int /\ f[2] \in Int /\ f[3] \in Int /\ f[4] \in Int
  BY <1>1
<1>8. SumOf(f) = h[{1, 2, 3, 4}]
  BY <1>2 DEF S
<1>9. h[{}] = 0
  BY <1>2 DEF AddsUp
<1> QED
  BY <1>3, <1>4, <1>5, <1>6, <1>7, <1>8, <1>9

\* A stretch of equal values.
Flat(U, r, a, b, c) ==
  a \in 0 .. U /\ b \in a .. U /\ c \in Int /\ \A g \in a .. b - 1 : r[g] = c

\* The partial sum grows over a stretch by its length times its value.
LEMMA StretchIs ==
  ASSUME NEW U \in Nat, NEW S, S = 0 .. U - 1, NEW r, NEW h, AddsUp(r, S, h),
         NEW a, NEW b, NEW c, Flat(U, r, a, b, c)
  PROVE  h[0 .. b - 1] = h[0 .. a - 1] + c * (b - a)
<1> USE DEF Flat
<1> DEFINE N == {k \in Nat : a + k <= b => h[0 .. a + k - 1] = h[0 .. a - 1] + c * k}
<1>1. \A j \in 0 .. U : 0 .. j - 1 \in SUBSET (0 .. U - 1) /\ h[0 .. j - 1] \in Int
  BY DEF AddsUp
<1>2. 0 \in N
  <2>1. h[0 .. a - 1] \in Int /\ a + 0 - 1 = a - 1 /\ c * 0 = 0
    BY <1>1
  <2>2. h[0 .. a + 0 - 1] = h[0 .. a - 1] + c * 0
    BY <2>1
  <2> QED
    BY <2>2
<1>3. \A k \in Nat : k \in N => k + 1 \in N
  <2> SUFFICES ASSUME NEW k \in Nat, k \in N, a + (k + 1) <= b
               PROVE  h[0 .. a + (k + 1) - 1] = h[0 .. a - 1] + c * (k + 1)
    OBVIOUS
  <2> DEFINE x == a + k
             s == 0 .. x
  <2>1. /\ x \in a .. b - 1 /\ x \in Nat /\ x \in 0 .. U - 1
        /\ a + (k + 1) - 1 = x /\ a + k - 1 = x - 1
    OBVIOUS
  <2>2. h[0 .. x - 1] = h[0 .. a - 1] + c * k
    BY <2>1
  <2>3. r[x] = c
    BY <2>1
  <2> HIDE DEF x
  <2>4. s \in SUBSET (0 .. U - 1) /\ x \in s /\ s \ {x} = 0 .. x - 1
    BY <2>1
  <2> HIDE DEF s
  <2>5. h[s] = r[x] + h[0 .. x - 1]
    <3>1. s \in SUBSET S /\ x \in s
      BY <2>4
    <3>2. h[s] = r[x] + h[s \ {x}]
      BY <3>1 DEF AddsUp
    <3> QED
      BY <2>4, <3>2
  <2>6. h[0 .. a - 1] \in Int /\ c * (k + 1) = c * k + c /\ c * k \in Int
    BY <1>1
  <2> QED
    BY <2>1, <2>2, <2>3, <2>5, <2>6 DEF s
<1>4. \A k \in Nat : k \in N
  <2> HIDE DEF N
  <2> QED
    BY <1>2, <1>3, Induction
<1>5. b - a \in N /\ b - a \in Nat
  <2>1. b - a \in Nat
    OBVIOUS
  <2> HIDE DEF N
  <2> QED
    BY <1>4, <2>1
<1>6. a + (b - a) <= b /\ a + (b - a) - 1 = b - 1
  OBVIOUS
<1> DEFINE m == b - a
<1>7. h[0 .. a + m - 1] = h[0 .. a - 1] + c * m
  <2> HIDE DEF m
  <2>1. m \in N /\ a + m <= b
    BY <1>5, <1>6 DEF m
  <2> QED
    BY <2>1
<1> QED
  BY <1>6, <1>7

(* Stretches of grains at a rate each, and an amount for each stretch that   *)
(* is at least its exact cost and less than that plus s.                     *)
Stretched(m, s, B, c, x, r) ==
  /\ B \in [0 .. m -> Nat] /\ B[0] = 0 /\ c \in [1 .. m -> Nat] /\ x \in [1 .. m -> Nat]
  /\ r \in [0 .. B[m] - 1 -> Int]
  /\ \A k \in 1 .. m :
       /\ B[k - 1] <= B[k] /\ B[k] <= B[m]
       /\ \A g \in B[k - 1] .. B[k] - 1 : r[g] = c[k]
       /\ x[k] * s >= c[k] * (B[k] - B[k - 1])
       /\ x[k] * s < c[k] * (B[k] - B[k - 1]) + s

\* Together the amounts cover the sum of the rates, and exceed it by less than m times s.
LEMMA StretchesAddUp ==
  ASSUME NEW m \in Nat, NEW s \in Nat, NEW B, NEW c, NEW x, NEW r, Stretched(m, s, B, c, x, r)
  PROVE  /\ SumOf(r) \in Int /\ SumOf(x) \in Int
         /\ SumOf(x) * s >= SumOf(r)
         /\ m > 0 => SumOf(x) * s < SumOf(r) + s * m
<1> DEFINE U == B[m]
<1>1. U \in Nat /\ r \in [0 .. U - 1 -> Int] /\ x \in [1 .. m -> Int]
  BY DEF Stretched
<1> HIDE DEF U
<1>2. IsFiniteSet(0 .. U - 1) /\ IsFiniteSet(1 .. m)
  <2>1. 0 \in Int /\ U - 1 \in Int /\ 1 \in Int /\ m \in Int
    BY <1>1
  <2> QED
    BY <2>1, FS_Interval
<1>3. PICK h : AddsUp(r, 0 .. U - 1, h) /\ SumOf(r) = h[0 .. U - 1]
  BY <1>1, <1>2, SumIs
<1>4. PICK y : AddsUp(x, 1 .. m, y) /\ SumOf(x) = y[1 .. m]
  BY <1>1, <1>2, SumIs
<1> DEFINE cost(k) == h[0 .. B[k] - 1]
           paid(k) == y[1 .. k]
           Close(k) == /\ paid(k) * s >= cost(k)
                       /\ paid(k) * s <= cost(k) + s * k
                       /\ k > 0 => paid(k) * s < cost(k) + s * k
           N == {k \in Nat : k <= m => Close(k)}
<1>5. \A k \in 0 .. m : cost(k) \in Int /\ paid(k) \in Int
  <2> SUFFICES ASSUME NEW k \in 0 .. m PROVE cost(k) \in Int /\ paid(k) \in Int
    OBVIOUS
  <2>1. B[k] \in 0 .. U
    <3>1. B[k] \in Nat /\ (k = 0 \/ k \in 1 .. m) /\ B[0] = 0
      <4>1. B \in [0 .. m -> Nat] /\ B[0] = 0
        BY DEF Stretched
      <4> QED
        BY <4>1
    <3> QED
      BY <1>1, <3>1 DEF Stretched, U
  <2>2. 0 .. B[k] - 1 \in SUBSET (0 .. U - 1) /\ 1 .. k \in SUBSET (1 .. m)
    BY <1>1, <2>1
  <2> QED
    BY <1>3, <1>4, <2>2 DEF AddsUp
<1>6. 0 \in N
  <2>1. 0 .. B[0] - 1 = {} /\ 1 .. 0 = {}
    BY DEF Stretched
  <2>2. cost(0) = 0 /\ paid(0) = 0
    BY <1>3, <1>4, <2>1 DEF AddsUp
  <2> HIDE DEF cost, paid
  <2> QED
    BY <2>2
<1>7. \A k \in Nat : k \in N => k + 1 \in N
  <2> SUFFICES ASSUME NEW k \in Nat, k \in N, k + 1 <= m PROVE Close(k + 1)
    OBVIOUS
  <2> DEFINE j == k + 1
             a == B[k]
             b == B[j]
  <2>1. Close(k) /\ j \in 1 .. m /\ j - 1 = k /\ k \in 0 .. m /\ j = k + 1
    OBVIOUS
  <2> HIDE DEF j
  <2>2. /\ a \in Nat /\ b \in Nat /\ c[j] \in Nat /\ x[j] \in Nat /\ a <= b /\ b <= U
        /\ \A g \in a .. b - 1 : r[g] = c[j]
        /\ x[j] * s >= c[j] * (b - a)
        /\ x[j] * s < c[j] * (b - a) + s
    <3>1. /\ B[j - 1] <= B[j] /\ B[j] <= B[m]
          /\ \A g \in B[j - 1] .. B[j] - 1 : r[g] = c[j]
          /\ x[j] * s >= c[j] * (B[j] - B[j - 1])
          /\ x[j] * s < c[j] * (B[j] - B[j - 1]) + s
      BY <2>1 DEF Stretched
    <3>2. a \in Nat /\ b \in Nat /\ c[j] \in Nat /\ x[j] \in Nat
      <4>1. B \in [0 .. m -> Nat] /\ c \in [1 .. m -> Nat] /\ x \in [1 .. m -> Nat]
        BY DEF Stretched
      <4>2. j \in 0 .. m
        BY <2>1
      <4> QED
        BY <2>1, <4>1, <4>2
    <3>3. B[j - 1] = a
      BY <2>1
    <3> QED
      BY <3>1, <3>2, <3>3 DEF U
  <2>3. paid(j) = x[j] + paid(k)
    <3> DEFINE T == 1 .. j
    <3>1. T \in SUBSET (1 .. m) /\ j \in T /\ T \ {j} = 1 .. k
      BY <2>1
    <3> HIDE DEF T
    <3>2. y[T] = x[j] + y[T \ {j}]
      BY <1>4, <3>1 DEF AddsUp
    <3> QED
      BY <3>1, <3>2 DEF T
  <2>4. cost(j) = cost(k) + c[j] * (b - a)
    <3>1. a \in 0 .. U /\ b \in a .. U /\ c[j] \in Int /\ \A g \in a .. b - 1 : r[g] = c[j]
      <4> HIDE DEF a, b
      <4> QED
        BY <1>1, <2>2
    <3> DEFINE v == c[j]
    <3>2. v \in Int /\ \A g \in a .. b - 1 : r[g] = v
      BY <3>1
    <3> HIDE DEF a, b, v
    <3>3. Flat(U, r, a, b, v)
      BY <3>1, <3>2 DEF Flat
    <3> DEFINE S == 0 .. U - 1
    <3>4. AddsUp(r, S, h) /\ S = 0 .. U - 1
      BY <1>3
    <3> HIDE DEF S
    <3>5. h[0 .. b - 1] = h[0 .. a - 1] + v * (b - a)
      BY <1>1, <3>3, <3>4, StretchIs
    <3> QED
      BY <3>5 DEF a, b, v
  <2>5. cost(k) \in Int /\ paid(k) \in Int
    BY <1>5, <2>1
  <2> DEFINE p == paid(k)
             q == cost(k)
             e == c[j] * (b - a)
             z == x[j] * s
  <2>6. e \in Int /\ z \in Int /\ z >= e /\ z < e + s
    <3> DEFINE u == c[j]
               v == x[j]
    <3>2. u \in Nat /\ v \in Nat /\ a \in Nat /\ b \in Nat
      BY <2>2
    <3> HIDE DEF a, b, u, v
    <3>3. u * (b - a) \in Int /\ v * s \in Int
      BY <3>2
    <3>1. c[j] * (b - a) \in Int /\ x[j] * s \in Int
      BY <3>3 DEF u, v
    <3> QED
      BY <2>2, <3>1
  <2>7. p * s >= q /\ p * s <= q + s * k /\ p \in Int /\ q \in Int
    BY <2>1, <2>5
  <2>8. paid(j) * s = p * s + z
    BY <2>2, <2>3, <2>7
  <2>9. cost(j) = q + e
    BY <2>4
  <2>10. s * j = s * k + s
    BY <2>1
  <2> HIDE DEF p, q, e, z, paid, cost
  <2>11. p * s \in Int /\ s * k \in Int
    BY <2>7
  <2>12. paid(j) * s >= cost(j) /\ paid(j) * s < cost(j) + s * j
    BY <2>6, <2>7, <2>8, <2>9, <2>10, <2>11
  <2>13. paid(j) * s \in Int /\ cost(j) \in Int /\ s * j \in Int
    BY <2>6, <2>7, <2>8, <2>9, <2>10, <2>11
  <2>14. paid(j) * s <= cost(j) + s * j
    BY <2>12, <2>13
  <2> QED
    BY <2>12, <2>14 DEF j
<1>8. Close(m)
  <2>1. m \in N
    <3> HIDE DEF N
    <3> QED
      BY <1>6, <1>7, Induction
  <2> QED
    BY <2>1
<1>9. cost(m) = SumOf(r) /\ paid(m) = SumOf(x)
  BY <1>3, <1>4 DEF U
<1>10. cost(m) \in Int /\ paid(m) \in Int
  BY <1>5
<1> HIDE DEF cost, paid
<1> QED
  BY <1>8, <1>9, <1>10

-------------------------------------------------------------------------------
(* What a SKU is billed.                                                    *)

\* The rate of a grain is a number.
LEMMA RateIsInt ==
  ASSUME NEW list \in Catalogues, NEW price \in Range(list), NEW g, NEW grain
  PROVE  RateAt(price, g, grain) \in Int
<1> DEFINE begun == {i \in DOMAIN price.tiers :
                       price.tiers[i].start.num * grain <= g * Pow2[price.tiers[i].start.shift]}
<1>1. /\ Len(price.tiers) \in Nat /\ DOMAIN price.tiers = 1 .. Len(price.tiers)
      /\ \A i \in 1 .. Len(price.tiers) : price.tiers[i].units \in Int /\ price.tiers[i].nanos \in Int
  BY PriceIs DEF IsTier
<1>2. begun \subseteq 1 .. Len(price.tiers)
  BY <1>1
<1>3. RateAt(price, g, grain) =
        IF begun = {} THEN 0
        ELSE price.tiers[Max(begun)].units * NANOS + price.tiers[Max(begun)].nanos
  BY DEF RateAt
<1> HIDE DEF begun
<1>4. CASE begun = {}
  BY <1>3, <1>4
<1>5. CASE begun # {}
  <2>1. IsFiniteSet(1 .. Len(price.tiers))
    <3>1. 1 \in Int /\ Len(price.tiers) \in Int
      BY <1>1
    <3> QED
      BY <3>1, FS_Interval
  <2>2. IsFiniteSet(begun) /\ begun \in SUBSET Int
    <3>1. IsFiniteSet(begun)
      BY <1>2, <2>1, FS_Subset
    <3> QED
      BY <1>2, <3>1
  <2>3. Max(begun) \in 1 .. Len(price.tiers)
    BY <1>2, <1>5, <2>2, MaxIs
  <2>4. NANOS \in Int
    BY PricingAssumption
  <2>5. price.tiers[Max(begun)].units \in Int /\ price.tiers[Max(begun)].nanos \in Int
    BY <1>1, <2>3
  <2> QED
    BY <1>3, <1>5, <2>4, <2>5
<1> QED
  BY <1>4, <1>5

\* What one SKU is billed, against its cost grain by grain.
CostOf(w, grain) ==
  SumOf([g \in 0 .. (w.usage.n * grain) \div w.usage.d - 1 |-> RateAt(w.price, g, grain)])

PartCovered(L, cost, scale) ==
  /\ IsFiniteSet(L) /\ Cardinality(L) \in Nat /\ L # {}
  /\ Total(L) \in Int /\ cost \in Int
  /\ Total(L) * scale >= cost
  /\ Total(L) * scale < cost + scale * Cardinality(L)

\* The lines of one SKU cover its cost and exceed it by less than a micro-unit each.
LEMMA BilledIs ==
  ASSUME NEW list \in Catalogues, NEW price \in Range(list), NEW usage \in Rational, NEW lines,
         NEW t, NEW n, NEW m, NEW free,
         TiersOf(price, t, free), Sliced(price, usage, lines, t, n, m),
         \A k \in 1 .. m : LineSound(lines[k], t[k], IF k < m THEN t[k + 1].start ELSE usage),
         \A k \in 1 .. m : lines[k].subtotal # Invalid,
         \A k, l \in 1 .. m : lines[k] = lines[l] => k = l,
         NEW grain \in Nat, grain > 0, FitsGrain(price, grain), OnGrain(usage, grain)
  PROVE  PartCovered(Range(lines), CostOf([price |-> price, usage |-> usage], grain), MICRO * grain)
<1> DEFINE L == Range(lines)
           s == MICRO * grain
           U == Grains(usage, grain)
           end(k) == IF k < m THEN t[k + 1].start ELSE usage
           B == [k \in 0 .. m |-> IF k < m THEN Grains(t[k + 1].start, grain) ELSE U]
           c == [k \in 1 .. m |-> t[k].nanos]
           x == [k \in 1 .. m |-> lines[k].subtotal]
           r == [g \in 0 .. U - 1 |-> RateAt(price, g, grain)]
           f == [line \in L |-> line.subtotal]
<1>1. /\ Tiered(t, n) /\ n \in Nat /\ m \in 1 .. n /\ m \in Nat /\ m > 0 /\ DOMAIN lines = 1 .. m
      /\ \A i \in 1 .. n : t[i].start \in Rational /\ t[i].nanos \in Word
      /\ \A i \in 1 .. m : Less(t[i].start, usage)
      /\ \A i, j \in 1 .. n : i < j => Less(t[i].start, t[j].start)
      /\ t[1].start.n = 0
  <2>1. /\ Tiered(t, n) /\ m \in 1 .. n /\ DOMAIN lines = 1 .. m
        /\ \A i \in 1 .. m : Less(t[i].start, usage)
    BY DEF Sliced
  <2>2. /\ n \in Nat /\ t[1].start.n = 0
        /\ \A i \in 1 .. n : t[i].start \in Rational /\ t[i].nanos \in Word
        /\ \A i, j \in 1 .. n : i < j => Less(t[i].start, t[j].start)
    BY <2>1 DEF Tiered
  <2>3. m \in Nat /\ m > 0
    BY <2>1, <2>2
  <2> QED
    BY <2>1, <2>2, <2>3
<1>2. s \in Nat /\ \A v \in Word : v \in Nat
  BY PricingAssumption, PowersArePositive DEF Word
<1>3. \A i \in 1 .. n : OnGrain(t[i].start, grain) /\ Grains(t[i].start, grain) \in Nat
  BY <1>1, TierIsOnGrain, GrainsAre
<1>4. U \in Nat /\ \A i \in 1 .. m : Grains(t[i].start, grain) < U
  BY <1>1, <1>3, GrainsIncrease, GrainsAre
<1>5. \A i, j \in 1 .. n : i < j => Grains(t[i].start, grain) < Grains(t[j].start, grain)
  BY <1>1, <1>3, GrainsIncrease
<1>6. \A k \in 1 .. m : /\ lines[k].subtotal \in Nat /\ t[k].nanos \in Nat
                        /\ lines[k].subtotal = Subtotal(t[k].nanos, lines[k].usage)
                        /\ lines[k].usage = Subtract(end(k), t[k].start)
                        /\ lines[k].usage # Invalid /\ lines[k].usage \in Rational
                        /\ lines[k].subtotal # Invalid
  <2> SUFFICES ASSUME NEW k \in 1 .. m
               PROVE  /\ lines[k].subtotal \in Nat /\ t[k].nanos \in Nat
                      /\ lines[k].subtotal = Subtotal(t[k].nanos, lines[k].usage)
                      /\ lines[k].usage = Subtract(end(k), t[k].start)
                      /\ lines[k].usage # Invalid /\ lines[k].usage \in Rational
                      /\ lines[k].subtotal # Invalid
    OBVIOUS
  <2>1. LineSound(lines[k], t[k], end(k))
    OBVIOUS
  <2> QED
    BY <1>1, <1>2, <2>1 DEF LineSound
<1>7. B[0] = 0 /\ B[m] = U /\ B \in [0 .. m -> Nat]
  <2>1. B[0] = Grains(t[1].start, grain)
    BY <1>1
  <2>2. Grains(t[1].start, grain) = 0
    <3>1. OnGrain(t[1].start, grain) /\ t[1].start \in Rational /\ t[1].start.n = 0
      BY <1>1, <1>3
    <3>2. Grains(t[1].start, grain) \in Nat
          /\ Grains(t[1].start, grain) * t[1].start.d = t[1].start.n * grain
      BY <3>1, GrainsAre
    <3>3. t[1].start.n * grain = 0 /\ t[1].start.d \in Nat /\ t[1].start.d > 0
      BY <3>1 DEF Rational
    <3> QED
      BY <3>2, <3>3
  <2>3. \A k \in 0 .. m : B[k] \in Nat
    <3> SUFFICES ASSUME NEW k \in 0 .. m PROVE B[k] \in Nat
      OBVIOUS
    <3>1. k < m => k + 1 \in 1 .. n
      BY <1>1
    <3> QED
      BY <1>3, <1>4, <3>1
  <2> QED
    BY <1>1, <2>1, <2>2, <2>3
<1>8. ASSUME NEW k \in 1 .. m
      PROVE  /\ k \in 1 .. n
             /\ B[k - 1] = Grains(t[k].start, grain) /\ B[k] = Grains(end(k), grain)
             /\ OnGrain(end(k), grain) /\ end(k) \in Rational
  <2>1. k \in 1 .. n /\ k - 1 \in 0 .. m /\ k - 1 < m /\ (k - 1) + 1 = k /\ k \in 0 .. m
    BY <1>1
  <2>2. B[k - 1] = Grains(t[k].start, grain)
    BY <2>1
  <2>3. CASE k < m
    <3>1. k + 1 \in 1 .. n
      BY <1>1, <2>3
    <3> QED
      BY <1>1, <1>3, <2>1, <2>2, <2>3, <3>1
  <2>4. CASE ~(k < m)
    BY <1>1, <2>1, <2>2, <2>4
  <2> QED
    BY <2>3, <2>4
<1>9. ASSUME NEW k \in 1 .. m
      PROVE  /\ B[k - 1] <= B[k] /\ B[k] <= B[m]
             /\ \A g \in B[k - 1] .. B[k] - 1 : r[g] = c[k]
             /\ x[k] * s >= c[k] * (B[k] - B[k - 1])
             /\ x[k] * s < c[k] * (B[k] - B[k - 1]) + s
  <2> DEFINE a == B[k - 1]
             b == B[k]
             e == end(k)
             q == lines[k].usage
  <2>1. /\ k \in 1 .. n /\ a = Grains(t[k].start, grain) /\ b = Grains(e, grain)
        /\ OnGrain(e, grain) /\ OnGrain(t[k].start, grain)
    BY <1>3, <1>8
  <2>2. /\ q = Subtract(e, t[k].start) /\ q # Invalid /\ q \in Rational
        /\ x[k] = Subtotal(c[k], q) /\ c[k] \in Nat /\ x[k] # Invalid /\ c[k] = t[k].nanos
    BY <1>6
  <2>3. a \in Nat /\ b \in Nat /\ b <= U /\ a < b
    <3>1. a \in Nat /\ b \in Nat
      BY <2>1, GrainsAre
    <3>2. b <= U
      <4>1. CASE k < m
        <5>1. k + 1 \in 1 .. m /\ b = Grains(t[k + 1].start, grain)
          BY <1>1, <2>1, <4>1
        <5> QED
          BY <1>4, <3>1, <5>1
      <4>2. CASE ~(k < m)
        BY <1>4, <2>1, <4>2
      <4> QED
        BY <4>1, <4>2
    <3>3. a < b
      <4> HIDE DEF a, b, e, q, B, end
      <4> QED
        BY <2>1, <2>2, SliceIs
    <3> QED
      BY <3>1, <3>2, <3>3
  <2>4. ASSUME NEW g \in a .. b - 1 PROVE r[g] = c[k]
    <3>1. g \in Nat /\ a <= g /\ g < b /\ g \in 0 .. U - 1
      <4> HIDE DEF a, b, e, q, B, end, U
      <4>1. U \in Nat
        BY <1>4
      <4> QED
        BY <2>3, <4>1
    <3>2. r[g] = RateAt(price, g, grain)
      BY <3>1
    <3>3. Grains(t[k].start, grain) <= g
          /\ g < Grains(IF k < m THEN t[k + 1].start ELSE usage, grain)
      BY <2>1, <3>1
    <3>4. RateAt(price, g, grain) = t[k].nanos
      BY <3>1, <3>3, RateIs
    <3> QED
      BY <3>2, <3>4
  <2>5. x[k] * s >= c[k] * (b - a) /\ x[k] * s < c[k] * (b - a) + s
    <3> DEFINE v == c[k]
               st == t[k].start
    <3>1. v \in Nat /\ x[k] = Subtotal(v, q) /\ Subtotal(v, q) # Invalid
          /\ a = Grains(st, grain) /\ OnGrain(st, grain) /\ q = Subtract(e, st)
      BY <2>1, <2>2
    <3> HIDE DEF a, b, e, q, v, st, B, end, x, c
    <3> QED
      BY <2>1, <2>2, <3>1, SliceIsBilled DEF v
  <2>6. a <= b /\ b <= B[m]
    <3> HIDE DEF B
    <3> QED
      BY <1>7, <2>3
  <2> HIDE DEF B, x, c, r, U, s
  <2> QED
    BY <2>4, <2>5, <2>6
<1>10. c \in [1 .. m -> Nat] /\ x \in [1 .. m -> Nat] /\ r \in [0 .. B[m] - 1 -> Int]
  BY <1>6, <1>7, RateIsInt
<1> HIDE DEF B, c, x, r
<1>11. Stretched(m, s, B, c, x, r)
  BY <1>7, <1>9, <1>10 DEF Stretched
<1>12. /\ SumOf(r) \in Int /\ SumOf(x) \in Int /\ SumOf(x) * s >= SumOf(r)
       /\ SumOf(x) * s < SumOf(r) + s * m
  BY <1>1, <1>2, <1>11, StretchesAddUp
<1>13. IsFiniteSet(L) /\ Cardinality(L) = m /\ L # {}
  <2> DEFINE z == [k \in 1 .. m |-> lines[k]]
  <2>1. IsFiniteSet(1 .. m) /\ Cardinality(1 .. m) = m
    <3>1. 1 \in Int /\ m \in Int /\ m - 1 + 1 = m /\ ~(1 > m)
      BY <1>1
    <3>2. IsFiniteSet(1 .. m) /\ Cardinality(1 .. m) = m - 1 + 1
      BY <3>1, FS_Interval
    <3> QED
      BY <3>1, <3>2
  <2>2. z \in Surjection(1 .. m, L)
    BY <1>1 DEF Surjection, Range
  <2>3. z \in Injection(1 .. m, L)
    BY <1>1 DEF Injection, IsInjective, Range
  <2>4. 1 \in DOMAIN lines
    BY <1>1
  <2>5. lines[1] \in L
    BY <2>4 DEF Range
  <2> HIDE DEF z
  <2> QED
    BY <2>1, <2>2, <2>3, <2>5, FS_Surjection
<1>14. Total(L) = SumOf(x)
  <2>1. f \in [L -> Int]
    BY <1>1, <1>6 DEF Range
  <2>2. [k \in 1 .. m |-> f[lines[k]]] = x
    BY <1>1 DEF Range, x
  <2> HIDE DEF f
  <2>3. IsFiniteSet(1 .. m)
    BY <1>1, FS_Interval
  <2>4. SumOf(f) = SumOf([k \in 1 .. m |-> f[lines[k]]])
    <3> DEFINE S == 1 .. m
    <3>1. /\ IsFiniteSet(S) /\ DOMAIN lines = S /\ \A k, l \in S : lines[k] = lines[l] => k = l
          /\ IsFiniteSet(Range(lines)) /\ f \in [Range(lines) -> Int]
      BY <1>1, <1>13, <2>1, <2>3
    <3> HIDE DEF S
    <3>2. SumOf(f) = SumOf([k \in S |-> f[lines[k]]])
      BY <3>1, SumOfImage
    <3> QED
      BY <3>2 DEF S
  <2> QED
    BY <2>2, <2>4 DEF Total, f
<1>15. CostOf([price |-> price, usage |-> usage], grain) = SumOf(r)
  BY DEF CostOf, Grains, r
<1> HIDE DEF L, s
<1>16. m \in Nat
  BY <1>1
<1>17. PartCovered(L, SumOf(r), s)
  BY <1>12, <1>13, <1>14, <1>16 DEF PartCovered
<1> QED
  BY <1>15, <1>17 DEF L, s

-------------------------------------------------------------------------------
(* What a quote is billed.                                                  *)

\* A function and its restrictions to two disjoint halves of its domain.
Halves(S, A, B, f, g, h) ==
  /\ IsFiniteSet(A) /\ IsFiniteSet(B) /\ A \cap B = {} /\ S = A \cup B
  /\ f \in [S -> Int] /\ g = [x \in A |-> f[x]] /\ h = [x \in B |-> f[x]]

\* The sums of the halves add up to the sum of the whole.
LEMMA HalvesAddUp ==
  ASSUME NEW S, NEW A, NEW B, NEW f, NEW g, NEW k, Halves(S, A, B, f, g, k)
  PROVE  SumOf(f) = SumOf(g) + SumOf(k)
<1> USE DEF Halves
<1>1. IsFiniteSet(S)
  BY FS_Union
<1>2. PICK h : AddsUp(f, S, h) /\ SumOf(f) = h[S]
  BY <1>1, SumIs
<1>3. SumOf(g) = h[A] /\ SumOf(k) = h[B]
  <2>1. A \in SUBSET S /\ B \in SUBSET S
    OBVIOUS
  <2> QED
    BY <1>1, <1>2, <2>1, SumOfPart
<1> DEFINE P == {b \in SUBSET B : h[A \cup b] = h[A] + h[b]}
<1>4. \A s \in SUBSET S : h[s] \in Int
  BY <1>2 DEF AddsUp
<1>5. {} \in P
  <2>1. A \cup {} = A /\ h[A] \in Int
    BY <1>4
  <2> QED
    BY <1>2, <2>1 DEF AddsUp
<1>6. ASSUME NEW b \in SUBSET B, b # {}, \A x \in b : b \ {x} \in P PROVE b \in P
  <2>1. PICK x \in b : TRUE
    BY <1>6
  <2>2. h[A \cup (b \ {x})] = h[A] + h[b \ {x}]
    BY <1>6
  <2>3. h[b] = f[x] + h[b \ {x}]
    BY <1>2 DEF AddsUp
  <2>4. (A \cup b) \ {x} = A \cup (b \ {x}) /\ A \cup b \in SUBSET S /\ x \in A \cup b
    OBVIOUS
  <2>5. h[A \cup b] = f[x] + h[A \cup (b \ {x})]
    <3>1. h[A \cup b] = f[x] + h[(A \cup b) \ {x}]
      BY <1>2, <2>4 DEF AddsUp
    <3> QED
      BY <2>4, <3>1
  <2>6. f[x] \in Int /\ h[A] \in Int /\ h[b \ {x}] \in Int
    BY <1>4
  <2>7. h[A \cup b] = h[A] + h[b]
    <3> QED
      BY <2>2, <2>3, <2>5, <2>6
  <2> QED
    BY <2>7
<1>7. B \in P
  <2> HIDE DEF P
  <2> QED
    BY <1>5, <1>6, FiniteInduction
<1> QED
  BY <1>2, <1>3, <1>7

\* Their sums are integers and their cardinalities add up.
LEMMA HalvesAre ==
  ASSUME NEW S, NEW A, NEW B, NEW f, NEW g, NEW h, Halves(S, A, B, f, g, h)
  PROVE  /\ SumOf(g) \in Int /\ SumOf(h) \in Int
         /\ IsFiniteSet(S) /\ Cardinality(S) = Cardinality(A) + Cardinality(B)
         /\ Cardinality(A) \in Nat /\ Cardinality(B) \in Nat
<1>1. /\ IsFiniteSet(A) /\ IsFiniteSet(B) /\ A \cap B = {} /\ S = A \cup B
      /\ f \in [A \cup B -> Int] /\ g = [x \in A |-> f[x]] /\ h = [x \in B |-> f[x]]
  BY DEF Halves
<1>3. g \in [A -> Int] /\ h \in [B -> Int]
  BY <1>1
<1>4. SumOf(g) \in Int /\ SumOf(h) \in Int
  BY <1>1, <1>3, SumIsInt
<1>5. /\ IsFiniteSet(A \cup B)
      /\ Cardinality(A \cup B) = Cardinality(A) + Cardinality(B) - Cardinality(A \cap B)
  BY <1>1, FS_Union
<1>6. Cardinality(A) \in Nat /\ Cardinality(B) \in Nat /\ Cardinality(A \cap B) = 0
  BY <1>1, FS_CardinalityType, FS_EmptySet
<1> QED
  BY <1>1, <1>4, <1>5, <1>6

\* The shifts of a SKU's tier boundaries.
ShiftsOf(price) == {price.tiers[i].start.shift : i \in DOMAIN price.tiers}

\* They are finitely many numbers.
LEMMA ShiftsAre ==
  ASSUME NEW list \in Catalogues, NEW price \in Range(list), NEW t, NEW free,
         TiersOf(price, t, free)
  PROVE  IsFiniteSet(ShiftsOf(price)) /\ ShiftsOf(price) \in SUBSET Nat
<1> DEFINE m == Len(price.tiers)
           f == [i \in 1 .. m |-> price.tiers[i].start.shift]
<1>1. m \in Nat /\ DOMAIN price.tiers = 1 .. m /\ \A i \in 1 .. m : IsTier(price.tiers[i])
  BY PriceIs
<1>2. \A i \in 1 .. m : price.tiers[i].start.shift \in Nat
  <2> SUFFICES ASSUME NEW i \in 1 .. m PROVE price.tiers[i].start.shift \in Nat
    OBVIOUS
  <2>1. IsFloat(price.tiers[i].start) /\ ExactNonnegative(price.tiers[i].start) # Invalid
    BY <1>1 DEF IsTier, TiersOf
  <2> QED
    BY <2>1, ExactIs
<1>3. f \in Surjection(1 .. m, ShiftsOf(price))
  <2> HIDE DEF m
  <2> QED
    BY <1>1 DEF Surjection, ShiftsOf
<1>4. IsFiniteSet(1 .. m)
  <2> HIDE DEF m
  <2>1. 1 \in Int /\ m \in Int
    BY <1>1
  <2> QED
    BY <2>1, FS_Interval
<1>5. IsFiniteSet(ShiftsOf(price))
  <2> HIDE DEF m, f
  <2> QED
    BY <1>3, <1>4, FS_Surjection
<1> QED
  BY <1>1, <1>2, <1>5 DEF ShiftsOf

\* A power of two is a multiple of every lower one.
LEMMA LowerPowerDivides ==
  ASSUME NEW a \in Nat, NEW k \in Nat, k <= a
  PROVE  \E e \in Nat : 2 * Pow2[a] = e * Pow2[k]
<1>1. a - k \in Nat /\ k + (a - k) = a
  OBVIOUS
<1>2. Pow2[k + (a - k)] = Pow2[a - k] * Pow2[k]
  BY <1>1, PowersMultiply
<1>3. Pow2[a - k] \in Nat /\ Pow2[k] \in Nat
  BY <1>1, Powers
<1>4. 2 * Pow2[a] = (2 * Pow2[a - k]) * Pow2[k] /\ 2 * Pow2[a - k] \in Nat
  BY <1>1, <1>2, <1>3
<1> QED
  BY <1>4

\* Every boundary and usage of a quote is a whole number of its grains.
LEMMA GrainIs ==
  ASSUME config \in Configs, prices \in Catalogues, NEW q, QuoteSound(config, prices, q),
         Representable
  PROVE  /\ Grain \in Nat /\ Grain > 0
         /\ \A i \in 1 .. 4 : /\ FitsGrain(Wanted(config, prices, i).price, Grain)
                              /\ OnGrain(Wanted(config, prices, i).usage, Grain)
<1> DEFINE w(i) == Wanted(config, prices, i)
           H(i) == ShiftsOf(w(i).price)
           S == {0} \cup UNION {{v.price.tiers[i].start.shift : i \in DOMAIN v.price.tiers} :
                                  v \in Selected}
<1>1. \A i \in 1 .. 4 : /\ w(i).price \in Range(prices) /\ w(i).usage \in Rational
                        /\ w(i).usage.d \in {1, 2}
  BY DEF QuoteSound
<1>2. \A i \in 1 .. 4 : IsFiniteSet(H(i)) /\ H(i) \in SUBSET Nat
  <2> SUFFICES ASSUME NEW i \in 1 .. 4 PROVE IsFiniteSet(H(i)) /\ H(i) \in SUBSET Nat
    OBVIOUS
  <2>1. \E t, free : TiersOf(w(i).price, t, free)
    BY LinesAreSound
  <2>2. PICK t, free : TiersOf(w(i).price, t, free)
    BY <2>1
  <2>3. w(i).price \in Range(prices)
    BY <1>1
  <2> HIDE DEF w
  <2> QED
    BY <2>2, <2>3, ShiftsAre
<1>3. DOMAIN Quantities(config, prices) = 1 .. 4 /\ \A i \in 1 .. 4 : w(i) = Quantities(config, prices)[i]
  BY QuantitiesAre DEF Wanted
<1>4. Selected = {w(1), w(2), w(3), w(4)}
  <2>1. 1 .. 4 = {1, 2, 3, 4}
    OBVIOUS
  <2> HIDE DEF w
  <2> QED
    BY <1>3, <2>1 DEF Selected, Range
<1>5. S = {0} \cup H(1) \cup H(2) \cup H(3) \cup H(4)
  <2> HIDE DEF w
  <2> QED
    BY <1>4 DEF ShiftsOf
<1>6. IsFiniteSet(S) /\ S \in SUBSET Nat /\ S \in SUBSET Int /\ S # {}
  <2>1. IsFiniteSet(H(1)) /\ IsFiniteSet(H(2)) /\ IsFiniteSet(H(3)) /\ IsFiniteSet(H(4))
        /\ H(1) \cup H(2) \cup H(3) \cup H(4) \subseteq Nat
    BY <1>2
  <2>2. IsFiniteSet({0})
    BY FS_Singleton
  <2> HIDE DEF H, S
  <2>3. IsFiniteSet({0} \cup H(1))
    BY <2>1, <2>2, FS_Union
  <2>4. IsFiniteSet({0} \cup H(1) \cup H(2))
    BY <2>1, <2>3, FS_Union
  <2>5. IsFiniteSet({0} \cup H(1) \cup H(2) \cup H(3))
    BY <2>1, <2>4, FS_Union
  <2>6. IsFiniteSet({0} \cup H(1) \cup H(2) \cup H(3) \cup H(4))
    BY <2>1, <2>5, FS_Union
  <2>7. S \in SUBSET Nat /\ 0 \in S
    BY <1>5, <2>1
  <2>8. S \in SUBSET Int
    BY <2>7
  <2> QED
    BY <1>5, <2>6, <2>7, <2>8
<1>7. Grain = 2 * Pow2[Max(S)]
  BY DEF Grain
<1> HIDE DEF S
<1>8. Max(S) \in Nat /\ \A k \in S : k <= Max(S) /\ k \in Nat
  BY <1>6, MaxIs
<1>9. Grain \in Nat /\ Grain > 0
  BY <1>7, <1>8, PowersArePositive
<1>10. ASSUME NEW k \in S PROVE \E e \in Nat : Grain = e * Pow2[k]
  BY <1>7, <1>8, <1>10, LowerPowerDivides
<1>11. ASSUME NEW i \in 1 .. 4 PROVE FitsGrain(w(i).price, Grain)
  <2> DEFINE p == w(i).price
  <2>1. w(i) \in Selected /\ p \in Range(prices)
    BY <1>1, <1>3 DEF Selected, Range
  <2>2. DOMAIN p.tiers = 1 .. Len(p.tiers)
    <3> HIDE DEF p
    <3> QED
      BY <2>1, PriceIs
  <2>3. H(i) \subseteq S
    BY <1>5
  <2> SUFFICES ASSUME NEW j \in 1 .. Len(p.tiers)
               PROVE  /\ p.tiers[j].start.num < Pow2[WIDTH]
                      /\ \E e \in Nat : Grain = e * Pow2[p.tiers[j].start.shift]
    BY DEF FitsGrain
  <2>4. p.tiers[j].start.num < Pow2[WIDTH]
    BY <2>1, <2>2 DEF Representable
  <2>5. p.tiers[j].start.shift \in S
    BY <2>2, <2>3 DEF ShiftsOf
  <2> QED
    BY <1>10, <2>4, <2>5
<1>12. ASSUME NEW i \in 1 .. 4 PROVE OnGrain(w(i).usage, Grain)
  <2> DEFINE d == w(i).usage.d
             e == Pow2[Max(S)]
  <2>1. w(i).usage \in Rational /\ (d = 1 \/ d = 2)
    BY <1>1
  <2>2. e \in Nat /\ Grain = 2 * e
    BY <1>7, <1>8, Powers
  <2>3. \E z \in Nat : Grain = z * d
    <3> HIDE DEF d, e
    <3>1. CASE d = 1
      <4>1. Grain = Grain * d
        BY <1>9, <3>1
      <4> QED
        BY <1>9, <4>1
    <3>2. CASE d = 2
      <4>1. Grain = e * d
        BY <2>2, <3>2
      <4> QED
        BY <2>2, <4>1
    <3> QED
      BY <2>1, <3>1, <3>2
  <2> QED
    BY <2>1, <2>3 DEF OnGrain
<1> QED
  BY <1>9, <1>11, <1>12

\* Each of the four SKUs of a quote is covered.
LEMMA PartsAreCovered ==
  ASSUME config \in Configs, prices \in Catalogues, NEW q, QuoteSound(config, prices, q),
         Representable, NEW i \in 1 .. 4
  PROVE  /\ PartCovered(Range(LinesOf(config, prices, i)),
                        CostOf(Wanted(config, prices, i), Grain), MICRO * Grain)
         /\ DOMAIN LinesOf(config, prices, i) # {}
<1> DEFINE w == Wanted(config, prices, i)
           lines == LinesOf(config, prices, i)
           t == Normalized(w.price)
           grain == Grain
<1>1. PICK n, free, m :
        /\ TiersOf(w.price, t, free) /\ Sliced(w.price, w.usage, lines, t, n, m)
        /\ \A k \in 1 .. m : LineSound(lines[k], t[k], IF k < m THEN t[k + 1].start ELSE w.usage)
  BY LinesAreSound
<1>2. /\ w.price \in Range(prices) /\ w.usage \in Rational
      /\ \A k \in DOMAIN lines : lines[k].subtotal # Invalid
      /\ \A k, l \in DOMAIN lines : lines[k] = lines[l] => k = l
  BY DEF QuoteSound
<1>3. grain \in Nat /\ grain > 0 /\ FitsGrain(w.price, grain) /\ OnGrain(w.usage, grain)
  BY GrainIs
<1> HIDE DEF w, lines, t, grain
<1>4. DOMAIN lines = 1 .. m /\ m \in Nat /\ m > 0
  BY <1>1 DEF Sliced, Tiered
<1>5. PartCovered(Range(lines), CostOf([price |-> w.price, usage |-> w.usage], grain), MICRO * grain)
  <2> DEFINE p == w.price
             u == w.usage
  <2>1. /\ TiersOf(p, t, free) /\ Sliced(p, u, lines, t, n, m)
        /\ \A k \in 1 .. m : LineSound(lines[k], t[k], IF k < m THEN t[k + 1].start ELSE u)
        /\ \A k \in 1 .. m : lines[k].subtotal # Invalid
        /\ \A k, l \in 1 .. m : lines[k] = lines[l] => k = l
        /\ p \in Range(prices) /\ u \in Rational /\ FitsGrain(p, grain) /\ OnGrain(u, grain)
    BY <1>1, <1>2, <1>3, <1>4
  <2> HIDE DEF p, u
  <2>2. PartCovered(Range(lines), CostOf([price |-> p, usage |-> u], grain), MICRO * grain)
    BY <1>3, <2>1, BilledIs
  <2> QED
    BY <2>2 DEF p, u
<1>6. CostOf([price |-> w.price, usage |-> w.usage], grain) = CostOf(w, grain)
  BY DEF CostOf
<1>7. PartCovered(Range(lines), CostOf(w, grain), MICRO * grain)
  BY <1>5, <1>6
<1>8. DOMAIN lines # {}
  <2>1. 1 \in DOMAIN lines
    BY <1>4
  <2> QED
    BY <2>1
<1> QED
  BY <1>7, <1>8 DEF w, lines, grain

\* The SKUs of a quote are four.
LEMMA CostIsOfFour ==
  ASSUME config \in Configs, prices \in Catalogues, NEW q, QuoteSound(config, prices, q),
         Representable
  PROVE  ExactCost(Selected, Grain)
           = CostOf(Wanted(config, prices, 1), Grain) + CostOf(Wanted(config, prices, 2), Grain)
               + CostOf(Wanted(config, prices, 3), Grain) + CostOf(Wanted(config, prices, 4), Grain)
<1> DEFINE e == Quantities(config, prices)
           f == [w \in Range(e) |-> CostOf(w, Grain)]
           S == 1 .. 4
           w(i) == Wanted(config, prices, i)
<1>1. DOMAIN e = S /\ \A i \in S : e[i] = w(i)
  BY QuantitiesAre DEF Wanted
<1>2. \A i, j \in S : e[i] = e[j] => i = j
  <2> SUFFICES ASSUME NEW i \in S, NEW j \in S, e[i] = e[j] PROVE i = j
    OBVIOUS
  <2>1. LinesOf(config, prices, i) = LinesOf(config, prices, j)
    BY <1>1 DEF LinesOf
  <2>2. PICK k \in DOMAIN LinesOf(config, prices, i) : TRUE
    BY PartsAreCovered
  <2> QED
    BY <2>1, <2>2 DEF QuoteSound
<1>3. IsFiniteSet(S)
  <2>1. 1 \in Int /\ 4 \in Int
    OBVIOUS
  <2> QED
    BY <2>1, FS_Interval
<1>4. IsFiniteSet(Range(e))
  <2> DEFINE z == [i \in S |-> e[i]]
  <2>1. z \in Surjection(S, Range(e))
    <3> HIDE DEF e, S
    <3> QED
      BY <1>1 DEF Surjection, Range
  <2> HIDE DEF z, S
  <2> QED
    BY <1>3, <2>1, FS_Surjection
<1>5. \A i \in S : CostOf(w(i), Grain) \in Int /\ w(i) \in Range(e)
  <2>1. \A i \in S : CostOf(w(i), Grain) \in Int
    BY PartsAreCovered DEF PartCovered
  <2>2. \A i \in S : e[i] \in Range(e)
    <3> HIDE DEF e
    <3> QED
      BY <1>1 DEF Range
  <2> HIDE DEF e, S
  <2> QED
    BY <1>1, <2>1, <2>2
<1>6. f \in [Range(e) -> Int]
  <2> SUFFICES ASSUME NEW v \in Range(e) PROVE CostOf(v, Grain) \in Int
    OBVIOUS
  <2>1. PICK i \in S : v = w(i)
    <3> HIDE DEF e, S
    <3> QED
      BY <1>1 DEF Range
  <2> QED
    BY <1>5, <2>1
<1>7. ExactCost(Selected, Grain) = SumOf(f)
  BY DEF ExactCost, CostOf, Selected
<1>8. SumOf(f) = SumOf([i \in S |-> f[e[i]]])
  <2> HIDE DEF e, f, S
  <2> QED
    BY <1>1, <1>2, <1>3, <1>4, <1>6, SumOfImage
<1> DEFINE h == [i \in S |-> f[e[i]]]
<1>9. \A i \in S : h[i] = CostOf(w(i), Grain)
  <2> HIDE DEF e, w, S
  <2> QED
    BY <1>1, <1>5
<1>10. h \in [1 .. 4 -> Int]
  <2> HIDE DEF e, f, w
  <2> QED
    BY <1>5, <1>9
<1>11. SumOf(h) = h[1] + h[2] + h[3] + h[4]
  <2> HIDE DEF h
  <2> QED
    BY <1>10, SumOfFour
<1>12. 1 \in S /\ 2 \in S /\ 3 \in S /\ 4 \in S
  OBVIOUS
<1> HIDE DEF e, f, w, h, S
<1>13. SumOf(h) = CostOf(w(1), Grain) + CostOf(w(2), Grain) + CostOf(w(3), Grain) + CostOf(w(4), Grain)
  BY <1>9, <1>11, <1>12
<1> QED
  BY <1>7, <1>8, <1>13 DEF w, h

\* The lines of a quote are those of its four SKUs.
LEMMA LinesAreOfFour ==
  ASSUME NEW c \in Configs, NEW list \in Catalogues, NEW q, QuoteSound(c, list, q)
  PROVE  LET L(i) == Range(LinesOf(c, list, i))
         IN /\ q.total = Total(L(1)) + Total(L(2)) + Total(L(3)) + Total(L(4))
            /\ Cardinality(q.lines) = Cardinality(L(1)) + Cardinality(L(2))
                                        + Cardinality(L(3)) + Cardinality(L(4))
<1> DEFINE L(i) == Range(LinesOf(c, list, i))
           A == L(1)
           B == L(2)
           C == L(3)
           D == L(4)
           E == A \cup B
           F == C \cup D
           S == E \cup F
           f == [line \in S |-> line.subtotal]
           g == [line \in E |-> line.subtotal]
           h == [line \in F |-> line.subtotal]
<1>1. \A i, j \in 1 .. 4 : i # j => L(i) \cap L(j) = {}
  <2> SUFFICES ASSUME NEW i \in 1 .. 4, NEW j \in 1 .. 4, i # j, NEW x \in L(i), x \in L(j)
               PROVE  FALSE
    OBVIOUS
  <2>1. PICK k \in DOMAIN LinesOf(c, list, i) : x = LinesOf(c, list, i)[k]
    BY DEF Range
  <2>2. PICK l \in DOMAIN LinesOf(c, list, j) : x = LinesOf(c, list, j)[l]
    BY DEF Range
  <2>3. \A k2 \in DOMAIN LinesOf(c, list, i), l2 \in DOMAIN LinesOf(c, list, j) :
          LinesOf(c, list, i)[k2] = LinesOf(c, list, j)[l2] => i = j
    BY DEF QuoteSound
  <2> QED
    BY <2>1, <2>2, <2>3
<1>2. q.lines = S
  <2>1. 1 .. 4 = {1, 2, 3, 4}
    OBVIOUS
  <2> QED
    BY <2>1 DEF QuoteSound
<1>3. IsFiniteSet(q.lines) /\ \A line \in q.lines : line.subtotal \in Word
  BY QuoteIsSound
<1>4. \A line \in S : line.subtotal \in Int
  BY <1>2, <1>3, PowersArePositive, PricingAssumption DEF Word
<1> HIDE DEF L
<1>5. IsFiniteSet(A) /\ IsFiniteSet(B) /\ IsFiniteSet(C) /\ IsFiniteSet(D)
  <2>1. A \subseteq q.lines /\ B \subseteq q.lines /\ C \subseteq q.lines /\ D \subseteq q.lines
    BY <1>2
  <2> QED
    BY <1>3, <2>1, FS_Subset
<1>6. A \cap B = {} /\ C \cap D = {} /\ E \cap F = {}
  BY <1>1
<1> DEFINE a == [line \in A |-> line.subtotal]
           b == [line \in B |-> line.subtotal]
           k == [line \in C |-> line.subtotal]
           d == [line \in D |-> line.subtotal]
<1>7. Halves(E, A, B, g, a, b)
  BY <1>4, <1>5, <1>6 DEF Halves
<1>8. Halves(F, C, D, h, k, d)
  BY <1>4, <1>5, <1>6 DEF Halves
<1>9. IsFiniteSet(E) /\ IsFiniteSet(F)
  <2> HIDE DEF a, b, k, d, E, F, g, h
  <2> QED
    BY <1>7, <1>8, HalvesAre
<1>10. Halves(S, E, F, f, g, h)
  BY <1>4, <1>6, <1>9 DEF Halves
<1> HIDE DEF a, b, k, d, g, h, f, E, F, S
<1>11. SumOf(f) = SumOf(g) + SumOf(h) /\ SumOf(g) = SumOf(a) + SumOf(b)
       /\ SumOf(h) = SumOf(k) + SumOf(d)
  BY <1>7, <1>8, <1>10, HalvesAddUp
<1>12. /\ SumOf(a) \in Int /\ SumOf(b) \in Int /\ SumOf(k) \in Int /\ SumOf(d) \in Int
       /\ Cardinality(S) = Cardinality(E) + Cardinality(F)
       /\ Cardinality(E) = Cardinality(A) + Cardinality(B)
       /\ Cardinality(F) = Cardinality(C) + Cardinality(D)
       /\ Cardinality(A) \in Nat /\ Cardinality(B) \in Nat
       /\ Cardinality(C) \in Nat /\ Cardinality(D) \in Nat
  BY <1>7, <1>8, <1>10, HalvesAre
<1>13. /\ Total(A) = SumOf(a) /\ Total(B) = SumOf(b) /\ Total(C) = SumOf(k) /\ Total(D) = SumOf(d)
       /\ Total(S) = SumOf(f)
  BY DEF Total, a, b, k, d, f
<1>14. q.total = Total(S)
  BY <1>2 DEF QuoteSound
<1>15. q.total = Total(A) + Total(B) + Total(C) + Total(D)
  BY <1>11, <1>12, <1>13, <1>14
<1>16. Cardinality(S) = Cardinality(A) + Cardinality(B) + Cardinality(C) + Cardinality(D)
  BY <1>12
<1> QED
  BY <1>2, <1>15, <1>16 DEF L

\* Four parts each covered are covered together.
LEMMA CoveredTogether ==
  ASSUME NEW s \in Nat, NEW t1 \in Int, NEW t2 \in Int, NEW t3 \in Int, NEW t4 \in Int,
         NEW c1 \in Int, NEW c2 \in Int, NEW c3 \in Int, NEW c4 \in Int,
         NEW n1 \in Nat, NEW n2 \in Nat, NEW n3 \in Nat, NEW n4 \in Nat,
         t1 * s >= c1, t2 * s >= c2, t3 * s >= c3, t4 * s >= c4,
         t1 * s < c1 + s * n1, t2 * s < c2 + s * n2, t3 * s < c3 + s * n3, t4 * s < c4 + s * n4
  PROVE  /\ (t1 + t2 + t3 + t4) * s >= c1 + c2 + c3 + c4
         /\ (t1 + t2 + t3 + t4) * s < (c1 + c2 + c3 + c4) + s * (n1 + n2 + n3 + n4)
<1>1. (t1 + t2 + t3 + t4) * s = t1 * s + t2 * s + t3 * s + t4 * s
  OBVIOUS
<1>2. s * (n1 + n2 + n3 + n4) = s * n1 + s * n2 + s * n3 + s * n4
  OBVIOUS
<1>3. /\ t1 * s \in Int /\ t2 * s \in Int /\ t3 * s \in Int /\ t4 * s \in Int
      /\ s * n1 \in Int /\ s * n2 \in Int /\ s * n3 \in Int /\ s * n4 \in Int
  OBVIOUS
<1> QED
  BY <1>1, <1>2, <1>3

(* A quote is at least what the usage costs grain by grain, and above it by *)
(* less than a micro-unit for each line: however the tiers cut the usage,   *)
(* nothing is left out, billed twice or billed at a neighbour's rate.       *)
(* QuoteIsExact holds in every state, whatever the width, the hours and the *)
(* catalogues; it asks that no tier starts beyond what the width holds.     *)
THEOREM QuoteCovers == Spec => []QuoteIsExact
<1>1. Inv => QuoteIsExact
  <2> SUFFICES ASSUME Inv, stage = "quoted", Representable
               PROVE  CoversCost(ExactCost(Selected, Grain), MICRO * Grain)
    BY DEF QuoteIsExact
  <2> DEFINE L(i) == Range(LinesOf(config, prices, i))
             c(i) == CostOf(Wanted(config, prices, i), Grain)
             s == MICRO * Grain
  <2>1. config \in Configs /\ prices \in Catalogues /\ quote # Invalid
    BY DEF Inv, Inputs, QuoteOfInputs
  <2>2. QuoteSound(config, prices, quote)
    BY <2>1, QuotedIsSound
  <2>3. ExactCost(Selected, Grain) = c(1) + c(2) + c(3) + c(4)
    BY <2>1, <2>2, CostIsOfFour
  <2>4. /\ quote.total = Total(L(1)) + Total(L(2)) + Total(L(3)) + Total(L(4))
        /\ Cardinality(quote.lines) = Cardinality(L(1)) + Cardinality(L(2))
                                        + Cardinality(L(3)) + Cardinality(L(4))
    BY <2>1, <2>2, LinesAreOfFour
  <2>5. /\ PartCovered(L(1), c(1), s) /\ PartCovered(L(2), c(2), s)
        /\ PartCovered(L(3), c(3), s) /\ PartCovered(L(4), c(4), s)
    BY <2>1, <2>2, PartsAreCovered
  <2>6. s \in Nat
    BY <2>1, <2>2, GrainIs, PricingAssumption
  <2> HIDE DEF L, c, s
  <2>7. /\ (Total(L(1)) + Total(L(2)) + Total(L(3)) + Total(L(4))) * s >= c(1) + c(2) + c(3) + c(4)
        /\ (Total(L(1)) + Total(L(2)) + Total(L(3)) + Total(L(4))) * s
             < (c(1) + c(2) + c(3) + c(4)) + s * (Cardinality(L(1)) + Cardinality(L(2))
                                                   + Cardinality(L(3)) + Cardinality(L(4)))
    BY <2>5, <2>6, CoveredTogether DEF PartCovered
  <2>8. CoversCost(c(1) + c(2) + c(3) + c(4), s)
    BY <2>4, <2>7 DEF CoversCost
  <2> QED
    BY <2>3, <2>8 DEF s
<1> QED
  BY <1>1, InvariantHolds, PTL

-------------------------------------------------------------------------------
(* The order of the catalogue.                                              *)

\* The same SKUs listed in another order.
Shuffle(list, o, other) ==
  /\ list \in Catalogues /\ ListsEachOnce(list)
  /\ o \in [DOMAIN list -> DOMAIN list] /\ IsInjective(o)
  /\ other = [i \in DOMAIN list |-> list[o[i]]]

\* Both lists have the same places and, at related places, the same SKU.
LEMMA ShuffleIs ==
  ASSUME NEW list, NEW o, NEW other, Shuffle(list, o, other)
  PROVE  /\ IsFiniteSet(DOMAIN list) /\ DOMAIN list \in SUBSET Nat
         /\ \A i \in DOMAIN list : list[i] \in Range(list) /\ list[i].sku \in Int
         /\ DOMAIN other = DOMAIN list
         /\ \A i \in DOMAIN list : o[i] \in DOMAIN list /\ other[i] = list[o[i]]
         /\ \A k \in DOMAIN list : \E i \in DOMAIN list : o[i] = k
<1> DEFINE S == DOMAIN list
<1>1. list \in Catalogues /\ o \in [S -> S] /\ IsInjective(o) /\ other = [i \in S |-> list[o[i]]]
  BY DEF Shuffle
<1>2. list \in Seq(Range(list)) /\ \A i \in S : list[i] \in Range(list) /\ list[i].sku \in Int
  <2>1. \A i \in S : list[i] \in Range(list)
    BY DEF Range
  <2> QED
    BY <1>1, <2>1, CatalogueAssumption DEF IsPrice
<1>3. IsFiniteSet(S) /\ S \in SUBSET Nat
  <2>1. S = 1 .. Len(list) /\ Len(list) \in Nat
    BY <1>2
  <2>2. IsFiniteSet(1 .. Len(list))
    BY <2>1, FS_Interval
  <2> QED
    BY <2>1, <2>2
<1> HIDE DEF S
<1>4. o \in Injection(S, S)
  BY <1>1 DEF Injection, IsInjective
<1>5. o \in Surjection(S, S)
  BY <1>3, <1>4, FS_Injection
<1>6. \A k \in S : \E i \in S : o[i] = k
  BY <1>5 DEF Surjection
<1>7. DOMAIN other = S /\ \A i \in S : o[i] \in S /\ other[i] = list[o[i]]
  BY <1>1
<1> QED
  BY <1>2, <1>3, <1>6, <1>7 DEF S

\* The order does not change the SKU a description selects.
LEMMA SameExact ==
  ASSUME NEW list, NEW o, NEW other, Shuffle(list, o, other), NEW description
  PROVE  SelectExact(other, description) = SelectExact(list, description)
<1> DEFINE named(l) == {i \in DOMAIN l : /\ l[i].usd /\ l[i].text = description
                                         /\ l[i].suffix # "other"}
           F == named(list)
           G == named(other)
           z == [i \in G |-> o[i]]
<1>1. /\ IsFiniteSet(DOMAIN list) /\ DOMAIN other = DOMAIN list
      /\ \A i \in DOMAIN list : o[i] \in DOMAIN list /\ other[i] = list[o[i]]
      /\ \A k \in DOMAIN list : \E i \in DOMAIN list : o[i] = k
  BY ShuffleIs
<1>2. F \subseteq DOMAIN list /\ G \subseteq DOMAIN list
      /\ \A i \in DOMAIN list : i \in G <=> o[i] \in F
  BY <1>1
<1>3. /\ SelectExact(list, description) = IF Cardinality(F) = 1 THEN list[CHOOSE i \in F : TRUE]
                                                                ELSE Invalid
      /\ SelectExact(other, description) = IF Cardinality(G) = 1 THEN other[CHOOSE i \in G : TRUE]
                                                                 ELSE Invalid
  BY DEF SelectExact
<1> HIDE DEF F, G
<1>4. IsFiniteSet(F) /\ IsFiniteSet(G)
  BY <1>1, <1>2, FS_Subset
<1>5. z \in Surjection(G, F)
  <2>1. z \in [G -> F]
    BY <1>2
  <2>2. \A k \in F : \E i \in G : z[i] = k
    BY <1>1, <1>2
  <2> HIDE DEF z
  <2> QED
    BY <2>1, <2>2 DEF Surjection
<1>6. z \in Injection(G, F)
  <2>1. z \in [G -> F]
    BY <1>2
  <2>2. DOMAIN o = DOMAIN list /\ \A i, j \in DOMAIN o : o[i] = o[j] => i = j
    BY DEF Shuffle, IsInjective
  <2>3. \A i, j \in G : z[i] = z[j] => i = j
    BY <1>2, <2>2
  <2> HIDE DEF z
  <2> QED
    BY <2>1, <2>3 DEF Injection, IsInjective
<1>7. Cardinality(F) = Cardinality(G)
  <2> HIDE DEF z
  <2> QED
    BY <1>4, <1>5, <1>6, FS_Surjection
<1>8. CASE Cardinality(F) = 1
  <2>1. PICK x : F = {x}
    BY <1>4, <1>8, FS_Singleton
  <2>2. PICK y : G = {y}
    BY <1>4, <1>7, <1>8, FS_Singleton
  <2>3. o[y] = x /\ other[y] = list[x]
    BY <1>1, <1>2, <2>1, <2>2
  <2>4. (CHOOSE i \in F : TRUE) = x /\ (CHOOSE i \in G : TRUE) = y
    BY <2>1, <2>2
  <2> QED
    BY <1>3, <1>7, <1>8, <2>3, <2>4
<1>9. CASE Cardinality(F) # 1
  BY <1>3, <1>7, <1>9
<1> QED
  BY <1>8, <1>9

\* The order does not change the SKU a search by words selects.
LEMMA SameSelected ==
  ASSUME NEW list, NEW o, NEW other, Shuffle(list, o, other), NEW words
  PROVE  SelectPrice(other, words) = SelectPrice(list, words)
<1>1. /\ IsFiniteSet(DOMAIN list) /\ DOMAIN list \in SUBSET Nat
      /\ \A i \in DOMAIN list : list[i] \in Range(list) /\ list[i].sku \in Int
      /\ DOMAIN other = DOMAIN list
      /\ \A i \in DOMAIN list : o[i] \in DOMAIN list /\ other[i] = list[o[i]]
      /\ \A k \in DOMAIN list : \E i \in DOMAIN list : o[i] = k
  BY ShuffleIs
<1> DEFINE found(l) == {j \in DOMAIN l : Mentions(l[j], words)}
           F == found(list)
           G == found(other)
           keys == [i \in F |-> Dearest(list[i])]
           keyz == [i \in G |-> Dearest(other[i])]
<1>2. F \subseteq DOMAIN list /\ G \subseteq DOMAIN list
      /\ \A i \in DOMAIN list : i \in G <=> o[i] \in F
  BY <1>1
<1>3. /\ SelectPrice(list, words) = LastOf(list, keys)
      /\ SelectPrice(other, words) = LastOf(other, keyz)
  BY DEF SelectPrice
<1> HIDE DEF F, G
<1>4. \A i \in DOMAIN list : Dearest(list[i]) \in Int
  BY <1>1, DearestIs DEF Shuffle
<1>5. /\ DOMAIN keys = F /\ \A i \in F : keys[i] = Dearest(list[i])
      /\ DOMAIN keyz = G /\ \A i \in G : keyz[i] = keys[o[i]]
  BY <1>1, <1>2
<1> HIDE DEF keys, keyz
<1>6. Candidates(list, keys) /\ Candidates(other, keyz)
  <2>1. IsFiniteSet(F) /\ IsFiniteSet(G)
    BY <1>1, <1>2, FS_Subset
  <2>2. \A i \in F : keys[i] \in Int /\ list[i].sku \in Int
    BY <1>1, <1>2, <1>4, <1>5
  <2>3. \A i \in G : keyz[i] \in Int /\ other[i].sku \in Int
    <3> SUFFICES ASSUME NEW i \in G PROVE keyz[i] \in Int /\ other[i].sku \in Int
      OBVIOUS
    <3>1. o[i] \in F /\ other[i] = list[o[i]] /\ keyz[i] = keys[o[i]]
      BY <1>1, <1>2, <1>5
    <3> QED
      BY <2>2, <3>1
  <2> QED
    BY <1>1, <1>2, <1>5, <2>1, <2>2, <2>3 DEF Candidates
<1>7. CASE F = {}
  <2>1. G = {}
    BY <1>2, <1>7
  <2> QED
    BY <1>3, <1>5, <1>7, <2>1 DEF LastOf
<1>8. CASE F # {}
  <2>1. G # {}
    BY <1>1, <1>2, <1>8
  <2>2. PICK k \in F :
          /\ LastOf(list, keys) = list[k]
          /\ \A j \in F : keys[k] > keys[j] \/ (keys[k] = keys[j] /\ list[k].sku >= list[j].sku)
    BY <1>5, <1>6, <1>8, LastIs
  <2>3. PICK i \in G :
          /\ LastOf(other, keyz) = other[i]
          /\ \A j \in G : keyz[i] > keyz[j] \/ (keyz[i] = keyz[j] /\ other[i].sku >= other[j].sku)
    BY <1>5, <1>6, <2>1, LastIs
  <2>4. PICK v \in DOMAIN list : o[v] = k
    BY <1>1, <1>2
  <2>5. v \in G /\ o[i] \in F /\ i \in DOMAIN list /\ o[i] \in DOMAIN list /\ k \in DOMAIN list
    BY <1>1, <1>2, <2>4
  <2>6. \/ keys[k] > keys[o[i]]
        \/ keys[k] = keys[o[i]] /\ list[k].sku >= list[o[i]].sku
    BY <2>2, <2>5
  <2>7. \/ keys[o[i]] > keys[k]
        \/ keys[o[i]] = keys[k] /\ list[o[i]].sku >= list[k].sku
    <3>1. keyz[i] = keys[o[i]] /\ keyz[v] = keys[k]
      BY <1>5, <2>4, <2>5
    <3>2. other[i] = list[o[i]] /\ other[v] = list[k]
      BY <1>1, <2>4, <2>5
    <3> QED
      BY <2>3, <2>5, <3>1, <3>2
  <2>8. keys[k] \in Int /\ keys[o[i]] \in Int /\ list[k].sku \in Int /\ list[o[i]].sku \in Int
    BY <1>1, <1>4, <1>5, <2>5
  <2>9. list[k].sku = list[o[i]].sku
    BY <2>6, <2>7, <2>8
  <2>10. o[i] = k
    BY <2>5, <2>9 DEF Shuffle, ListsEachOnce
  <2> QED
    BY <1>1, <1>3, <2>2, <2>3, <2>5, <2>10
<1> QED
  BY <1>7, <1>8

\* Nor the one a search by either of two sets of words selects.
LEMMA SameAny ==
  ASSUME NEW list, NEW o, NEW other, Shuffle(list, o, other), NEW words, NEW otherwise
  PROVE  SelectAny(other, words, otherwise) = SelectAny(list, words, otherwise)
<1>1. /\ DOMAIN other = DOMAIN list
      /\ \A i \in DOMAIN list : o[i] \in DOMAIN list /\ other[i] = list[o[i]]
      /\ \A k \in DOMAIN list : \E i \in DOMAIN list : o[i] = k
  BY ShuffleIs
<1>2. (\E i \in DOMAIN other : Mentions(other[i], words))
        <=> (\E i \in DOMAIN list : Mentions(list[i], words))
  BY <1>1
<1>3. /\ SelectPrice(other, words) = SelectPrice(list, words)
      /\ SelectPrice(other, otherwise) = SelectPrice(list, otherwise)
  BY SameSelected
<1> QED
  BY <1>2, <1>3 DEF SelectAny

\* So the order does not change what is priced.
LEMMA SameQuantities ==
  ASSUME NEW list, NEW o, NEW other, Shuffle(list, o, other), NEW c
  PROVE  Quantities(c, other) = Quantities(c, list)
<1>1. \A text : SelectExact(other, text) = SelectExact(list, text)
  BY SameExact
<1>2. \A words : SelectPrice(other, words) = SelectPrice(list, words)
  BY SameSelected
<1>3. \A words, otherwise : SelectAny(other, words, otherwise) = SelectAny(list, words, otherwise)
  BY SameAny
<1> QED
  BY <1>1, <1>2, <1>3 DEF Quantities

(* The quote, or the refusal, is the same for every order in which a        *)
(* catalogue could list its SKUs, as long as it lists none twice:           *)
(* OrderIndependent holds in every state.                                   *)
THEOREM OrderDoesNotMatter == Spec => []OrderIndependent
<1>1. Inv => OrderIndependent
  <2> SUFFICES ASSUME Inv, stage \in {"quoted", "refused"}, ListsEachOnce(prices),
                      NEW order \in [DOMAIN prices -> DOMAIN prices], IsInjective(order)
               PROVE  quote = Quote(config, [i \in DOMAIN prices |-> prices[order[i]]])
    BY DEF OrderIndependent
  <2> DEFINE other == [i \in DOMAIN prices |-> prices[order[i]]]
  <2>1. prices \in Catalogues /\ quote = Quote(config, prices)
    BY DEF Inv, Inputs, QuoteOfInputs
  <2>2. Shuffle(prices, order, other)
    BY <2>1 DEF Shuffle
  <2> HIDE DEF other
  <2>3. Quantities(config, other) = Quantities(config, prices)
    BY <2>2, SameQuantities
  <2>4. Quote(config, other) = Quote(config, prices)
    BY <2>3 DEF Quote
  <2> QED
    BY <2>1, <2>4 DEF other
<1> QED
  BY <1>1, InvariantHolds, PTL

-------------------------------------------------------------------------------
(* No catalogue in good order is refused.                                   *)

\* Exponents are ordered as their powers are.
LEMMA LowerPower ==
  ASSUME NEW j \in Nat, NEW k \in Nat, Pow2[j] < Pow2[k] PROVE j < k
<1> SUFFICES ASSUME k <= j PROVE FALSE
  OBVIOUS
<1>1. j - k \in Nat /\ k + (j - k) = j
  OBVIOUS
<1>2. Pow2[j] = Pow2[j - k] * Pow2[k]
  BY <1>1, PowersMultiply
<1>3. Pow2[j - k] \in Nat /\ Pow2[j - k] > 0 /\ Pow2[k] \in Nat
  BY <1>1, PowersArePositive
<1> DEFINE x == Pow2[j - k]
           y == Pow2[k]
<1>4. x * y >= y
  <2> HIDE DEF x, y
  <2>1. x \in Nat /\ x >= 1 /\ y \in Nat
    BY <1>3 DEF x, y
  <2> QED
    BY <2>1
<1> QED
  BY <1>2, <1>3, <1>4

\* Products are ordered as their factors are.
LEMMA FactorsAre ==
  ASSUME NEW a \in Nat, NEW b \in Nat, NEW c \in Nat, c > 0
  PROVE  /\ a <= b <=> a * c <= b * c
         /\ a < b <=> a * c < b * c
<1>1. a <= b => a * c <= b * c
  <2> SUFFICES ASSUME a <= b PROVE a * c <= b * c
    OBVIOUS
  <2>1. b - a \in Nat /\ b * c = a * c + (b - a) * c
    OBVIOUS
  <2>2. (b - a) * c \in Nat
    BY <2>1
  <2> QED
    BY <2>1, <2>2
<1>2. a < b => a * c < b * c
  <2> SUFFICES ASSUME a < b PROVE a * c < b * c
    OBVIOUS
  <2> DEFINE e == b - a - 1
  <2>1. e \in Nat /\ b * c = a * c + c + e * c
    OBVIOUS
  <2>2. e * c \in Nat
    BY <2>1
  <2> QED
    BY <2>1, <2>2
<1>3. b < a => b * c < a * c
  <2> SUFFICES ASSUME b < a PROVE b * c < a * c
    OBVIOUS
  <2> DEFINE e == a - b - 1
  <2>1. e \in Nat /\ a * c = b * c + c + e * c
    OBVIOUS
  <2>2. e * c \in Nat
    BY <2>1
  <2> QED
    BY <2>1, <2>2
<1>4. a * c \in Nat /\ b * c \in Nat
  OBVIOUS
<1>5. b <= a => b * c <= a * c
  <2> SUFFICES ASSUME b <= a PROVE b * c <= a * c
    OBVIOUS
  <2>1. CASE b = a
    BY <2>1, <1>4
  <2>2. CASE b < a
    BY <1>3, <1>4, <2>2
  <2> QED
    BY <2>1, <2>2
<1> QED
  BY <1>1, <1>2, <1>3, <1>4, <1>5

(* A fraction in lowest terms has no common divisor left, and is smaller    *)
(* by every one it had.                                                     *)
LEMMA LowestTerms ==
  ASSUME NEW n \in Nat, n > 0, NEW d \in Nat, d > 0
  PROVE  /\ Reduced(n, d) \in Amount /\ IsReduced(Reduced(n, d))
         /\ \A e \in CommonDivisors(n, d) : Reduced(n, d).n * e <= n /\ Reduced(n, d).d * e <= d
<1> DEFINE g == Gcd[<<n, d>>]
           r == Reduced(n, d)
<1>1. g = Greatest(n, d) /\ g \in CommonDivisors(n, d) /\ \A e \in CommonDivisors(n, d) : e <= g
  BY GcdIs, GreatestIs
<1> HIDE DEF g
<1>2. g \in Nat /\ g > 0
  BY <1>1 DEF CommonDivisors
<1>3. PICK k \in Nat : n = g * k
  BY <1>1 DEF CommonDivisors, Divides
<1>4. PICK l \in Nat : d = g * l
  BY <1>1 DEF CommonDivisors, Divides
<1>5. n \div g = k /\ d \div g = l
  BY <1>2, <1>3, <1>4
<1>6. k > 0 /\ l > 0
  <2>1. k # 0 /\ l # 0
    BY <1>2, <1>3, <1>4
  <2> QED
    BY <2>1
<1>7. r = [n |-> k, d |-> l]
  BY <1>5 DEF Reduced, g
<1> HIDE DEF r
<1>8. Gcd[<<k, l>>] = 1
  <2> DEFINE h == Gcd[<<k, l>>]
  <2>1. h = Greatest(k, l) /\ h \in CommonDivisors(k, l)
    BY <1>6, GcdIs, GreatestIs
  <2> HIDE DEF h
  <2>2. h \in Nat /\ h > 0
    BY <2>1 DEF CommonDivisors
  <2>3. PICK a \in Nat : k = h * a
    BY <2>1 DEF CommonDivisors, Divides
  <2>4. PICK b \in Nat : l = h * b
    BY <2>1 DEF CommonDivisors, Divides
  <2>5. n = (g * h) * a /\ d = (g * h) * b /\ g * h \in Nat /\ g * h > 0
    <3>1. n = (g * h) * a
      BY <1>2, <1>3, <2>2, <2>3
    <3>2. d = (g * h) * b
      BY <1>2, <1>4, <2>2, <2>4
    <3>3. g * h \in Nat /\ g * h # 0
      BY <1>2, <2>2
    <3> QED
      BY <3>1, <3>2, <3>3
  <2>6. g * h <= g
    <3>1. g * h \in CommonDivisors(n, d)
      BY <2>5 DEF CommonDivisors, Divides
    <3> QED
      BY <1>1, <3>1
  <2>7. h <= 1
    <3>1. h * g <= 1 * g
      BY <1>2, <2>2, <2>6
    <3> QED
      BY <1>2, <2>2, <3>1, FactorsAre
  <2> QED
    BY <2>2, <2>7 DEF h
<1>9. ASSUME NEW e \in CommonDivisors(n, d) PROVE r.n * e <= n /\ r.d * e <= d
  <2>1. e \in Nat /\ e > 0 /\ e <= g
    BY <1>1 DEF CommonDivisors
  <2>2. e * k <= g * k /\ e * l <= g * l
    BY <1>2, <1>6, <2>1, FactorsAre
  <2>3. e * k = k * e /\ e * l = l * e
    BY <2>1
  <2> QED
    BY <1>3, <1>4, <1>7, <2>2, <2>3
<1> QED
  BY <1>6, <1>7, <1>8, <1>9 DEF IsReduced, Amount, r

\* A month fits the width, four times over.
LEMMA MonthFits == /\ WIDTH \in Nat /\ WIDTH > 1 /\ HOURS \in Nat /\ HOURS > 0
                   /\ Pow2[WIDTH] \in Nat /\ 4 * HOURS < Pow2[WIDTH]
<1>1. WIDTH \in Nat /\ HOURS \in Nat /\ HOURS > 0 /\ 4 * HOURS < Pow2[WIDTH] /\ Pow2[WIDTH] \in Nat
  BY PricingAssumption, PowersArePositive
<1>2. Pow2[1] < Pow2[WIDTH]
  BY <1>1, SmallPowers
<1> QED
  BY <1>1, <1>2, LowerPower

\* A float within the width is taken as it is.
LEMMA ExactFits ==
  ASSUME NEW f, f # Invalid, f.num \in Nat, f.shift \in Nat,
         f.num < Pow2[WIDTH], f.shift < WIDTH
  PROVE  /\ ExactNonnegative(f) = [n |-> f.num, d |-> Pow2[f.shift]]
         /\ ExactNonnegative(f) \in Rational /\ ExactNonnegative(f) # Invalid
         /\ f.num > 0 => ExactPositive(f) = ExactNonnegative(f)
<1> DEFINE w == Pow2[WIDTH]
           x == Pow2[FRACTION]
           q == [n |-> f.num, d |-> Pow2[f.shift]]
<1>1. Pow2[WIDTH + FRACTION] = x * w /\ x \in Nat /\ x > 0 /\ w \in Nat
      /\ Pow2[f.shift] \in Nat /\ Pow2[f.shift] > 0
  BY MonthFits, PricingAssumption, PowersMultiply, PowersArePositive
<1>2. ~(f.num >= Pow2[WIDTH + FRACTION])
  <2> HIDE DEF x, w
  <2>1. 1 * w <= x * w /\ x * w \in Nat
    BY <1>1, FactorsAre
  <2> QED
    BY <1>1, <2>1 DEF w
<1>3. ~(f.shift >= WIDTH) /\ f.num % w = f.num
  BY <1>1, MonthFits
<1>4. ExactNonnegative(f) = q
  BY <1>2, <1>3 DEF ExactNonnegative
<1>5. q \in Rational /\ q \in Amount
  BY <1>1 DEF Rational, Amount
<1>6. q # Invalid /\ (f.num > 0 => q # Zero)
  BY <1>5, InvalidAssumption DEF Zero
<1> QED
  BY <1>4, <1>5, <1>6 DEF ExactPositive, Positive

\* A month of a small machine part is a reduced amount that fits the width in halves.
LEMMA HoursFit ==
  ASSUME NEW a \in 1 .. 4, NEW s \in {0, 1}, s = 1 => a = 1, NEW f, f = [num |-> a, shift |-> s]
  PROVE  /\ HoursOf(f) \in Rational /\ HoursOf(f) # Invalid /\ IsReduced(HoursOf(f))
         /\ HoursOf(f).d \in {1, 2} /\ HoursOf(f).n * HoursOf(f).d < Pow2[WIDTH]
<1> DEFINE w == Pow2[WIDTH]
           d == Pow2[s]
           n == a * HOURS
           r == Reduced(n, d)
<1>1. w \in Nat /\ WIDTH \in Nat /\ s < WIDTH /\ HOURS \in Nat /\ HOURS > 0 /\ 4 * HOURS < w
  BY MonthFits
<1>2. d = (IF s = 0 THEN 1 ELSE 2)
  BY SmallPowers
<1>3. f # Invalid /\ f.num = a /\ f.shift = s
  BY InvalidAssumption
<1>4. ExactPositive(f) = [n |-> a, d |-> d] /\ ExactPositive(f) # Invalid
  <2>1. f.num \in Nat /\ f.num > 0 /\ f.shift \in Nat /\ f.num < Pow2[WIDTH] /\ f.shift < WIDTH
    BY <1>1, <1>3
  <2> QED
    BY <1>3, <2>1, ExactFits
<1>5. n \in Nat /\ n > 0 /\ n * d <= 4 * HOURS
  <2>1. CASE s = 1
    BY <1>1, <1>2, <2>1
  <2>2. CASE s = 0
    <3>1. a = 1 \/ a = 2 \/ a = 3 \/ a = 4
      OBVIOUS
    <3> QED
      BY <1>1, <1>2, <2>2, <3>1
  <2> QED
    BY <2>1, <2>2
<1>6. Checked(n) = n /\ n # Invalid
  <2>1. n < w
    BY <1>1, <1>2, <1>5
  <2> QED
    BY <1>5, <2>1, InvalidAssumption DEF Checked
<1>7. HoursOf(f) = r
  BY <1>4, <1>6 DEF HoursOf, OverMonth
<1>8. d \in Nat /\ d > 0
  BY <1>2
<1> HIDE DEF n, d
<1>9. r \in Amount /\ IsReduced(r)
  BY <1>5, <1>8, LowestTerms
<1>10. r.n <= n /\ r.d <= d
  <2>1. 1 \in CommonDivisors(n, d)
    <3>1. n = 1 * n /\ d = 1 * d
      BY <1>5, <1>8
    <3> QED
      BY <1>5, <1>8, <3>1 DEF CommonDivisors, Divides
  <2> QED
    BY <1>5, <1>8, <1>9, <2>1, LowestTerms DEF Amount
<1> HIDE DEF r
<1>11. r \in Rational /\ r.n \in Nat /\ r.d \in Nat /\ r.d > 0
  BY <1>9 DEF Rational, Amount, IsReduced
<1>12. r.d \in {1, 2}
  BY <1>2, <1>10, <1>11 DEF d
<1>13. r.n * r.d < w
  <2>1. r.n * r.d <= n * r.d
    BY <1>5, <1>10, <1>11, FactorsAre
  <2>2. n * r.d <= n * d
    <3>1. r.d * n <= d * n
      BY <1>5, <1>8, <1>10, <1>11, FactorsAre
    <3> QED
      BY <1>5, <1>8, <1>11, <3>1
  <2> HIDE DEF w
  <2>3. r.n * r.d \in Nat /\ n * r.d \in Nat /\ n * d \in Nat
    BY <1>5, <1>8, <1>11
  <2> QED
    BY <1>1, <1>5, <2>1, <2>2, <2>3
<1>14. r # Invalid
  BY <1>9, InvalidAssumption
<1> QED
  BY <1>7, <1>9, <1>11, <1>12, <1>13, <1>14

\* So is a month of either machine's CPU and memory.
LEMMA MachineFits ==
  ASSUME NEW small \in BOOLEAN, NEW f \in {Machine(small).vcpus, Machine(small).memory}
  PROVE  /\ HoursOf(f) \in Rational /\ HoursOf(f) # Invalid /\ IsReduced(HoursOf(f))
         /\ HoursOf(f).d \in {1, 2} /\ HoursOf(f).n * HoursOf(f).d < Pow2[WIDTH]
<1>1. \E a \in 1 .. 4, s \in {0, 1} : (s = 1 => a = 1) /\ f = [num |-> a, shift |-> s]
  <2>1. f \in {[num |-> 1, shift |-> 1], [num |-> 2, shift |-> 0], [num |-> 4, shift |-> 0]}
    BY MachineValues DEF Machine
  <2> QED
    BY <2>1
<1> QED
  BY <1>1, HoursFit

\* A whole number is a reduced amount.
LEMMA WholeIsReduced ==
  ASSUME NEW n \in Nat, n > 0
  PROVE  [n |-> n, d |-> 1] \in Rational /\ [n |-> n, d |-> 1] # Invalid /\ IsReduced([n |-> n, d |-> 1])
<1>1. Gcd[<<n, 1>>] = Greatest(n, 1) /\ Greatest(n, 1) \in 1 .. 1
  BY GcdIs, GreatestIs, CommonDivisorsAre
<1> QED
  BY <1>1, InvalidAssumption DEF Rational, Amount, IsReduced

\* A SKU of the list is none of the errors.
LEMMA ListedIs ==
  ASSUME NEW list \in Catalogues, NEW i \in DOMAIN list
  PROVE  list[i] \in Range(list) /\ list[i] # Invalid
BY InvalidAssumption DEF Range

\* A single SKU of a description is found.
LEMMA NamedIsFound ==
  ASSUME NEW list \in Catalogues, NEW text, Cardinality(Named(list, text)) = 1
  PROVE  SelectExact(list, text) # Invalid
<1> DEFINE found == Named(list, text)
<1>1. SelectExact(list, text) = list[CHOOSE i \in found : TRUE]
  BY DEF SelectExact, Named
<1>2. found # {} /\ found \subseteq DOMAIN list
  BY FS_EmptySet DEF Named
<1> HIDE DEF found
<1>3. (CHOOSE i \in found : TRUE) \in DOMAIN list
  BY <1>2
<1> QED
  BY <1>1, <1>3, ListedIs

\* Where some SKU has the words, one is selected.
LEMMA FoundIsSelected ==
  ASSUME NEW list \in Catalogues, NEW words, Found(list, words)
  PROVE  SelectPrice(list, words) # Invalid
<1> DEFINE found == {j \in DOMAIN list : Mentions(list[j], words)}
           keys == [i \in found |-> Dearest(list[i])]
<1>1. \A i \in found : keys[i] \in Int
  BY DearestIs DEF Range
<1>2. DOMAIN keys \in SUBSET DOMAIN list /\ SelectPrice(list, words) = LastOf(list, keys)
  BY DEF SelectPrice
<1>3. DOMAIN keys # {}
  BY DEF Found
<1> HIDE DEF keys
<1>4. Candidates(list, keys)
  <2>1. \A i \in DOMAIN keys : keys[i] \in Int
    BY <1>1 DEF keys
  <2> QED
    BY <1>2, <2>1, CandidatesAre
<1>5. PICK i \in DOMAIN keys : LastOf(list, keys) = list[i]
  BY <1>3, <1>4, LastIs
<1> QED
  BY <1>2, <1>5, ListedIs

\* What a SKU in good order holds.
LEMMA RegularIs ==
  ASSUME NEW list \in Catalogues, NEW price \in Range(list), Regular(price)
  PROVE  LET n == Len(price.tiers)
             f == price.conversion
             s(i) == price.tiers[i].start
         IN /\ n \in Nat /\ n > 0 /\ DOMAIN price.tiers = 1 .. n
            /\ f # Invalid /\ f.num \in Nat /\ f.num > 0 /\ f.num < Pow2[WIDTH]
            /\ f.shift \in Nat /\ f.shift < WIDTH
            /\ \A i \in 1 .. n :
                 /\ s(i) # Invalid /\ s(i).num \in Nat /\ s(i).shift \in Nat
                 /\ s(i).num < Pow2[WIDTH]
                 /\ price.tiers[i].units \in Nat /\ price.tiers[i].nanos \in Nat
                 /\ price.tiers[i].nanos \in 0 .. NANOS - 1
<1> DEFINE n == Len(price.tiers)
           f == price.conversion
           s(i) == price.tiers[i].start
<1>1. /\ IsPrice(price) /\ n \in Nat /\ DOMAIN price.tiers = 1 .. n
      /\ price.tiers = [i \in 1 .. n |-> price.tiers[i]]
      /\ \A i \in 1 .. n : IsTier(price.tiers[i])
  BY PriceIs
<1>2. n > 0
  <2>1. price.tiers # <<>> /\ price.tiers \in Seq(Range(price.tiers))
    BY <1>1 DEF Regular, IsPrice
  <2> DEFINE t == price.tiers
  <2> HIDE DEF t
  <2>2. t \in Seq(Range(t)) /\ t # <<>> => Len(t) > 0
    OBVIOUS
  <2> QED
    BY <2>1, <2>2 DEF t
<1>3. f # Invalid /\ f.shift < WIDTH /\ f.num \in 1 .. Pow2[WIDTH] - 1
  BY DEF Regular
<1>4. f.num \in Nat /\ f.shift \in Nat
  <2>1. f \in [num : Nat, shift : Nat]
    BY <1>1, <1>3 DEF IsPrice, IsFloat
  <2> QED
    BY <2>1
<1>5. ASSUME NEW i \in 1 .. n
      PROVE  /\ s(i) # Invalid /\ s(i).num < Pow2[WIDTH]
             /\ price.tiers[i].units >= 0 /\ price.tiers[i].nanos \in 0 .. NANOS - 1
  BY <1>1 DEF Regular
<1>6. ASSUME NEW i \in 1 .. n
      PROVE  /\ s(i).num \in Nat /\ s(i).shift \in Nat
             /\ price.tiers[i].units \in Nat /\ price.tiers[i].nanos \in Nat
  <2>1. /\ s(i) \in [num : Nat, shift : Nat]
        /\ price.tiers[i].units \in Int /\ price.tiers[i].nanos \in Int
    BY <1>1, <1>5 DEF IsTier, IsFloat
  <2> HIDE DEF s
  <2>2. s(i).num \in Nat /\ s(i).shift \in Nat
    BY <2>1
  <2> QED
    BY <1>5, <2>1, <2>2
<1>7. Pow2[WIDTH] \in Nat
  BY MonthFits
<1> QED
  BY <1>1, <1>2, <1>3, <1>4, <1>5, <1>6, <1>7

\* In good order every SKU that is needed is found, and its usage fits the width.
LEMMA SelectionFits ==
  ASSUME NEW c \in Configs, NEW list \in Catalogues, Priced(c, list), NEW i \in 1 .. 4
  PROVE  LET w == Wanted(c, list, i)
         IN /\ w.price \in Range(list) /\ w.price # Invalid
            /\ w.usage \in Rational /\ w.usage # Invalid /\ IsReduced(w.usage)
            /\ w.usage.d \in {1, 2} /\ w.usage.n * w.usage.d < Pow2[WIDTH]
<1> DEFINE q == Quantities(c, list)
           machine == Machine(c.small)
           Fits(u) == /\ u \in Rational /\ u # Invalid /\ IsReduced(u)
                      /\ u.d \in {1, 2} /\ u.n * u.d < Pow2[WIDTH]
<1>1. c.small \in BOOLEAN /\ c.disk \in Nat /\ c.disk > 0
  BY CatalogueAssumption DEF Priced
<1>2. /\ q[1].usage = HoursOf(machine.vcpus) /\ q[2].usage = HoursOf(machine.memory)
      /\ q[3].usage = [n |-> c.disk, d |-> 1] /\ q[4].usage = [n |-> HOURS, d |-> 1]
      /\ q[3].price = SelectExact(list, "disk") /\ q[4].price = SelectExact(list, "address")
      /\ q[1].price = IF c.small THEN SelectExact(list, "core")
                      ELSE SelectPrice(list, {"e2", "core"})
      /\ q[2].price = IF c.small THEN SelectExact(list, "ram")
                      ELSE SelectAny(list, {"e2", "ram"}, {"e2", "memory"})
  BY DEF Quantities
<1>3. /\ Cardinality(Named(list, "disk")) = 1 /\ Cardinality(Named(list, "address")) = 1
      /\ c.small => Cardinality(Named(list, "core")) = 1 /\ Cardinality(Named(list, "ram")) = 1
      /\ ~c.small => Found(list, {"e2", "core"})
                     /\ (Found(list, {"e2", "ram"}) \/ Found(list, {"e2", "memory"}))
      /\ Regular(q[i].price)
      /\ \E pieces : Moderate(q[i], pieces)
  BY DEF Priced
<1>4. q[i].price # Invalid
  <2>1. q[1].price # Invalid
    BY <1>2, <1>3, NamedIsFound, FoundIsSelected
  <2>2. q[2].price # Invalid
    <3>1. ~c.small => SelectAny(list, {"e2", "ram"}, {"e2", "memory"}) # Invalid
      BY <1>3, FoundIsSelected DEF SelectAny, Found
    <3> QED
      BY <1>2, <1>3, <3>1, NamedIsFound
  <2>3. q[3].price # Invalid /\ q[4].price # Invalid
    BY <1>2, <1>3, NamedIsFound
  <2> HIDE DEF q
  <2> QED
    BY <2>1, <2>2, <2>3
<1>5. q[i].price \in Range(list)
  BY <1>4, QuantitiesAre
<1>6. q[i].usage.n \in Nat => q[i].usage.n < Pow2[WIDTH]
  <2> DEFINE price == q[i].price
             x == Pow2[price.tiers[1].start.shift]
             n == q[i].usage.n
  <2>1. /\ 1 \in DOMAIN price.tiers /\ price.tiers[1].start.shift \in Nat
    <3> HIDE DEF q
    <3> QED
      BY <1>3, <1>5, RegularIs
  <2>2. n * x < Pow2[WIDTH]
    BY <1>3, <2>1 DEF Moderate
  <2>3. x \in Nat /\ x > 0 /\ Pow2[WIDTH] \in Nat
    BY <2>1, PowersArePositive, MonthFits
  <2> HIDE DEF x, n
  <2>4. n \in Nat => 1 * n <= x * n
    BY <2>3, FactorsAre
  <2>5. n \in Nat => x * n = n * x /\ x * n \in Nat
    BY <2>3
  <2> QED
    BY <2>2, <2>3, <2>4, <2>5 DEF n
<1>7. Fits(q[i].usage)
  <2>1. CASE i \in {1, 2}
    BY <1>1, <1>2, <2>1, MachineFits
  <2>2. CASE i \in {3, 4}
    <3>1. PICK n \in Nat : n > 0 /\ q[i].usage = [n |-> n, d |-> 1]
      BY <1>1, <1>2, <2>2, MonthFits
    <3>2. n * 1 < Pow2[WIDTH]
      BY <1>6, <3>1
    <3> HIDE DEF q
    <3> QED
      BY <3>1, <3>2, WholeIsReduced
  <2> QED
    BY <2>1, <2>2
<1> QED
  BY <1>4, <1>5, <1>7 DEF Wanted
\* The tiers of a SKU in good order are accepted where their numbers fit the width.
LEMMA RegularNormalizes ==
  ASSUME NEW list \in Catalogues, NEW price \in Range(list), Regular(price),
         \A i \in DOMAIN price.tiers :
           /\ price.tiers[i].start.shift < WIDTH
           /\ price.tiers[i].units * NANOS + price.tiers[i].nanos < Pow2[WIDTH]
  PROVE  Normalized(price) # Invalid
<1> DEFINE m == Len(price.tiers)
           f == price.conversion
           factor == ExactPositive(f)
           s(i) == price.tiers[i].start
           start(i) == ExactNonnegative(s(i))
           raw == [i \in 1 .. m |-> NormalizedTier(price.tiers[i], start(i), factor)]
           Tier == [start : Amount, nanos : Nat, base : Nat]
<1>1. /\ m \in Nat /\ m > 0 /\ DOMAIN price.tiers = 1 .. m
      /\ f # Invalid /\ f.num \in Nat /\ f.num > 0 /\ f.num < Pow2[WIDTH]
      /\ f.shift \in Nat /\ f.shift < WIDTH
  BY RegularIs
<1>2. ASSUME NEW i \in 1 .. m
      PROVE  /\ s(i) # Invalid /\ s(i).num \in Nat /\ s(i).shift \in Nat
             /\ s(i).num < Pow2[WIDTH] /\ s(i).shift < WIDTH
             /\ price.tiers[i].units \in Nat /\ price.tiers[i].nanos \in Nat
             /\ price.tiers[i].nanos \in 0 .. NANOS - 1
  BY <1>1, RegularIs
<1>3. /\ factor = [n |-> f.num, d |-> Pow2[f.shift]]
      /\ factor \in Rational /\ factor # Invalid
      /\ factor.n = f.num /\ factor.d = Pow2[f.shift]
  <2>1. factor = [n |-> f.num, d |-> Pow2[f.shift]] /\ factor \in Rational /\ factor # Invalid
    BY <1>1, ExactFits
  <2> HIDE DEF factor
  <2> QED
    BY <2>1
<1>4. ASSUME NEW i \in 1 .. m
      PROVE  /\ start(i) = [n |-> s(i).num, d |-> Pow2[s(i).shift]]
             /\ start(i) \in Rational /\ start(i) # Invalid
             /\ start(i).n = s(i).num /\ start(i).d = Pow2[s(i).shift]
  <2>1. /\ start(i) = [n |-> s(i).num, d |-> Pow2[s(i).shift]]
        /\ start(i) \in Rational /\ start(i) # Invalid
    BY <1>2, ExactFits
  <2> HIDE DEF start
  <2> QED
    BY <2>1
<1>5. ASSUME NEW i \in 1 .. m
      PROVE  /\ MultiplyToInteger(start(i), factor) \in Nat
             /\ MultiplyToInteger(start(i), factor) # Invalid
  <2> DEFINE a == s(i).num * f.num
             u == Pow2[s(i).shift] * Pow2[f.shift]
  <2>1. a % u = 0 /\ a \div u < Pow2[WIDTH]
    BY <1>1 DEF Regular
  <2>2. a \in Nat /\ u \in Nat /\ u > 0
    <3>1. Pow2[s(i).shift] \in Nat /\ Pow2[s(i).shift] > 0
          /\ Pow2[f.shift] \in Nat /\ Pow2[f.shift] > 0
      BY <1>1, <1>2, PowersArePositive
    <3> DEFINE x == Pow2[s(i).shift]
               y == Pow2[f.shift]
    <3> HIDE DEF x, y
    <3>2. x \in Nat /\ x > 0 /\ y \in Nat /\ y > 0
      BY <3>1 DEF x, y
    <3>3. x * y \in Nat /\ x * y > 0
      BY <3>2
    <3>4. a \in Nat
      BY <1>1, <1>2
    <3> QED
      BY <3>3, <3>4 DEF x, y
  <2>3. start(i).n * factor.n = a /\ start(i).d * factor.d = u
    BY <1>3, <1>4
  <2> HIDE DEF a, u, start, factor
  <2>4. a \div u \in Nat
    BY <2>2
  <2> QED
    BY <2>1, <2>3, <2>4, InvalidAssumption DEF MultiplyToInteger, Checked
<1>6. ASSUME NEW i \in 1 .. m
      PROVE  TierPrice(price.tiers[i]) \in Nat /\ TierPrice(price.tiers[i]) # Invalid
  <2> DEFINE r == price.tiers[i].units * NANOS + price.tiers[i].nanos
  <2>1. r \in Nat /\ r < Pow2[WIDTH]
    <3>1. r < Pow2[WIDTH]
      BY <1>1
    <3> DEFINE x == price.tiers[i].units
               y == price.tiers[i].nanos
    <3>2. NANOS \in Nat /\ x \in Nat /\ y \in Nat
      BY <1>2, PricingAssumption
    <3> HIDE DEF x, y
    <3>3. x * NANOS + y \in Nat
      BY <3>2
    <3> QED
      BY <3>1, <3>3 DEF x, y
  <2>2. TierPrice(price.tiers[i]) = r
    BY <1>2, <2>1 DEF TierPrice, Checked
  <2> QED
    BY <2>1, <2>2, InvalidAssumption
<1>7. ASSUME NEW i \in 1 .. m
      PROVE  /\ raw[i] \in Tier /\ raw[i].start = start(i)
             /\ Invalid \notin {raw[i].start, raw[i].base, raw[i].nanos}
  <2>1. raw[i] = [start |-> start(i), nanos |-> TierPrice(price.tiers[i]),
                  base |-> MultiplyToInteger(start(i), factor)]
    <3> HIDE DEF start, factor
    <3> QED
      BY <1>3, <1>4 DEF NormalizedTier
  <2>2. start(i) \in Amount
    BY <1>4 DEF Rational, Amount
  <2> HIDE DEF start, factor, raw
  <2> QED
    BY <1>4, <1>5, <1>6, <2>1, <2>2
<1>8. ASSUME NEW i \in 2 .. m PROVE Less(raw[i - 1].start, raw[i].start)
  <2>1. i \in 1 .. m /\ i - 1 \in 1 .. m /\ i > 1
    BY <1>1
  <2>2. s(i - 1).num * Pow2[s(i).shift] < s(i).num * Pow2[s(i - 1).shift]
    BY <1>1, <2>1 DEF Regular
  <2>3. raw[i - 1].start = start(i - 1) /\ raw[i].start = start(i)
    BY <1>7, <2>1
  <2>4. /\ start(i - 1).n = s(i - 1).num /\ start(i - 1).d = Pow2[s(i - 1).shift]
        /\ start(i).n = s(i).num /\ start(i).d = Pow2[s(i).shift]
    BY <1>4, <2>1
  <2> HIDE DEF start, s, raw
  <2> QED
    BY <2>2, <2>3, <2>4 DEF Less
<1>9. Len(raw) = m /\ DOMAIN raw = 1 .. m /\ raw \in Seq(Tier)
  <2>1. raw \in [1 .. m -> Tier]
    BY <1>7
  <2> HIDE DEF raw, Tier
  <2> QED
    BY <1>1, <2>1
<1>10. Normalized(price) = Ordered(raw)
  BY <1>1 DEF Normalized
<1> DEFINE zero == [start |-> Zero, base |-> 0, nanos |-> 0]
<1>11. Ordered(raw) = IF raw[1].start.n = 0 THEN raw ELSE <<zero>> \o raw
  <2>1. raw # <<>>
    BY <1>1, <1>9
  <2> HIDE DEF raw
  <2> QED
    BY <1>7, <1>8, <1>9, <2>1 DEF Ordered
<1>12. zero \in Tier
  BY DEF Zero, Amount
<1> HIDE DEF raw, zero, Tier
<1>13. Ordered(raw) \in Seq(Tier)
  BY <1>9, <1>11, <1>12
<1> QED
  BY <1>10, <1>13, InvalidAssumption DEF TierList, Tier

(* A slice that ends at most u units of usage up fits the width where u in  *)
(* the grain of its ends does: the smaller of two denominators, of which    *)
(* the larger is a multiple, is a common divisor of the difference.         *)
LEMMA SliceFits ==
  ASSUME NEW a \in Rational, NEW b \in Rational, Less(b, a),
         NEW u \in Nat, a.n <= u * a.d,
         NEW m \in Nat, NEW e \in Nat,
         (a.d = m /\ b.d = e * m) \/ (b.d = m /\ a.d = e * m),
         u * (e * m) < Pow2[WIDTH]
  PROVE  LET q == Subtract(a, b)
         IN q \in Rational /\ q # Invalid /\ IsReduced(q) /\ q.n <= u * q.d
<1> DEFINE n == a.n * b.d - b.n * a.d
           d == a.d * b.d
           r == Reduced(n, d)
           M == e * m
<1>1. /\ a.n \in Nat /\ a.d \in Nat /\ a.d > 0 /\ b.n \in Nat /\ b.d \in Nat /\ b.d > 0
      /\ Pow2[WIDTH] \in Nat
  BY MonthFits DEF Rational
<1>2. m > 0 /\ M \in Nat /\ M > 0
  BY <1>1
<1>3. n \in Nat /\ n > 0
  <2>1. b.n * a.d < a.n * b.d
    BY DEF Less
  <2>2. b.n * a.d \in Nat /\ a.n * b.d \in Nat
    BY <1>1
  <2> QED
    BY <2>1, <2>2
<1>4. d = M * m /\ d \in Nat /\ d > 0
  <2>1. d = M * m
    <3>1. (a.d = m /\ b.d = M) \/ (b.d = m /\ a.d = M)
      OBVIOUS
    <3>2. m * M = M * m
      BY <1>2
    <3> HIDE DEF M
    <3> QED
      BY <3>1, <3>2
  <2>2. M * m \in Nat /\ M * m > 0
    <3> HIDE DEF M
    <3> QED
      BY <1>2
  <2> QED
    BY <2>1, <2>2
<1>5. n <= u * d
  <2> DEFINE x == u * a.d
  <2>1. a.n * b.d <= x * b.d
    <3>1. x \in Nat
      BY <1>1
    <3> QED
      BY <1>1, <3>1, FactorsAre
  <2>2. x * b.d = u * d
    <3>1. \A i, j, k \in Nat : (i * j) * k = i * (j * k)
      OBVIOUS
    <3> QED
      BY <1>1, <3>1
  <2>3. b.n * a.d \in Nat /\ a.n * b.d \in Nat /\ u * d \in Nat
    BY <1>1, <1>4
  <2> HIDE DEF d, x
  <2> QED
    BY <2>1, <2>2, <2>3
<1>6. m \in CommonDivisors(n, d)
  <2>1. Divides(m, n)
    <3>1. CASE a.d = m /\ b.d = M
      <4>1. n = m * (a.n * e - b.n)
        BY <1>1, <3>1
      <4> DEFINE k == a.n * e - b.n
      <4>2. k \in Int
        BY <1>1
      <4> HIDE DEF k, n
      <4>3. k \in Nat
        <5> SUFFICES ASSUME k <= 0 PROVE FALSE
          BY <4>2
        <5>1. -k \in Nat
          BY <4>2
        <5>2. m * (-k) \in Nat /\ m * (-k) = -(m * k)
          BY <4>2, <5>1
        <5> QED
          BY <1>3, <4>1, <4>2, <5>2 DEF k
      <4> QED
        BY <4>1, <4>3 DEF Divides, k
    <3>2. CASE b.d = m /\ a.d = M
      <4>1. n = m * (a.n - b.n * e)
        BY <1>1, <3>2
      <4> DEFINE k == a.n - b.n * e
      <4>2. k \in Int
        BY <1>1
      <4> HIDE DEF k, n
      <4>3. k \in Nat
        <5> SUFFICES ASSUME k <= 0 PROVE FALSE
          BY <4>2
        <5>1. -k \in Nat
          BY <4>2
        <5>2. m * (-k) \in Nat /\ m * (-k) = -(m * k)
          BY <4>2, <5>1
        <5> QED
          BY <1>3, <4>1, <4>2, <5>2 DEF k
      <4> QED
        BY <4>1, <4>3 DEF Divides, k
    <3> QED
      BY <3>1, <3>2
  <2>2. Divides(m, d)
    <3>1. d = m * M
      BY <1>2, <1>4
    <3> QED
      BY <1>2, <3>1 DEF Divides
  <2> QED
    BY <1>2, <2>1, <2>2 DEF CommonDivisors
<1> HIDE DEF n, d, M
<1>7. r \in Amount /\ IsReduced(r) /\ r.n * m <= n /\ r.d * m <= d
  BY <1>3, <1>4, <1>6, LowestTerms
<1>8. PICK g \in Nat : g > 0 /\ n = g * r.n /\ d = g * r.d
  BY <1>3, <1>4, ReducedIs
<1> HIDE DEF r
<1>9. r.n \in Nat /\ r.d \in Nat /\ r.n > 0 /\ r.d > 0
  BY <1>7 DEF Amount, IsReduced
<1>10. u * M \in Nat /\ u * M < Pow2[WIDTH] /\ u * r.d \in Nat
  BY <1>2, <1>9 DEF M
<1>11. r.n <= u * r.d
  <2>1. r.n * g <= (u * r.d) * g
    <3>1. r.n * g = n /\ (u * r.d) * g = u * d
      BY <1>8, <1>9
    <3> QED
      BY <1>5, <3>1
  <2> QED
    BY <1>8, <1>9, <1>10, <2>1, FactorsAre
<1>12. r.n < Pow2[WIDTH]
  <2>1. r.n * m <= (u * M) * m
    <3>1. u * d = (u * M) * m
      BY <1>2, <1>4
    <3>2. r.n * m \in Nat /\ u * d \in Nat
      BY <1>4, <1>9
    <3> QED
      BY <1>3, <1>5, <1>7, <3>1, <3>2
  <2>2. r.n <= u * M
    BY <1>2, <1>9, <1>10, <2>1, FactorsAre
  <2> QED
    BY <1>1, <1>9, <1>10, <2>2
<1>13. r.d < Pow2[WIDTH]
  <2>1. r.d <= M
    BY <1>2, <1>4, <1>7, <1>9, FactorsAre
  <2>2. M <= u * M
    <3>1. u >= 1
      <4>1. u # 0
        BY <1>9, <1>11
      <4> QED
        BY <4>1
    <3>2. 1 * M <= u * M
      BY <1>2, <3>1, FactorsAre
    <3> QED
      BY <1>2, <3>2
  <2> QED
    BY <1>1, <1>2, <1>9, <1>10, <2>1, <2>2
<1>14. InRange(r) = r
  BY <1>9, <1>12, <1>13, InvalidAssumption DEF InRange, Checked
<1>15. Subtract(a, b) = r
  BY <1>14 DEF Subtract, r, n, d
<1>16. r \in Rational /\ r # Invalid
  BY <1>7, <1>9, InvalidAssumption DEF Rational, Amount
<1> QED
  BY <1>7, <1>11, <1>15, <1>16

\* So does one between two powers of two.
LEMMA PowersSliceFits ==
  ASSUME NEW a \in Rational, NEW b \in Rational, Less(b, a),
         NEW u \in Nat, a.n <= u * a.d,
         NEW j \in Nat, a.d = Pow2[j], u * Pow2[j] < Pow2[WIDTH],
         NEW k \in Nat, b.d = Pow2[k], u * Pow2[k] < Pow2[WIDTH]
  PROVE  LET q == Subtract(a, b)
         IN q \in Rational /\ q # Invalid /\ IsReduced(q) /\ q.n <= u * q.d
<1>1. ASSUME NEW x \in Nat, NEW y \in Nat, x <= y
      PROVE  /\ Pow2[x] \in Nat /\ Pow2[y - x] \in Nat
             /\ Pow2[y] = Pow2[y - x] * Pow2[x]
  <2>1. y - x \in Nat /\ x + (y - x) = y
    BY <1>1
  <2> QED
    BY <2>1, PowersMultiply, PowersArePositive
<1>2. CASE j <= k
  <2> DEFINE m == Pow2[j]
             e == Pow2[k - j]
  <2>1. /\ m \in Nat /\ e \in Nat /\ Pow2[k] = e * m
    BY <1>1, <1>2
  <2>2. (a.d = m /\ b.d = e * m) \/ (b.d = m /\ a.d = e * m)
    BY <2>1
  <2>3. u * (e * m) < Pow2[WIDTH]
    BY <2>1
  <2> HIDE DEF m, e
  <2> QED
    BY <2>1, <2>2, <2>3, SliceFits
<1>3. CASE k <= j
  <2> DEFINE m == Pow2[k]
             e == Pow2[j - k]
  <2>1. /\ m \in Nat /\ e \in Nat /\ Pow2[j] = e * m
    BY <1>1, <1>3
  <2>2. (a.d = m /\ b.d = e * m) \/ (b.d = m /\ a.d = e * m)
    BY <2>1
  <2>3. u * (e * m) < Pow2[WIDTH]
    BY <2>1
  <2> HIDE DEF m, e
  <2> QED
    BY <2>1, <2>2, <2>3, SliceFits
<1> QED
  BY <1>2, <1>3

\* A slice of at most u units costs at most what u units cost, and one.
LEMMA SubtotalFits ==
  ASSUME NEW nanos \in Nat, NEW q \in Rational, IsReduced(q),
         NEW u \in Nat, q.n <= u * q.d, NEW p \in Nat, p > 0,
         ((nanos * u) \div MICRO + 1) * p < Pow2[WIDTH]
  PROVE  /\ Subtotal(nanos, q) \in Nat /\ Subtotal(nanos, q) # Invalid
         /\ Subtotal(nanos, q) * p < Pow2[WIDTH]
<1> DEFINE y == nanos * u
           x == nanos * q.n
           Q == y \div MICRO
           scale == MICRO * q.d
           z == x \div scale
           s == z + (IF x % scale = 0 THEN 0 ELSE 1)
<1>1. q.n \in Nat /\ q.d \in Nat /\ q.d > 0 /\ MICRO \in Nat /\ MICRO > 0 /\ Pow2[WIDTH] \in Nat
  BY MonthFits, PricingAssumption DEF Rational
<1>2. /\ y \in Nat /\ x \in Nat /\ scale \in Nat /\ scale > 0 /\ u * q.d \in Nat
  BY <1>1
<1>3. Q \in Nat /\ y < MICRO * (Q + 1)
  <2>1. Q \in Nat /\ y % MICRO < MICRO /\ y % MICRO \in Nat /\ y = MICRO * Q + (y % MICRO)
    BY <1>1, <1>2, Quotient
  <2> HIDE DEF Q, y
  <2>2. MICRO * (Q + 1) = MICRO * Q + MICRO /\ MICRO * Q \in Nat
    BY <1>1, <2>1
  <2> QED
    BY <1>1, <1>2, <2>1, <2>2
<1>4. z \in Nat /\ x >= z * scale
  <2>1. z \in Nat /\ x % scale \in Nat /\ x = scale * z + (x % scale)
    BY <1>2, Quotient
  <2> HIDE DEF z, x, scale
  <2>2. scale * z = z * scale /\ z * scale \in Nat
    BY <1>2, <2>1
  <2> QED
    BY <1>2, <2>1, <2>2
<1>5. x <= y * q.d
  <2>1. q.n * nanos = x
    BY <1>1
  <2>2. (u * q.d) * nanos = y * q.d
    <3>1. \A i, j, k \in Nat : (i * j) * k = (k * i) * j
      OBVIOUS
    <3> QED
      BY <1>1, <3>1
  <2>3. CASE nanos = 0
    <3>1. (u * q.d) * nanos = 0 /\ q.n * nanos = 0
      BY <1>1, <1>2, <2>3
    <3> HIDE DEF x, y
    <3> QED
      BY <2>1, <2>2, <3>1
  <2>4. CASE nanos # 0
    <3>1. q.n * nanos <= (u * q.d) * nanos
      BY <1>1, <1>2, <2>4, FactorsAre
    <3> HIDE DEF x, y
    <3> QED
      BY <2>1, <2>2, <3>1
  <2> QED
    BY <2>3, <2>4
<1>6. y * q.d < (Q + 1) * scale
  <2>1. y * q.d < (MICRO * (Q + 1)) * q.d
    <3>1. MICRO * (Q + 1) \in Nat
      BY <1>1, <1>3
    <3> HIDE DEF y, Q
    <3> QED
      BY <1>1, <1>2, <1>3, <3>1, FactorsAre
  <2>2. (MICRO * (Q + 1)) * q.d = (Q + 1) * scale
    <3>1. \A i, j, k \in Nat : (i * j) * k = j * (i * k)
      OBVIOUS
    <3>2. Q + 1 \in Nat
      BY <1>3
    <3> HIDE DEF Q
    <3> QED
      BY <1>1, <3>1, <3>2
  <2> QED
    BY <2>1, <2>2
<1> HIDE DEF x, y, Q, scale, z
<1>7. z < Q + 1
  <2>1. z * scale < (Q + 1) * scale
    <3>1. z * scale \in Nat /\ y * q.d \in Nat /\ (Q + 1) * scale \in Nat
      BY <1>1, <1>2, <1>3, <1>4
    <3> QED
      BY <1>2, <1>4, <1>5, <1>6, <3>1
  <2> QED
    BY <1>2, <1>3, <1>4, <2>1, FactorsAre
<1>8. s \in Nat /\ s <= Q + 1
  BY <1>3, <1>4, <1>7
<1> HIDE DEF s
<1>9. s <= s * p /\ s * p < Pow2[WIDTH]
  <2>1. s * p <= (Q + 1) * p /\ (Q + 1) * p < Pow2[WIDTH]
    BY <1>3, <1>8, FactorsAre DEF Q, y
  <2>2. s * p \in Nat /\ (Q + 1) * p \in Nat
    BY <1>3, <1>8
  <2>3. s * 1 <= s * p
    <3>1. 1 <= p /\ (s > 0 => 1 * s <= p * s)
      BY <1>8, FactorsAre
    <3> QED
      BY <1>8, <3>1
  <2> QED
    BY <1>1, <1>8, <2>1, <2>2, <2>3
<1>10. Checked(s) = s /\ s # Invalid
  <2>1. s * p \in Nat
    BY <1>8
  <2> QED
    BY <1>1, <1>8, <1>9, <2>1, InvalidAssumption DEF Checked
<1>11. Subtotal(nanos, q) = s
  <2>1. Subtotal(nanos, q) = Checked(s)
    BY DEF Subtotal, s, x, z, scale
  <2> QED
    BY <1>10, <2>1
<1> QED
  BY <1>8, <1>9, <1>10, <1>11

\* What a month of a SKU is measured against: each tier's boundary and price.
LEMMA ModerateIs ==
  ASSUME NEW list \in Catalogues, NEW w, w.price \in Range(list), Regular(w.price),
         w.usage \in Rational, IsReduced(w.usage), NEW p \in Nat, p > 0, Moderate(w, p),
         NEW i \in 1 .. Len(w.price.tiers)
  PROVE  LET tier == w.price.tiers[i]
             rate == tier.units * NANOS + tier.nanos
             u == w.usage.n
         IN /\ rate \in Nat /\ rate < Pow2[WIDTH]
            /\ tier.start.shift < WIDTH
            /\ u < Pow2[WIDTH] /\ u * Pow2[tier.start.shift] < Pow2[WIDTH]
            /\ p < Pow2[WIDTH] /\ ((rate * u) \div MICRO + 1) * p < Pow2[WIDTH]
<1> DEFINE tier == w.price.tiers[i]
           rate == tier.units * NANOS + tier.nanos
           u == w.usage.n
           x == Pow2[tier.start.shift]
           B == Pow2[WIDTH]
<1>1. /\ i \in DOMAIN w.price.tiers /\ tier.start.shift \in Nat
      /\ tier.units \in Nat /\ tier.nanos \in Nat
  BY RegularIs
<1>2. rate < B /\ u * x < B /\ ((rate * u) \div MICRO + 1) * p < B
  BY <1>1 DEF Moderate
<1>3. rate \in Nat
  <2> DEFINE units == tier.units
             nanos == tier.nanos
  <2>1. units \in Nat /\ nanos \in Nat /\ NANOS \in Nat
    BY <1>1, PricingAssumption
  <2> HIDE DEF units, nanos
  <2>2. units * NANOS + nanos \in Nat
    BY <2>1
  <2> QED
    BY <2>2 DEF units, nanos
<1>4. /\ u \in Nat /\ u > 0 /\ x \in Nat /\ x > 0 /\ B \in Nat
      /\ MICRO \in Nat /\ MICRO > 0 /\ WIDTH \in Nat
  <2>1. u \in Nat /\ u > 0
    BY DEF Rational, IsReduced
  <2>2. x \in Nat /\ x > 0 /\ B \in Nat
    BY <1>1, MonthFits, PowersArePositive
  <2>3. MICRO \in Nat /\ MICRO > 0 /\ WIDTH \in Nat
    BY PricingAssumption
  <2> QED
    BY <2>1, <2>2, <2>3
<1> HIDE DEF rate, u, x
<1>5. x < B /\ u < B
  <2>1. 1 * x <= u * x /\ 1 * u <= x * u
    BY <1>4, FactorsAre
  <2>2. u * x \in Nat /\ u * x = x * u
    BY <1>4
  <2> HIDE DEF B
  <2> QED
    BY <1>2, <1>4, <2>1, <2>2 DEF B
<1>6. tier.start.shift < WIDTH
  BY <1>1, <1>4, <1>5, LowerPower DEF x
<1>7. p < B
  <2> DEFINE Q == (rate * u) \div MICRO
  <2>1. Q \in Nat
    <3>1. rate * u \in Nat
      BY <1>3, <1>4
    <3> QED
      BY <1>4, <3>1, Quotient
  <2> HIDE DEF Q, B
  <2>2. 1 * p <= (Q + 1) * p /\ (Q + 1) * p \in Nat
    BY <2>1, FactorsAre
  <2>3. (Q + 1) * p < B
    BY <1>2 DEF Q, B
  <2> QED
    BY <1>4, <2>2, <2>3 DEF B
<1> QED
  BY <1>2, <1>3, <1>5, <1>6, <1>7 DEF rate, u, x

\* The tiers of such a SKU, the free one included, bound a slice and its cost.
LEMMA TiersFit ==
  ASSUME NEW list \in Catalogues, NEW w, w.price \in Range(list), Regular(w.price),
         w.usage \in Rational, IsReduced(w.usage), NEW p \in Nat, p > 0, Moderate(w, p),
         NEW t, NEW n, NEW free, Tiered(t, n), TiersOf(w.price, t, free), NEW k \in 1 .. n
  PROVE  /\ \E j \in Nat : t[k].start.d = Pow2[j] /\ w.usage.n * Pow2[j] < Pow2[WIDTH]
         /\ ((t[k].nanos * w.usage.n) \div MICRO + 1) * p < Pow2[WIDTH]
<1> DEFINE m == Len(w.price.tiers)
           u == w.usage.n
<1>1. m \in Nat /\ m > 0 /\ DOMAIN w.price.tiers = 1 .. m /\ n = m + free /\ free \in {0, 1}
  BY RegularIs DEF Tiered, TiersOf
<1>2. u \in Nat
  BY DEF Rational
<1>3. CASE k > free
  <2> DEFINE i == k - free
             tier == w.price.tiers[i]
             rate == tier.units * NANOS + tier.nanos
  <2>1. i \in 1 .. m /\ i + free = k
    BY <1>1, <1>3
  <2>2. /\ ExactNonnegative(tier.start) # Invalid /\ TierPrice(tier) # Invalid
        /\ t[k].start = ExactNonnegative(tier.start) /\ t[k].nanos = TierPrice(tier)
    BY <2>1 DEF TiersOf
  <2>3. IsTier(tier)
    BY <2>1, PriceIs
  <2> HIDE DEF tier, i
  <2>4. t[k].start.d = Pow2[tier.start.shift] /\ tier.start.shift \in Nat
    BY <2>2, <2>3, ExactIs DEF IsTier
  <2>5. t[k].nanos = rate
    BY <2>2, <2>3, TierPriceIs
  <2>6. u * Pow2[tier.start.shift] < Pow2[WIDTH] /\ ((rate * u) \div MICRO + 1) * p < Pow2[WIDTH]
    BY <2>1, ModerateIs DEF tier
  <2> QED
    BY <2>4, <2>5, <2>6
<1>4. CASE k <= free
  <2>1. k = 1 /\ free = 1
    BY <1>1, <1>4
  <2>2. t[k].nanos = 0 /\ t[k].start.d = Pow2[0]
    <3>1. t[1].nanos = 0 /\ t[1].start = Zero
      BY <2>1 DEF TiersOf
    <3>2. Zero.d = Pow2[0]
      BY SmallPowers DEF Zero
    <3> QED
      BY <2>1, <3>1, <3>2
  <2>3. u < Pow2[WIDTH] /\ p < Pow2[WIDTH]
    <3>1. 1 \in 1 .. Len(w.price.tiers)
      BY <1>1
    <3> QED
      BY <3>1, ModerateIs
  <2>4. (0 * u) \div MICRO = 0
    BY <1>2, PricingAssumption
  <2>5. u * Pow2[0] = u /\ (0 + 1) * p = p
    BY <1>2, SmallPowers
  <2> HIDE DEF u
  <2> QED
    BY <2>2, <2>3, <2>4, <2>5 DEF u
<1> QED
  BY <1>1, <1>3, <1>4

\* The lines of a SKU, of whose subtotals p together fit the width.
LinesFit(w, lines, p) ==
  /\ lines \in Seq(PricingLine) /\ Len(lines) <= Len(w.price.tiers) + 1
  /\ \A k \in DOMAIN lines : lines[k].sku = w.price.sku /\ lines[k].subtotal * p < Pow2[WIDTH]
  /\ \A k, l \in DOMAIN lines : lines[k].start = lines[l].start => k = l

\* A month of a SKU in good order is cut into such lines.
LEMMA PartFits ==
  ASSUME NEW list \in Catalogues, NEW w, w.price \in Range(list), Regular(w.price),
         w.usage \in Rational, IsReduced(w.usage), NEW p \in Nat, p > 0, Moderate(w, p),
         w.usage.d \in {1, 2}, w.usage.n * w.usage.d < Pow2[WIDTH]
  PROVE  LinesFit(w, PricingLines(w.price, w.usage), p)
<1> DEFINE price == w.price
           usage == w.usage
           u == usage.n
           t == Normalized(price)
           lines == PricingLines(price, usage)
<1>1. IsPrice(price) /\ Len(price.tiers) \in Nat /\ DOMAIN price.tiers = 1 .. Len(price.tiers)
  <2>1. price \in Range(list)
    OBVIOUS
  <2> HIDE DEF price
  <2> QED
    BY <2>1, PriceIs
<1>2. t # Invalid
  <2>1. ASSUME NEW i \in DOMAIN price.tiers
        PROVE  /\ price.tiers[i].start.shift < WIDTH
               /\ price.tiers[i].units * NANOS + price.tiers[i].nanos < Pow2[WIDTH]
    BY <1>1, ModerateIs
  <2> QED
    BY <2>1, RegularNormalizes
<1>3. PICK n, free, m : TiersOf(price, t, free) /\ Sliced(price, usage, lines, t, n, m)
  BY <1>2, CutsAre
<1>4. lines = [k \in DOMAIN lines |-> lines[k]]
  BY <1>2 DEF PricingLines, Slices
<1> HIDE DEF t, lines
<1>5. /\ Tiered(t, n) /\ n \in Nat /\ m \in 1 .. n /\ DOMAIN lines = 1 .. m
      /\ n <= Len(price.tiers) + 1
  BY <1>1, <1>3 DEF Sliced, Tiered, TiersOf
<1>6. u \in Nat /\ u > 0 /\ usage.d \in Nat /\ usage.d > 0
  BY DEF Rational, IsReduced
<1>7. \A k \in 1 .. n : /\ t[k].start \in Rational /\ t[k].start.n \in Nat /\ t[k].start.d \in Nat
                         /\ t[k].nanos \in Nat /\ t[k].base \in Nat
  BY <1>5, MonthFits DEF Tiered, Word, Rational
<1>8. ASSUME NEW k \in 1 .. n
      PROVE  /\ \E j \in Nat : t[k].start.d = Pow2[j] /\ u * Pow2[j] < Pow2[WIDTH]
             /\ ((t[k].nanos * u) \div MICRO + 1) * p < Pow2[WIDTH]
  BY <1>3, <1>5, TiersFit
<1>9. ASSUME NEW k \in 1 .. m
      PROVE  /\ lines[k] \in PricingLine /\ lines[k].sku = price.sku
             /\ lines[k].start = t[k].base /\ lines[k].subtotal * p < Pow2[WIDTH]
  <2> DEFINE b == t[k].start
             a == IF k < m THEN t[k + 1].start ELSE usage
             q == Subtract(a, b)
  <2>1. k \in 1 .. n /\ (k < m => k + 1 \in 1 .. n /\ k + 1 \in 1 .. m /\ k < k + 1)
    BY <1>5
  <2>2. lines[k] = LineForTier(price, t[k], q)
    BY <1>3 DEF Sliced
  <2>3. Less(b, a)
    <3>1. CASE k < m
      BY <1>5, <2>1, <3>1 DEF Tiered
    <3>2. CASE ~(k < m)
      BY <1>3, <3>2 DEF Sliced
    <3> QED
      BY <3>1, <3>2
  <2>4. a.n <= u * a.d
    <3>1. CASE k < m
      <4> DEFINE c == t[k + 1].start
      <4>1. Less(c, usage)
        BY <1>3, <2>1, <3>1 DEF Sliced
      <4>2. c.n \in Nat /\ c.d \in Nat
        BY <1>7, <2>1, <3>1
      <4> HIDE DEF c
      <4>3. c.n * usage.d < u * c.d
        BY <4>1 DEF Less
      <4>4. c.n <= c.n * usage.d
        BY <1>6, <4>2
      <4>5. c.n * usage.d \in Nat /\ u * c.d \in Nat
        BY <1>6, <4>2
      <4>6. c.n <= u * c.d
        BY <4>2, <4>3, <4>4, <4>5
      <4> QED
        BY <3>1, <4>6 DEF c
    <3>2. CASE ~(k < m)
      <4>1. u <= u * usage.d
        BY <1>6
      <4> QED
        BY <3>2, <4>1
    <3> QED
      BY <3>1, <3>2
  <2>5. \E j \in Nat : a.d = Pow2[j] /\ u * Pow2[j] < Pow2[WIDTH]
    <3>1. CASE k < m
      BY <1>8, <2>1, <3>1
    <3>2. CASE ~(k < m)
      <4>1. usage.d = Pow2[0] \/ usage.d = Pow2[1]
        BY SmallPowers
      <4>2. a = usage
        BY <3>2
      <4> HIDE DEF a
      <4> QED
        BY <4>1, <4>2
    <3> QED
      BY <3>1, <3>2
  <2>6. a \in Rational /\ b \in Rational
    BY <1>7, <2>1
  <2> HIDE DEF a, b
  <2>7. q \in Rational /\ q # Invalid /\ IsReduced(q) /\ q.n <= u * q.d
    <3>1. PICK j \in Nat : a.d = Pow2[j] /\ u * Pow2[j] < Pow2[WIDTH]
      BY <2>5
    <3>2. PICK i \in Nat : b.d = Pow2[i] /\ u * Pow2[i] < Pow2[WIDTH]
      BY <1>8, <2>1 DEF b
    <3> HIDE DEF u
    <3>3. u \in Nat
      BY <1>6
    <3> QED
      BY <2>3, <2>4, <2>6, <3>1, <3>2, <3>3, PowersSliceFits
  <2> HIDE DEF q
  <2>8. /\ Subtotal(t[k].nanos, q) \in Nat
        /\ Subtotal(t[k].nanos, q) * p < Pow2[WIDTH]
    <3> HIDE DEF u
    <3> QED
      BY <1>6, <1>7, <1>8, <2>1, <2>7, SubtotalFits
  <2>9. lines[k] = [sku |-> price.sku, start |-> t[k].base, usage |-> q, nanos |-> t[k].nanos,
                    safe |-> price.safe, subtotal |-> Subtotal(t[k].nanos, q)]
    BY <2>2, <2>7 DEF LineForTier
  <2>10. price.sku \in Int /\ price.safe \in BOOLEAN
    BY <1>1 DEF IsPrice
  <2>11. q \in Amount
    BY <2>7 DEF Rational, Amount
  <2> HIDE DEF price
  <2> QED
    BY <1>7, <2>1, <2>8, <2>9, <2>10, <2>11 DEF PricingLine
<1>10. lines \in Seq(PricingLine) /\ Len(lines) = m
  <2>1. lines \in [1 .. m -> PricingLine]
    BY <1>4, <1>5, <1>9
  <2> QED
    BY <1>5, <2>1
<1>11. ASSUME NEW k \in 1 .. m, NEW l \in 1 .. m, lines[k].start = lines[l].start PROVE k = l
  <2>1. t[k].base = t[l].base /\ t[k].base \in Nat /\ k \in 1 .. n /\ l \in 1 .. n
    BY <1>5, <1>7, <1>9, <1>11
  <2>2. ~(k < l) /\ ~(l < k)
    BY <1>5, <2>1 DEF Tiered
  <2> QED
    BY <2>2
<1>12. LinesFit(w, lines, p)
  <2>1. m <= Len(w.price.tiers) + 1
    BY <1>1, <1>5
  <2> QED
    BY <1>5, <1>9, <1>10, <1>11, <2>1 DEF LinesFit
<1> QED
  BY <1>12 DEF lines

\* At most p amounts, p times each of which is at most b, add up to at most b.
LEMMA SumFits ==
  ASSUME NEW S, IsFiniteSet(S), NEW f \in [S -> Nat], NEW p \in Nat, NEW b \in Nat, p > 0,
         Cardinality(S) <= p, \A x \in S : f[x] * p <= b
  PROVE  SumOf(f) <= b
<1>1. PICK h : AddsUp(f, S, h) /\ SumOf(f) = h[S]
  BY SumIs
<1> DEFINE N(T) == Cardinality(T)
           P == {T \in SUBSET S : h[T] * p <= b * N(T)}
<1>2. {} \in P
  <2>1. h[{}] * p = 0 /\ b * N({}) = 0
    BY <1>1, FS_EmptySet DEF AddsUp
  <2> QED
    BY <2>1
<1>3. ASSUME NEW T \in SUBSET S, T # {}, \A x \in T : T \ {x} \in P PROVE T \in P
  <2>1. PICK x \in T : TRUE
    BY <1>3
  <2> DEFINE U == T \ {x}
  <2>2. h[T] = f[x] + h[U] /\ h[U] \in Int /\ f[x] \in Nat /\ f[x] * p <= b
    BY <1>1 DEF AddsUp
  <2>3. h[U] * p <= b * N(U)
    BY <1>3
  <2>4. N(T) \in Nat /\ N(U) \in Nat /\ N(T) = N(U) + 1
    <3>1. IsFiniteSet(T)
      BY FS_Subset
    <3>2. IsFiniteSet(U) /\ N(U) = N(T) - 1
      BY <2>1, <3>1, FS_RemoveElement
    <3> QED
      BY <3>1, <3>2, FS_CardinalityType
  <2>5. h[T] * p <= b * N(T)
    <3> DEFINE v == f[x]
               y == h[U]
               k == N(U)
    <3>1. v \in Nat /\ y \in Int /\ k \in Nat /\ v * p <= b /\ y * p <= b * k
      BY <2>2, <2>3, <2>4
    <3> HIDE DEF v, y, k
    <3>2. (v + y) * p = v * p + y * p /\ b * (k + 1) = b * k + b
      BY <3>1
    <3>3. v * p \in Nat /\ y * p \in Int /\ b * k \in Nat
      BY <3>1
    <3>4. (v + y) * p <= b * (k + 1)
      BY <3>1, <3>2, <3>3
    <3> QED
      BY <2>2, <2>4, <3>4 DEF v, y, k
  <2> QED
    BY <2>5
<1>4. S \in P
  <2> HIDE DEF P
  <2> QED
    BY <1>2, <1>3, FiniteInduction
<1> DEFINE s == SumOf(f)
           n == N(S)
<1>5. s \in Nat /\ n \in Nat /\ n <= p /\ s * p <= b * n
  BY <1>1, <1>4, SumIsNat, FS_CardinalityType
<1> HIDE DEF s, n
<1>6. s * p <= b * p
  <2>1. b * n <= b * p
    <3>1. CASE b > 0
      <4>1. n * b <= p * b
        BY <1>5, <3>1, FactorsAre
      <4> QED
        BY <1>5, <4>1
    <3>2. CASE b = 0
      BY <1>5, <3>2
    <3> QED
      BY <3>1, <3>2
  <2>2. s * p \in Nat /\ b * n \in Nat /\ b * p \in Nat
    BY <1>5
  <2> QED
    BY <1>5, <2>1, <2>2
<1>7. s <= b
  BY <1>5, <1>6, FactorsAre
<1> QED
  BY <1>7 DEF s

\* Two sets together have at most the elements of both.
LEMMA UnionIsCounted ==
  ASSUME NEW A, IsFiniteSet(A), NEW a \in Nat, Cardinality(A) <= a,
         NEW B, IsFiniteSet(B), NEW b \in Nat, Cardinality(B) <= b
  PROVE  IsFiniteSet(A \cup B) /\ Cardinality(A \cup B) <= a + b
<1>1. /\ IsFiniteSet(A \cup B)
      /\ Cardinality(A \cup B) = Cardinality(A) + Cardinality(B) - Cardinality(A \cap B)
  BY FS_Union
<1>2. IsFiniteSet(A \cap B)
  BY FS_Intersection
<1>3. Cardinality(A) \in Nat /\ Cardinality(B) \in Nat /\ Cardinality(A \cap B) \in Nat
  BY <1>2, FS_CardinalityType
<1> QED
  BY <1>1, <1>3

\* What is in good order is priced.
LEMMA PricedIsQuoted ==
  ASSUME NEW c \in Configs, NEW list \in Catalogues, Priced(c, list)
  PROVE  Quote(c, list) # Invalid
<1> DEFINE wanted == Quantities(c, list)
           W(i) == Wanted(c, list, i)
           L(i) == LinesOf(c, list, i)
           N(i) == Len(wanted[i].price.tiers) + 1
           p == SumOf([i \in 1 .. 4 |-> N(i)])
           parts == PricedParts(wanted)
           pieces == Pieces(parts)
<1>1. DOMAIN wanted = 1 .. 4 /\ \A i \in 1 .. 4 : W(i) = wanted[i]
  BY QuantitiesAre DEF Wanted
<1>2. ASSUME NEW i \in 1 .. 4
      PROVE  /\ W(i).price \in Range(list) /\ W(i).price # Invalid
             /\ W(i).usage \in Rational /\ W(i).usage # Invalid /\ IsReduced(W(i).usage)
             /\ W(i).usage.d \in {1, 2} /\ W(i).usage.n * W(i).usage.d < Pow2[WIDTH]
             /\ Regular(W(i).price) /\ Moderate(W(i), p) /\ N(i) \in Nat /\ N(i) > 0
  <2>1. /\ W(i).price \in Range(list) /\ W(i).price # Invalid
        /\ W(i).usage \in Rational /\ W(i).usage # Invalid /\ IsReduced(W(i).usage)
        /\ W(i).usage.d \in {1, 2} /\ W(i).usage.n * W(i).usage.d < Pow2[WIDTH]
    BY SelectionFits
  <2>2. Regular(W(i).price) /\ Moderate(W(i), p)
    BY <1>1 DEF Priced
  <2>3. Len(W(i).price.tiers) \in Nat
    BY <2>1, PriceIs
  <2>4. N(i) = Len(W(i).price.tiers) + 1
    BY <1>1
  <2> HIDE DEF W, N, p
  <2> QED
    BY <2>1, <2>2, <2>3, <2>4
<1>3. p \in Nat /\ p > 0 /\ p = N(1) + N(2) + N(3) + N(4)
  <2> DEFINE f == [i \in 1 .. 4 |-> N(i)]
  <2> HIDE DEF N
  <2>1. f \in [1 .. 4 -> Int] /\ f[1] = N(1) /\ f[2] = N(2) /\ f[3] = N(3) /\ f[4] = N(4)
    BY <1>2
  <2> HIDE DEF f
  <2>2. SumOf(f) = N(1) + N(2) + N(3) + N(4)
    BY <2>1, SumOfFour
  <2> QED
    BY <1>2, <2>2 DEF f
<1> HIDE DEF p, N
<1>4. ASSUME NEW i \in 1 .. 4
      PROVE  /\ LinesFit(W(i), L(i), p) /\ L(i) \in Seq(PricingLine)
             /\ DOMAIN L(i) = 1 .. Len(L(i)) /\ Len(L(i)) \in Nat /\ Len(L(i)) <= N(i)
  <2>1. LinesFit(W(i), L(i), p)
    <3> DEFINE w == W(i)
    <3> HIDE DEF w
    <3>1. LinesFit(w, PricingLines(w.price, w.usage), p)
      BY <1>2, <1>3, PartFits DEF w
    <3> QED
      BY <3>1 DEF LinesOf, w
  <2>2. L(i) \in Seq(PricingLine) /\ Len(L(i)) <= N(i)
    BY <1>1, <2>1 DEF LinesFit, N
  <2> HIDE DEF L, W
  <2> QED
    BY <2>1, <2>2
<1>5. ASSUME NEW i \in 1 .. 4, NEW k \in DOMAIN L(i)
      PROVE  /\ L(i)[k] \in PricingLine /\ L(i)[k].sku = W(i).price.sku
             /\ L(i)[k].subtotal \in Nat /\ L(i)[k].subtotal # Invalid
             /\ L(i)[k].subtotal * p < Pow2[WIDTH]
  <2>1. L(i)[k].sku = W(i).price.sku /\ L(i)[k].subtotal * p < Pow2[WIDTH]
    BY <1>4 DEF LinesFit
  <2>2. L(i)[k] \in PricingLine
    <3>1. L(i) \in Seq(PricingLine) /\ k \in 1 .. Len(L(i))
      BY <1>4
    <3> HIDE DEF L
    <3> QED
      BY <3>1
  <2>3. L(i)[k].subtotal \in Nat
    BY <2>2 DEF PricingLine
  <2> QED
    BY <2>1, <2>2, <2>3, InvalidAssumption
<1>6. /\ DOMAIN parts = 1 .. 4 /\ \A i \in 1 .. 4 : parts[i] = L(i) /\ parts[i] # Invalid
      /\ Invalid \notin Range(parts)
  <2>1. DOMAIN parts = 1 .. 4
    BY <1>1 DEF PricedParts
  <2>2. ASSUME NEW i \in 1 .. 4 PROVE parts[i] = L(i)
    <3>1. parts[i] = IF Invalid \in {wanted[i].price, wanted[i].usage} THEN Invalid
                     ELSE PricingLines(wanted[i].price, wanted[i].usage)
      BY <1>1 DEF PricedParts
    <3>2. wanted[i].price # Invalid /\ wanted[i].usage # Invalid
      BY <1>1, <1>2
    <3> HIDE DEF wanted, parts
    <3>3. parts[i] = PricingLines(wanted[i].price, wanted[i].usage)
      BY <3>1, <3>2
    <3> QED
      BY <1>1, <3>3 DEF LinesOf
  <2>3. \A i \in 1 .. 4 : parts[i] # Invalid
    BY <1>4, <2>2, InvalidAssumption
  <2> HIDE DEF parts
  <2> QED
    BY <2>1, <2>2, <2>3 DEF Range
<1>7. /\ \A i \in 1 .. 4 : \A k \in DOMAIN L(i) :
           <<i, k>> \in DOMAIN pieces /\ pieces[<<i, k>>] = L(i)[k]
      /\ \A at \in DOMAIN pieces : \E i \in 1 .. 4 : \E k \in DOMAIN L(i) : at = <<i, k>>
  <2>1. /\ \A i \in DOMAIN parts : \A k \in DOMAIN parts[i] :
             <<i, k>> \in DOMAIN pieces /\ pieces[<<i, k>>] = parts[i][k]
        /\ \A at \in DOMAIN pieces :
             \E i \in DOMAIN parts : \E k \in DOMAIN parts[i] : at = <<i, k>>
    BY PiecesAre
  <2> HIDE DEF parts, pieces, L
  <2> QED
    BY <1>6, <2>1
<1>8. ASSUME NEW at \in DOMAIN pieces
      PROVE  \E i \in 1 .. 4 : \E k \in DOMAIN L(i) : at = <<i, k>> /\ pieces[at] = L(i)[k]
  BY <1>7
<1> HIDE DEF parts, pieces
<1>9. \A at \in DOMAIN pieces : pieces[at].subtotal # Invalid
  BY <1>5, <1>8
<1>10. IsInjective(pieces)
  <2> SUFFICES ASSUME NEW x \in DOMAIN pieces, NEW y \in DOMAIN pieces, pieces[x] = pieces[y]
               PROVE  x = y
    BY DEF IsInjective
  <2>1. PICK i \in 1 .. 4 : \E k \in DOMAIN L(i) : x = <<i, k>> /\ pieces[x] = L(i)[k]
    BY <1>8
  <2>2. PICK k \in DOMAIN L(i) : x = <<i, k>> /\ pieces[x] = L(i)[k]
    BY <2>1
  <2>3. PICK j \in 1 .. 4 : \E l \in DOMAIN L(j) : y = <<j, l>> /\ pieces[y] = L(j)[l]
    BY <1>8
  <2>4. PICK l \in DOMAIN L(j) : y = <<j, l>> /\ pieces[y] = L(j)[l]
    BY <2>3
  <2>5. L(i)[k] = L(j)[l]
    BY <2>2, <2>4
  <2>6. i = j
    <3>1. W(i).price.sku = W(j).price.sku
      BY <1>5, <2>5
    <3>2. ~(Cardinality({w.price.sku : w \in Range(Quantities(c, list))}) < 4)
      BY DEF Priced
    <3> QED
      BY <3>1, <3>2, SkusAre
  <2>7. k = l
    BY <1>4, <2>5, <2>6 DEF LinesFit
  <2> QED
    BY <2>2, <2>4, <2>6, <2>7
<1> DEFINE all == Range(pieces)
<1>11. /\ all = Range(L(1)) \cup Range(L(2)) \cup Range(L(3)) \cup Range(L(4))
       /\ \A line \in all : \E i \in 1 .. 4 : \E k \in DOMAIN L(i) : line = L(i)[k]
  <2>1. ASSUME NEW line \in all PROVE \E i \in 1 .. 4 : \E k \in DOMAIN L(i) : line = L(i)[k]
    BY <1>8 DEF Range
  <2>2. ASSUME NEW i \in 1 .. 4, NEW k \in DOMAIN L(i) PROVE L(i)[k] \in all
    BY <1>7 DEF Range
  <2>3. 1 .. 4 = {1, 2, 3, 4}
    OBVIOUS
  <2> HIDE DEF all, L
  <2>4. all \subseteq Range(L(1)) \cup Range(L(2)) \cup Range(L(3)) \cup Range(L(4))
    BY <2>1, <2>3 DEF Range
  <2>5. Range(L(1)) \cup Range(L(2)) \cup Range(L(3)) \cup Range(L(4)) \subseteq all
    BY <2>2, <2>3 DEF Range
  <2> QED
    BY <2>1, <2>4, <2>5
<1>12. IsFiniteSet(all) /\ Cardinality(all) <= p
  <2> DEFINE R(i) == Range(L(i))
  <2>1. ASSUME NEW i \in 1 .. 4 PROVE IsFiniteSet(R(i)) /\ Cardinality(R(i)) <= N(i) /\ N(i) \in Nat
    <3>1. /\ IsFiniteSet(R(i)) /\ Cardinality(R(i)) \in Nat /\ Cardinality(R(i)) <= Len(L(i))
          /\ Len(L(i)) \in Nat /\ Len(L(i)) <= N(i)
      BY <1>4, LinesAreCounted
    <3>2. N(i) \in Nat
      BY <1>2
    <3> HIDE DEF R, L
    <3> QED
      BY <3>1, <3>2
  <2>2. 1 \in 1 .. 4 /\ 2 \in 1 .. 4 /\ 3 \in 1 .. 4 /\ 4 \in 1 .. 4
    OBVIOUS
  <2> HIDE DEF R
  <2>3. IsFiniteSet(R(1) \cup R(2)) /\ Cardinality(R(1) \cup R(2)) <= N(1) + N(2)
    BY <2>1, <2>2, UnionIsCounted
  <2>4. IsFiniteSet(R(1) \cup R(2) \cup R(3))
        /\ Cardinality(R(1) \cup R(2) \cup R(3)) <= N(1) + N(2) + N(3)
    <3>1. N(1) + N(2) \in Nat
      BY <2>1, <2>2
    <3> QED
      BY <2>1, <2>2, <2>3, <3>1, UnionIsCounted
  <2>5. IsFiniteSet(R(1) \cup R(2) \cup R(3) \cup R(4))
        /\ Cardinality(R(1) \cup R(2) \cup R(3) \cup R(4)) <= N(1) + N(2) + N(3) + N(4)
    <3>1. N(1) + N(2) + N(3) \in Nat
      BY <2>1, <2>2
    <3> QED
      BY <2>1, <2>2, <2>4, <3>1, UnionIsCounted
  <2>6. all = R(1) \cup R(2) \cup R(3) \cup R(4)
    BY <1>11 DEF R
  <2> HIDE DEF all
  <2> QED
    BY <1>3, <2>5, <2>6
<1>13. \A line \in all : /\ line \in PricingLine /\ line.subtotal \in Nat
                          /\ line.subtotal * p < Pow2[WIDTH]
  BY <1>5, <1>11
<1> HIDE DEF all
<1>14. Total(all) \in Nat /\ Total(all) < Pow2[WIDTH]
  <2> DEFINE f == [line \in all |-> line.subtotal]
             b == Pow2[WIDTH] - 1
  <2>1. f \in [all -> Nat]
    BY <1>13
  <2>2. b \in Nat /\ \A x \in all : f[x] * p <= b
    <3>1. Pow2[WIDTH] \in Nat /\ Pow2[WIDTH] > 0
      BY MonthFits
    <3>2. ASSUME NEW x \in all PROVE f[x] * p <= b
      <4> DEFINE v == x.subtotal
      <4>1. v \in Nat /\ v * p < Pow2[WIDTH] /\ f[x] = v
        BY <1>13
      <4> HIDE DEF v, f
      <4>2. v * p \in Nat
        BY <1>3, <4>1
      <4> QED
        BY <3>1, <4>1, <4>2
    <3> QED
      BY <3>1, <3>2
  <2> HIDE DEF f, b
  <2>3. SumOf(f) \in Nat /\ SumOf(f) <= b
    BY <1>3, <1>12, <2>1, <2>2, SumFits, SumIsNat
  <2>4. Pow2[WIDTH] \in Nat
    BY MonthFits
  <2> QED
    BY <2>3, <2>4 DEF Total, f, b
<1>15. Checked(Total(all)) # Invalid
  BY <1>14, InvalidAssumption DEF Checked
<1>16. Quote(c, list) = [lines |-> all, total |-> Total(all)]
  <2>1. Quote(c, list) = QuoteParts(parts)
    <3>1. c.balanced
      BY DEF Priced
    <3> QED
      BY <3>1 DEF Quote, parts
  <2>2. QuoteParts(parts) = QuoteLines(pieces)
    BY <1>6 DEF QuoteParts, pieces
  <2>3. QuoteLines(pieces) = [lines |-> all, total |-> Total(all)]
    BY <1>9, <1>10, <1>15 DEF QuoteLines, all
  <2> QED
    BY <2>1, <2>2, <2>3
<1>17. [lines |-> all, total |-> Total(all)] \in PricingQuoteType
  BY <1>13, <1>14 DEF PricingQuoteType
<1> QED
  BY <1>16, <1>17, InvalidAssumption

(* A catalogue in good order is never refused: where a single SKU is found  *)
(* for each exact description and some SKU for each search, no SKU twice,   *)
(* each with increasing tiers that start on base-unit boundaries and with   *)
(* a month whose numbers fit the width, the estimate returns a quote.       *)
THEOREM RegularIsQuoted == Spec => []QuotedWhenRegular
<1>1. Inv => QuotedWhenRegular
  <2> SUFFICES ASSUME Inv, stage = "refused", Priced(config, prices) PROVE FALSE
    BY DEF QuotedWhenRegular
  <2>1. config \in Configs /\ prices \in Catalogues /\ Quote(config, prices) = Invalid
    BY DEF Inv, Inputs, QuoteOfInputs
  <2> QED
    BY <2>1, PricedIsQuoted
<1> QED
  BY <1>1, InvariantHolds, PTL

=============================================================================
