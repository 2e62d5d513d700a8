----------------------------- MODULE Induction -----------------------------
(***************************************************************************)
(* Induction over the natural numbers, stated for sets: the provers do not *)
(* instantiate an operator, but they do a set.  To prove P(n) for every n  *)
(* one shows that the set {n \in Nat : P(n)} has 0 and the successor of    *)
(* each of its elements.  With it: the arithmetic of quotients.            *)
(***************************************************************************)
EXTENDS Integers, WellFoundedInduction, NaturalsInduction, TLAPS

(* A set of numbers that is not empty has a least element.                 *)
LEMMA LeastElement ==
  ASSUME NEW T \in SUBSET Nat, T # {}
  PROVE  \E m \in T : \A k \in T : m <= k
<1> DEFINE R == {ss \in Nat \X Nat : ss[1] < ss[2]}
<1>1. IsWellFoundedOn(R, Nat)
  BY NatLessThanWellFounded DEF OpToRel
<1>2. PICK m \in T : \A k \in T : <<k, m>> \notin R
  <2> HIDE DEF R
  <2> QED
    BY <1>1, WFMin
<1>3. ASSUME NEW k \in T PROVE m <= k
  <2>1. <<k, m>> \in Nat \X Nat /\ <<k, m>>[1] = k /\ <<k, m>>[2] = m
    OBVIOUS
  <2>2. ~(<<k, m>>[1] < <<k, m>>[2])
    BY <1>2, <2>1
  <2> QED
    BY <2>1, <2>2
<1> QED
  BY <1>3

(* A set that has 0, and with a number the next one, has all.              *)
LEMMA SetInduction ==
  ASSUME NEW T, 0 \in T, \A n \in Nat : n \in T => n + 1 \in T
  PROVE  Nat \subseteq T
<1> SUFFICES ASSUME ~(Nat \subseteq T) PROVE FALSE
  OBVIOUS
<1> DEFINE U == Nat \ T
<1>1. PICK m \in U : \A k \in U : m <= k
  <2>1. U \in SUBSET Nat /\ U # {}
    OBVIOUS
  <2> HIDE DEF U
  <2> QED
    BY <2>1, LeastElement
<1>2. m # 0 /\ m - 1 \in Nat /\ m - 1 \notin U
  BY <1>1
<1>3. m - 1 \in T
  BY <1>2
<1>4. m - 1 + 1 \in T
  BY <1>2, <1>3
<1> QED
  BY <1>1, <1>4

(* A set that has each number if it has all the smaller ones, has all.     *)
LEMMA StrongInduction ==
  ASSUME NEW T, \A n \in Nat : (\A m \in 0 .. n - 1 : m \in T) => n \in T
  PROVE  Nat \subseteq T
<1> SUFFICES ASSUME ~(Nat \subseteq T) PROVE FALSE
  OBVIOUS
<1> DEFINE U == Nat \ T
<1>1. PICK n \in U : \A k \in U : n <= k
  <2>1. U \in SUBSET Nat /\ U # {}
    OBVIOUS
  <2> HIDE DEF U
  <2> QED
    BY <2>1, LeastElement
<1>2. \A m \in 0 .. n - 1 : m \in T
  BY <1>1
<1> QED
  BY <1>1, <1>2

-----------------------------------------------------------------------------
(* Quotient and remainder are what division gives, and nothing else is.    *)
LEMMA DivMod ==
  ASSUME NEW a \in Nat, NEW d \in Nat \ {0}
  PROVE  /\ a \div d \in Nat /\ a % d \in 0 .. d - 1
         /\ a = d * (a \div d) + (a % d)
OBVIOUS

LEMMA ProductOfNats ==
  ASSUME NEW a \in Nat, NEW b \in Nat
  PROVE  a * b \in Nat
OBVIOUS

LEMMA ProductMonotone ==
  ASSUME NEW a \in Nat, NEW b \in Nat, NEW d \in Nat, a <= b
  PROVE  d * a <= d * b
<1>1. b - a \in Nat
  OBVIOUS
<1>2. d * (b - a) \in Nat
  BY <1>1, ProductOfNats
<1>3. d * b = d * a + d * (b - a)
  OBVIOUS
<1>4. d * a \in Nat
  BY ProductOfNats
<1> QED
  BY <1>2, <1>3, <1>4

(* A quotient: how much it is at most.                                     *)
LEMMA QuotientBelow ==
  ASSUME NEW a \in Nat, NEW d \in Nat \ {0}
  PROVE  \E q \in Nat : q = a \div d /\ q <= a /\ d * q \in Nat /\ d * q <= a
<1> DEFINE q == a \div d
           r == a % d
<1>1. q \in Nat /\ r \in 0 .. d - 1 /\ a = d * q + r
  BY DivMod
<1> HIDE DEF q, r
<1>2. d * q \in Nat
  BY <1>1, ProductOfNats
<1>3. q * 1 <= q * d /\ q * d = d * q
  BY <1>1, ProductMonotone
<1>4. d * q <= a /\ q <= a
  BY <1>1, <1>2, <1>3
<1> QED
  BY <1>1, <1>2, <1>4 DEF q

LEMMA DivModUnique ==
  ASSUME NEW a \in Nat, NEW d \in Nat \ {0}, NEW q \in Nat, NEW r \in 0 .. d - 1,
         a = d * q + r
  PROVE  a \div d = q /\ a % d = r
<1> DEFINE p == a \div d
           s == a % d
<1>1. p \in Nat /\ s \in 0 .. d - 1 /\ a = d * p + s
  BY DivMod
<1> HIDE DEF p, s
<1>2. ASSUME p + 1 <= q PROVE FALSE
  <2>1. d * (p + 1) <= d * q
    BY <1>1, <1>2, ProductMonotone
  <2>2. d * (p + 1) = d * p + d
    BY <1>1
  <2>3. d * p \in Nat /\ d * q \in Nat
    BY <1>1, ProductOfNats
  <2> QED
    BY <1>1, <2>1, <2>2, <2>3
<1>3. ASSUME q + 1 <= p PROVE FALSE
  <2>1. d * (q + 1) <= d * p
    BY <1>1, <1>3, ProductMonotone
  <2>2. d * (q + 1) = d * q + d
    OBVIOUS
  <2>3. d * p \in Nat /\ d * q \in Nat
    BY <1>1, ProductOfNats
  <2> QED
    BY <1>1, <2>1, <2>2, <2>3
<1>4. p = q
  BY <1>1, <1>2, <1>3
<1>5. s = r
  <2>1. d * q \in Nat
    BY ProductOfNats
  <2> QED
    BY <1>1, <1>4, <2>1
<1> QED
  BY <1>4, <1>5 DEF p, s

(* Division by a product: first by the one factor, then by the other.      *)
LEMMA DivByProduct ==
  ASSUME NEW a \in Nat, NEW c \in Nat \ {0}, NEW s \in Nat \ {0}
  PROVE  /\ c * s \in Nat \ {0}
         /\ a \div (c * s) = (a \div s) \div c
         /\ a % (c * s) = s * ((a \div s) % c) + (a % s)
         /\ (a % (c * s)) \div s = (a \div s) % c
<1> DEFINE q == a \div s
           r == a % s
           p == q \div c
           t == q % c
<1>1. q \in Nat /\ r \in 0 .. s - 1 /\ a = s * q + r
  BY DivMod
<1>2. p \in Nat /\ t \in 0 .. c - 1 /\ q = c * p + t
  <2> HIDE DEF q
  <2> QED
    BY <1>1, DivMod
<1> HIDE DEF q, r, p, t
<1>3. c * s \in Nat \ {0}
  OBVIOUS
<1>4. s * t + r \in 0 .. c * s - 1
  <2>1. s * (t + 1) <= s * c
    BY <1>2, ProductMonotone
  <2>2. s * (t + 1) = s * t + s /\ s * c = c * s /\ s * t \in Nat
    BY <1>2
  <2> QED
    BY <1>1, <1>3, <2>1, <2>2
<1>5. a = (c * s) * p + (s * t + r)
  BY <1>1, <1>2
<1>6. a \div (c * s) = p /\ a % (c * s) = s * t + r
  <2> DEFINE d == c * s
             u == s * t + r
  <2>1. d \in Nat \ {0} /\ u \in 0 .. d - 1 /\ a = d * p + u
    BY <1>3, <1>4, <1>5
  <2> HIDE DEF d, u
  <2>2. a \div d = p /\ a % d = u
    BY <1>2, <2>1, DivModUnique
  <2> QED
    BY <2>2 DEF d, u
<1>7. (s * t + r) \div s = t
  <2> DEFINE u == s * t + r
  <2>1. u \in Nat /\ u = s * t + r
    BY <1>1, <1>2
  <2> HIDE DEF u
  <2>2. u \div s = t
    BY <1>1, <1>2, <2>1, DivModUnique
  <2> QED
    BY <2>2 DEF u
<1>8. a \div (c * s) = (a \div s) \div c
  BY <1>6 DEF q, p
<1>9. a % (c * s) = s * ((a \div s) % c) + (a % s)
  BY <1>6 DEF q, r, t
<1>10. (a % (c * s)) \div s = (a \div s) % c
  BY <1>6, <1>7, Zenon DEF q, t
<1> QED
  BY <1>3, <1>8, <1>9, <1>10

(* Adding to a number, and the quotient it has.                            *)
LEMMA StepInside ==
  ASSUME NEW d \in Nat \ {0}, NEW a \in Nat, NEW n \in Nat
  PROVE  /\ (a % d) + n < d => (a + n) \div d = a \div d /\ (a + n) % d = (a % d) + n
         /\ (a % d) + n = d => (a + n) \div d = a \div d + 1 /\ (a + n) % d = 0
         /\ n > 0 /\ (a % d) + n <= d => (a + n - 1) \div d = a \div d
<1> DEFINE q == a \div d
           r == a % d
<1>1. q \in Nat /\ r \in 0 .. d - 1 /\ a = d * q + r
  BY DivMod
<1> HIDE DEF q, r
<1>2. ASSUME NEW m \in Nat, r + m < d
      PROVE  (a + m) \div d = q /\ (a + m) % d = r + m
  <2> DEFINE b == a + m
             s == r + m
  <2>1. b \in Nat /\ s \in 0 .. d - 1 /\ b = d * q + s
    <3>1. d * q \in Nat
      BY <1>1, ProductOfNats
    <3> QED
      BY <1>1, <1>2, <3>1
  <2> HIDE DEF b, s
  <2>2. b \div d = q /\ b % d = s
    BY <1>1, <2>1, DivModUnique
  <2> QED
    BY <2>2 DEF b, s
<1>3. ASSUME r + n = d PROVE (a + n) \div d = q + 1 /\ (a + n) % d = 0
  <2> DEFINE b == a + n
             p == q + 1
  <2>1. d * p = d * q + d /\ d * q \in Nat
    BY <1>1, ProductOfNats
  <2>2. b \in Nat /\ p \in Nat /\ 0 \in 0 .. d - 1 /\ b = d * p + 0
    BY <1>1, <1>3, <2>1
  <2> HIDE DEF b, p
  <2>3. b \div d = p /\ b % d = 0
    BY <2>2, DivModUnique
  <2> QED
    BY <2>3 DEF b, p
<1>4. ASSUME n > 0, r + n <= d PROVE (a + n - 1) \div d = q
  <2>1. n - 1 \in Nat /\ r + (n - 1) < d /\ a + n - 1 = a + (n - 1)
    BY <1>1, <1>4
  <2>2. (a + (n - 1)) \div d = q
    BY <1>2, <2>1
  <2> QED
    BY <2>1, <2>2
<1> QED
  BY <1>2, <1>3, <1>4 DEF q, r

LEMMA NotOnBoundary ==
  ASSUME NEW d \in Nat \ {0}, NEW a \in Nat, a % d # 0
  PROVE  a > 0 /\ (a - 1) \div d = a \div d
<1> DEFINE q == a \div d
           r == a % d
<1>1. q \in Nat /\ r \in 0 .. d - 1 /\ a = d * q + r /\ r # 0
  BY DivMod
<1> HIDE DEF q, r
<1> DEFINE b == a - 1
           s == r - 1
<1>2. d * q \in Nat
  BY <1>1, ProductOfNats
<1>3. b \in Nat /\ s \in 0 .. d - 1 /\ b = d * q + s
  BY <1>1, <1>2
<1> HIDE DEF b, s
<1>4. b \div d = q
  BY <1>1, <1>3, DivModUnique
<1>5. a > 0
  BY <1>1, <1>2
<1> QED
  BY <1>4, <1>5 DEF b, q

LEMMA OnBoundary ==
  ASSUME NEW d \in Nat \ {0}, NEW a \in Nat, a % d = 0, a > 0
  PROVE  (a - 1) \div d + 1 = a \div d
<1> DEFINE q == a \div d
           b == a - 1
           p == q - 1
           s == d - 1
<1>1. q \in Nat /\ a = d * q
  BY DivMod
<1> HIDE DEF q
<1>2. q # 0
  BY <1>1
<1>3. d * p = d * q - d
  BY <1>1
<1>4. b \in Nat /\ p \in Nat /\ s \in 0 .. d - 1 /\ b = d * p + s
  BY <1>1, <1>2, <1>3
<1> HIDE DEF b, p, s
<1>5. b \div d = p
  BY <1>4, DivModUnique
<1> QED
  BY <1>1, <1>5 DEF b, p, q

LEMMA Multiples ==
  ASSUME NEW d \in Nat \ {0}, NEW a \in Nat, NEW b \in Nat, a % d = 0
  PROVE  /\ (a + b) % d = b % d
         /\ (a + b) \div d = a \div d + b \div d
<1> DEFINE p == a \div d
           q == b \div d
           r == b % d
           c == a + b
           t == p + q
<1>1. p \in Nat /\ a = d * p
  BY DivMod
<1>2. q \in Nat /\ r \in 0 .. d - 1 /\ b = d * q + r
  BY DivMod
<1> HIDE DEF p, q, r
<1>3. d * t = d * p + d * q
  BY <1>1, <1>2
<1>4. d * p \in Nat /\ d * q \in Nat
  BY <1>1, <1>2, ProductOfNats
<1>5. c \in Nat /\ t \in Nat /\ c = d * t + r
  BY <1>1, <1>2, <1>3, <1>4
<1> HIDE DEF c, t
<1>6. c \div d = t /\ c % d = r
  BY <1>2, <1>5, DivModUnique
<1> QED
  BY <1>6 DEF c, t, p, q, r

(* Rounding down to a multiple, below a number with no smaller quotient.   *)
LEMMA RoundedDown ==
  ASSUME NEW d \in Nat \ {0}, NEW b \in Nat, NEW a \in Nat, a \div d >= b \div d
  PROVE  LET c == b - (b % d)
         IN  c \in Nat /\ c % d = 0 /\ c \div d = b \div d /\ c <= a
<1> DEFINE q == b \div d
           p == a \div d
           c == b - (b % d)
<1>1. q \in Nat /\ b = d * q + (b % d) /\ b % d \in Nat
  BY DivMod
<1>2. p \in Nat /\ a % d \in Nat /\ a = d * p + (a % d)
  BY DivMod
<1>3. q <= p
  OBVIOUS
<1> HIDE DEF q, p
<1>4. d * q \in Nat /\ d * p \in Nat /\ d * q <= d * p
  BY <1>1, <1>2, <1>3, ProductMonotone, ProductOfNats
<1>5. c = d * q + 0 /\ c \in Nat /\ 0 \in 0 .. d - 1
  BY <1>1, <1>4
<1>6. c <= a
  BY <1>2, <1>4, <1>5
<1> HIDE DEF c
<1>7. c \div d = q /\ c % d = 0
  BY <1>1, <1>5, DivModUnique
<1> QED
  BY <1>5, <1>6, <1>7 DEF c, q

(* A number is a multiple of itself.                                       *)
LEMMA MultipleOfItself ==
  ASSUME NEW d \in Nat \ {0}
  PROVE  d % d = 0
<1>1. d \in Nat /\ 1 \in Nat /\ 0 \in 0 .. d - 1 /\ d = d * 1 + 0
  OBVIOUS
<1> QED
  BY <1>1, DivModUnique
=============================================================================
