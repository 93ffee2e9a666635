-------------------------- MODULE ArithmeticFacts --------------------------
(***************************************************************************)
(* Facts about multiplication and division by a page or record size that   *)
(* the proofs about the driver's address arithmetic rest on.               *)
(***************************************************************************)
EXTENDS Integers, WellFoundedInduction, TLAPS

(* Division with remainder by a positive divisor.                          *)
LEMMA DivMod ==
  ASSUME NEW a \in Nat, NEW d \in Nat \ {0}
  PROVE  /\ a \div d \in Nat
         /\ a % d \in 0..d - 1
         /\ a = d * (a \div d) + (a % d)
  BY SMT

(* Multiplication by a positive p spreads integers at least p apart.       *)
LEMMA MulMono ==
  ASSUME NEW p \in Nat \ {0}, NEW a \in Int, NEW b \in Int, a < b
  PROVE  p * a + p <= p * b
  <1> DEFINE d == b - a - 1
  <1>1. p * a + p = p * (a + 1)
    OBVIOUS
  <1>2. p * b = p * (a + 1) + p * d
    OBVIOUS
  <1>3. d \in Nat
    OBVIOUS
  <1> HIDE DEF d
  <1>4. p * d >= 0 /\ p * d \in Int
    BY <1>3
  <1>5. p * a \in Int /\ p * b \in Int /\ p * (a + 1) \in Int
    OBVIOUS
  <1> QED
    BY <1>1, <1>2, <1>4, <1>5

(* A positive factor can be cancelled on both sides of <.                  *)
LEMMA MulCancel ==
  ASSUME NEW p \in Nat \ {0}, NEW a \in Int, NEW b \in Int, p * a < p * b
  PROVE  a < b
  <1> SUFFICES ASSUME b <= a
               PROVE  FALSE
    OBVIOUS
  <1>1. p * a \in Int /\ p * b \in Int
    OBVIOUS
  <1>2. CASE a = b
    BY <1>1, <1>2
  <1>3. CASE b < a
    <2>1. p * b + p <= p * a
      BY <1>3, MulMono
    <2> QED
      BY <2>1, <1>1
  <1> QED
    BY <1>2, <1>3

(***************************************************************************)
(* A run of c bytes at address s touches n pages of p bytes: it begins at  *)
(* offset o of the first and ends in the last, and n exceeds c \div p by   *)
(* at most 2.                                                              *)
(***************************************************************************)
LEMMA Span ==
  ASSUME NEW p \in Nat \ {0}, NEW s \in Nat, NEW c \in Nat \ {0}
  PROVE  LET f == s \div p
             n == (s + c - 1) \div p - f + 1
             o == s % p
         IN  /\ f \in Nat /\ o \in 0..p - 1 /\ s = p * f + o
             /\ n \in Nat \ {0}
             /\ p * (n - 1) < o + c
             /\ o + c <= p * n
             /\ n <= c \div p + 2
  <1> DEFINE f == s \div p
             l == (s + c - 1) \div p
             q == c \div p
             o == s % p
             r == (s + c - 1) % p
             t == c % p
             n == l - f + 1
  <1>1. f \in Nat /\ o \in 0..p - 1 /\ s = p * f + o
    BY DivMod
  <1>2. l \in Nat /\ r \in 0..p - 1 /\ s + c - 1 = p * l + r
    <2>1. s + c - 1 \in Nat
      OBVIOUS
    <2> QED
      BY <2>1, DivMod
  <1>3. q \in Nat /\ t \in 0..p - 1 /\ c = p * q + t
    BY DivMod
  <1> HIDE DEF f, l, q, o, r, t
  <1>4. p * n = p * l - p * f + p /\ p * (n - 1) = p * l - p * f
    BY <1>1, <1>2
  <1>5. p * f \in Int /\ p * l \in Int /\ p * q \in Int /\ p * n \in Int
    BY <1>1, <1>2, <1>3
  <1>6. p * (n - 1) < o + c /\ o + c <= p * n
    BY <1>1, <1>2, <1>4, <1>5
  <1>7. n > 0
    <2>1. p * 0 < p * n
      BY <1>1, <1>6, <1>5
    <2> QED
      BY <2>1, MulCancel, <1>1, <1>2
  <1>8. n < q + 3
    <2>1. p * (q + 3) = p * q + 3 * p
      BY <1>3
    <2>2. p * n < p * (q + 3)
      BY <2>1, <1>1, <1>2, <1>3, <1>4, <1>5
    <2> QED
      BY <2>2, MulCancel, <1>1, <1>2, <1>3
  <1>9. /\ f \in Nat /\ o \in 0..p - 1 /\ s = p * f + o
        /\ n \in Nat \ {0}
        /\ p * (n - 1) < o + c
        /\ o + c <= p * n
        /\ n <= q + 2
    BY <1>1, <1>2, <1>3, <1>6, <1>7, <1>8
  <1> QED
    BY <1>9 DEF f, l, q, o

(* x bytes that fill n - 1 pages of p bytes and end in the n-th: how far   *)
(* the k-th page boundary is from the end.                                 *)
LEMMA PageBoundary ==
  ASSUME NEW p \in Nat \ {0}, NEW n \in Int, NEW k \in Int, NEW x \in Int,
         1 <= k, k <= n - 1, p * (n - 1) < x, x <= p * n
  PROVE  /\ k * p \in Int
         /\ k * p >= p
         /\ k * p < x
         /\ k < n - 1 => k * p + p < x
         /\ ~(k < n - 1) => x <= k * p + p
  <1>1. p * 0 + p <= p * k /\ k * p = p * k
    BY MulMono
  <1>2. k < n - 1 => p * k + p <= p * (n - 1)
    BY MulMono
  <1>3. ~(k < n - 1) => p * n = p * k + p /\ n - 1 = k
    OBVIOUS
  <1>4. p * k \in Int /\ p * n \in Int /\ p * (n - 1) \in Int
    OBVIOUS
  <1> QED
    BY <1>1, <1>2, <1>3, <1>4

(* Quotient and remainder are the only ones.                               *)
LEMMA DivModUnique ==
  ASSUME NEW d \in Nat \ {0}, NEW a \in Nat, NEW q \in Int, NEW r \in 0..d - 1,
         a = d * q + r
  PROVE  a \div d = q /\ a % d = r
  <1> DEFINE e == a \div d
             s == a % d
  <1>1. e \in Nat /\ s \in 0..d - 1 /\ a = d * e + s
    BY DivMod
  <1> HIDE DEF e, s
  <1>2. d * e \in Int /\ d * q \in Int
    BY <1>1
  <1>3. ~(e < q)
    <2> SUFFICES ASSUME e < q
                 PROVE  FALSE
      OBVIOUS
    <2>1. d * e + d <= d * q
      BY <1>1, MulMono
    <2> QED
      BY <2>1, <1>1, <1>2
  <1>4. ~(q < e)
    <2> SUFFICES ASSUME q < e
                 PROVE  FALSE
      OBVIOUS
    <2>1. d * q + d <= d * e
      BY <1>1, MulMono
    <2> QED
      BY <2>1, <1>1, <1>2
  <1>5. e = q
    BY <1>1, <1>3, <1>4
  <1>6. s = r
    BY <1>1, <1>2, <1>5
  <1> QED
    BY <1>5, <1>6 DEF e, s

(* Reducing modulo a multiple of f first does not change the remainder.    *)
LEMMA ModOfMod ==
  ASSUME NEW a \in Nat, NEW f \in Nat \ {0}, NEW w \in Nat \ {0}, w % f = 0
  PROVE  (a % w) % f = a % f
  <1> DEFINE k == w \div f
             q == a \div w
             r == a % w
             p == r \div f
             s == r % f
  <1>1. k \in Nat /\ w = f * k
    BY DivMod
  <1>2. q \in Nat /\ r \in Nat /\ a = w * q + r
    BY DivMod
  <1>3. p \in Nat /\ s \in 0..f - 1 /\ r = f * p + s
    BY <1>2, DivMod
  <1> HIDE DEF k, q, r, p, s
  <1>4. w * q = f * (k * q)
    BY <1>1, <1>2
  <1>5. k * q \in Int
    BY <1>1, <1>2
  <1>6. f * (k * q) + f * p = f * (k * q + p)
    BY <1>3, <1>5
  <1>7. a = f * (k * q + p) + s /\ k * q + p \in Int
    BY <1>2, <1>3, <1>4, <1>5, <1>6
  <1>8. a % f = s
    BY <1>3, <1>7, DivModUnique
  <1> QED
    BY <1>8 DEF r, s

(***************************************************************************)
(* Records of z bytes in pages of f bytes that hold a whole number of      *)
(* them: the x-th record from the start of a page lies in one page, and    *)
(* the records that fit between it and the end of that page are at least   *)
(* one.                                                                    *)
(***************************************************************************)
LEMMA RecordInPage ==
  ASSUME NEW f \in Nat \ {0}, NEW z \in Nat \ {0}, f % z = 0,
         NEW b \in Nat, b % f = 0, NEW x \in Nat
  PROVE  LET o == (b + x * z) % f
             n == (f - o) \div z
         IN  o \in Nat /\ n \in Nat \ {0} /\ o + n * z <= f
  <1> DEFINE m == f \div z
             k == b \div f
             a == b + x * z
             q == a \div f
             o == a % f
             t == m * k + x - m * q
  <1>1. m \in Nat /\ f = z * m
    BY DivMod
  <1>2. k \in Nat /\ b = f * k
    BY DivMod
  <1>3. a \in Nat /\ x * z \in Nat /\ x * z = z * x
    OBVIOUS
  <1>4. q \in Nat /\ o \in 0..f - 1 /\ a = f * q + o
    BY <1>3, DivMod
  <1>5. a = b + z * x
    BY <1>3
  <1> HIDE DEF m, k, a, q, o
  <1>6. m * k \in Int /\ m * q \in Int /\ z * x \in Int
    BY <1>1, <1>2, <1>4
  <1>7. f * k = z * (m * k) /\ f * q = z * (m * q)
    BY <1>1, <1>2, <1>4
  <1>8. z * t = z * (m * k) + z * x - z * (m * q)
    BY <1>6
  <1>9. t \in Int
    BY <1>6
  <1> HIDE DEF t
  <1>10. t \in Int /\ o = z * t
    <2>1. z * (m * k) \in Int /\ z * (m * q) \in Int /\ z * t \in Int
      BY <1>6, <1>9
    <2> QED
      BY <2>1, <1>9, <1>2, <1>4, <1>5, <1>6, <1>7, <1>8
  <1>11. t < m
    <2>1. z * t < z * m
      BY <1>1, <1>4, <1>10
    <2> QED
      BY <2>1, <1>1, <1>10, MulCancel
  <1>12. z * (m - t) = f - o
    <2>1. z * (m - t) = z * m - z * t
      BY <1>1, <1>10
    <2> QED
      BY <2>1, <1>1, <1>10
  <1>13. (f - o) \div z = m - t
    <2>1. f - o = z * (m - t) + 0 /\ 0 \in 0..z - 1 /\ f - o \in Nat
      BY <1>4, <1>12
    <2> QED
      BY <2>1, <1>1, <1>10, DivModUnique
  <1>14. (m - t) * z = z * (m - t)
    BY <1>1, <1>10
  <1>15. o \in Nat /\ (f - o) \div z \in Nat \ {0}
         /\ o + ((f - o) \div z) * z <= f
    BY <1>1, <1>4, <1>10, <1>11, <1>12, <1>13, <1>14
  <1> QED
    BY <1>15 DEF o, a
----------------------------------------------------------------------------
(* Every set of natural numbers has a least element: induction, in the     *)
(* form that takes a set for its parameter.                                *)
LEMMA LeastNat ==
  ASSUME NEW S, S \subseteq Nat, S # {}
  PROVE  \E m \in S : \A x \in S : m <= x
  <1> DEFINE R == OpToRel(<, Nat)
  <1>1. IsWellFoundedOn(R, Nat)
    BY NatLessThanWellFounded
  <1>2. \A x, y \in Nat : <<x, y>> \in R <=> x < y
    BY DEF OpToRel
  <1> HIDE DEF R
  <1>3. PICK m \in S : \A x \in S : ~(<<x, m>> \in R)
    BY <1>1, WFMin
  <1>4. \A x \in S : ~(x < m)
    BY <1>2, <1>3, Zenon
  <1>5. \A x \in S : m <= x
    BY <1>4
  <1> QED
    BY <1>5

(* What does not fall from one step to the next does not fall at all.      *)
LEMMA Ascending ==
  ASSUME NEW n \in Nat, NEW f \in [0..n -> Int],
         \A d \in 0..n - 1 : f[d] <= f[d + 1],
         NEW c \in 0..n, NEW e \in 0..n, c <= e
  PROVE  f[c] <= f[e]
  <1> DEFINE S == {d \in 0..n : c <= d /\ ~(f[c] <= f[d])}
  <1> SUFFICES ASSUME S # {}
               PROVE  FALSE
    OBVIOUS
  <1>1. S \subseteq Nat
    OBVIOUS
  <1>2. PICK m \in S : \A x \in S : m <= x
    BY <1>1, LeastNat
  <1>3. m # c
    BY <1>2
  <1>4. m - 1 \in 0..n - 1 /\ c <= m - 1 /\ m - 1 \notin S
    BY <1>2, <1>3
  <1>5. f[m - 1] <= f[m - 1 + 1]
    BY <1>4
  <1>6. f[c] <= f[m - 1]
    BY <1>4
  <1>7. m - 1 + 1 = m /\ {f[m], f[m - 1], f[c]} \subseteq Int
    BY <1>2, <1>4
  <1> QED
    BY <1>2, <1>5, <1>6, <1>7

(* A value between the first and the last lies between two neighbours.     *)
LEMMA Between ==
  ASSUME NEW n \in Nat, NEW f \in [0..n -> Int],
         NEW x \in Int, f[0] <= x, x < f[n]
  PROVE  \E d \in 0..n - 1 : f[d] <= x /\ x < f[d + 1]
  <1> DEFINE S == {d \in 0..n : x < f[d]}
  <1>1. S \subseteq Nat /\ n \in S
    OBVIOUS
  <1>2. PICK m \in S : \A d \in S : m <= d
    BY <1>1, LeastNat
  <1>3. m # 0
    BY <1>2
  <1>4. m - 1 \in 0..n - 1 /\ m - 1 \notin S /\ m - 1 + 1 = m
    BY <1>2, <1>3
  <1>5. f[m - 1] \in Int /\ ~(x < f[m - 1]) /\ x < f[m - 1 + 1]
    BY <1>2, <1>4
  <1>6. f[m - 1] <= x
    BY <1>5
  <1> QED
    BY <1>4, <1>5, <1>6
============================================================================
