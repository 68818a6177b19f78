---------------------------- MODULE ReplyProofs -----------------------------
(***************************************************************************)
(* Proofs about one query from its generation to its decoding, for any     *)
(* power of two as the number of coefficients, any plain modulus 2^logt+1, *)
(* and any sizes of the database on the two sides.                         *)
(***************************************************************************)
EXTENDS PirReply, ArithmeticLemmas

-----------------------------------------------------------------------------
\* The least power of two that is enough.
LEMMA CeilLog2Is ==
  ASSUME NEW m \in Nat \ {0}
  PROVE  /\ CeilLog2(m) \in 0 .. m
         /\ m <= Pow2[CeilLog2(m)]
         /\ \A e \in Nat : m <= Pow2[e] => CeilLog2(m) <= e
<1> DEFINE S == {e \in 0 .. m : Pow2[e] >= m}
<1>1. m \in S
  <2>1. m < Pow2[m] /\ Pow2[m] \in Nat
    BY Pow2Grows, Pow2Type
  <2> QED
    BY <2>1
<1>2. S \in SUBSET Nat
  OBVIOUS
<1>3. Min(S) \in S /\ \A y \in S : Min(S) <= y
  BY <1>1, <1>2, MinOf
<1> DEFINE c == CeilLog2(m)
<1>4. c \in S /\ \A y \in S : c <= y
  BY <1>3 DEF CeilLog2
<1> HIDE DEF c
<1>5. c \in 0 .. m /\ m <= Pow2[c]
  <2>1. c \in 0 .. m /\ Pow2[c] >= m
    BY <1>4
  <2>2. Pow2[c] \in Nat
    BY <2>1, Pow2Type
  <2> QED
    BY <2>1, <2>2
<1>6. ASSUME NEW e \in Nat, m <= Pow2[e] PROVE c <= e
  <2>1. CASE e <= m
    <3>1. Pow2[e] \in Nat
      BY Pow2Type
    <3>2. e \in S
      BY <1>6, <2>1, <3>1
    <3> QED
      BY <1>4, <3>2
  <2>2. CASE ~ (e <= m)
    BY <1>5, <2>2
  <2> QED
    BY <2>1, <2>2
<1> QED
  BY <1>5, <1>6 DEF c

\* More takes no smaller power.
LEMMA CeilLog2Monotone ==
  ASSUME NEW m \in Nat \ {0}, NEW n \in Nat \ {0}, m <= n
  PROVE  CeilLog2(m) <= CeilLog2(n)
<1>1. CeilLog2(n) \in Nat /\ n <= Pow2[CeilLog2(n)]
  BY CeilLog2Is
<1>2. Pow2[CeilLog2(n)] \in Nat
  BY <1>1, Pow2Type
<1>3. m <= Pow2[CeilLog2(n)]
  BY <1>1, <1>2
<1> QED
  BY <1>1, <1>3, CeilLog2Is

\* The sizes of the polynomials.
LEMMA Degree ==
  /\ N \in Nat /\ N >= 2 /\ N = Pow2[logN]
  /\ logN \in Nat \ {0}
  /\ logt \in Nat \ {0} /\ t \in Nat /\ t >= 3 /\ t = Pow2[logt] + 1
<1>1. PICK e \in 1 .. N : N = Pow2[e]
  BY ExpansionAssumption
<1>2. e \in Nat /\ e >= 1
  OBVIOUS
<1>3. N \in Nat /\ N >= 2
  <2>1. Pow2[e] \in Nat /\ e < Pow2[e]
    BY <1>2, Pow2Type, Pow2Grows
  <2> QED
    BY <1>1, <1>2, <2>1
<1>4. /\ logN \in Nat /\ N <= Pow2[logN]
      /\ logN <= e
  <2>1. N <= Pow2[e]
    BY <1>1, <1>3
  <2> QED
    BY <1>2, <1>3, <2>1, CeilLog2Is DEF logN
<1>5. logN = e
  <2>1. Pow2[logN] < Pow2[e] => ~ (N <= Pow2[logN])
    <3>1. Pow2[logN] \in Nat
      BY <1>4, Pow2Type
    <3> QED
      BY <1>1, <1>3, <3>1
  <2>2. ~ (logN < e)
    BY <1>2, <1>4, <2>1, Pow2Grows
  <2> QED
    BY <1>2, <1>4, <2>2
<1>6. logt \in Nat \ {0} /\ t \in Nat /\ t >= 3
  <2>1. logt \in Nat \ {0}
    BY ExpansionAssumption
  <2>2. Pow2[logt] \in Nat /\ logt < Pow2[logt]
    BY <2>1, Pow2Type, Pow2Grows
  <2> QED
    BY <2>1, <2>2 DEF t
<1> QED
  BY <1>1, <1>2, <1>3, <1>5, <1>6 DEF t

-----------------------------------------------------------------------------
\* Modulo t the powers of 2^logt are 1 and -1 in turn.
LEMMA HalfTurn ==
  ASSUME NEW q \in Nat
  PROVE  \E j \in Nat : IF q % 2 = 0 THEN Pow2[q * logt] = j * t + 1
                                     ELSE Pow2[q * logt] + 1 = j * t
<1> DEFINE P(k) == \E j \in Nat : IF k % 2 = 0 THEN Pow2[k * logt] = j * t + 1
                                               ELSE Pow2[k * logt] + 1 = j * t
           S == {k \in Nat : P(k)}
<1>1. 0 \in S
  <2>1. 0 % 2 = 0 /\ 0 * logt = 0 /\ Pow2[0] = 0 * t + 1
    BY Degree, Pow2Is
  <2> QED
    BY <2>1
<1>2. ASSUME NEW k \in S PROVE k + 1 \in S
  <2> DEFINE x == Pow2[k * logt]
             y == Pow2[(k + 1) * logt]
             p == t - 1
  <2>1. k \in Nat /\ k * logt \in Nat /\ (k + 1) * logt = k * logt + logt
    BY Degree
  <2>2. x \in Nat /\ y \in Nat /\ y = x * p /\ p \in Nat \ {0} /\ t = p + 1
    <3>1. Pow2[k * logt + logt] = Pow2[k * logt] * Pow2[logt]
      BY <2>1, Degree, Pow2Sum
    <3>2. Pow2[logt] = p
      BY Degree, Pow2Type
    <3>3. x \in Nat /\ y \in Nat
      BY <2>1, Degree, Pow2Type
    <3>4. p \in Nat \ {0} /\ t = p + 1
      BY Degree
    <3> QED
      BY <2>1, <3>1, <3>2, <3>3, <3>4
  <2>3. PICK j \in Nat : IF k % 2 = 0 THEN x = j * t + 1 ELSE x + 1 = j * t
    OBVIOUS
  <2>4. k + 1 \in Nat
    BY <2>1
  <2> HIDE DEF x, y, p
  <2>5. CASE k % 2 = 0
    <3>1. (k + 1) % 2 # 0
      BY <2>1, <2>5
    <3> DEFINE i == j * p + 1
               z == j * t
    <3>2. z \in Nat /\ x = z + 1
      BY <2>2, <2>3, <2>5
    <3>3. i \in Nat /\ i * t = j * p * t + t
      BY <2>2
    <3>4. (z + 1) * p = z * p + p
      BY <2>2, <3>2
    <3>5. z * p = j * p * t /\ z * p \in Nat
      BY <2>2
    <3> DEFINE w == z * p
    <3>6. y = w + p /\ i * t = w + t /\ w \in Nat
      BY <2>2, <3>2, <3>3, <3>4, <3>5
    <3> HIDE DEF w, i, z
    <3>7. y + 1 = i * t
      BY <2>2, <3>6
    <3>8. P(k + 1)
      BY <3>1, <3>3, <3>7 DEF y
    <3> HIDE DEF P
    <3> QED
      BY <2>4, <3>8
  <2>6. CASE k % 2 # 0
    <3>1. (k + 1) % 2 = 0
      BY <2>1, <2>6
    <3>2. j >= 1
      <4>1. j = 0 => j * t = 0
        BY <2>2
      <4> QED
        BY <2>2, <2>3, <2>6, <4>1
    <3> DEFINE u == j * p
               i == u - 1
               z == j * t
    <3>3. u \in Nat /\ u >= 1
      <4>1. 1 * p <= j * p
        BY <2>2, <3>2, TimesMonotone
      <4> QED
        BY <2>2, <4>1
    <3>4. z = u + j
      <4>1. j * (p + 1) = j * p + j
        BY <2>2
      <4> QED
        BY <2>2, <4>1
    <3>5. x = z - 1 /\ z \in Nat
      BY <2>2, <2>3, <2>6
    <3>6. z * p = u * t
      BY <2>2
    <3> HIDE DEF u, z
    <3>7. i \in Nat /\ i * t = u * t - t /\ u * t \in Nat
      BY <2>2, <3>3
    <3>8. y = z * p - p
      <4>1. (z - 1) * p = z * p - p
        BY <2>2, <3>5
      <4> QED
        BY <2>2, <3>5, <4>1
    <3> DEFINE w == u * t
    <3>9. w \in Nat /\ i * t = w - t /\ y = w - p
      BY <3>6, <3>7, <3>8
    <3> HIDE DEF w, i
    <3>10. y = i * t + 1
      BY <2>2, <3>9
    <3>11. P(k + 1)
      BY <3>1, <3>7, <3>10 DEF y
    <3> HIDE DEF P
    <3> QED
      BY <2>4, <3>11
  <2> QED
    BY <2>5, <2>6
<1>3. S \in SUBSET Nat
  OBVIOUS
<1> HIDE DEF S
<1>4. S = Nat
  BY <1>1, <1>2, <1>3, Induction
<1>5. P(q)
  BY <1>4 DEF S
<1> QED
  BY <1>5

\* What compute_inverse_scales computes for L undoes 2^L, and leaves 2^(M - L)
\* of a larger 2^M.
LEMMA ScaleInverse ==
  ASSUME NEW L \in Nat, NEW M \in Nat, L <= M
  PROVE  /\ inverse_scale(L) \in 1 .. t - 1
         /\ (inverse_scale(L) * Pow2[M]) % t = Pow2[M - L] % t
<1> DEFINE q == L \div logt
           r == L % logt
           power == Pow2[logt - r]
           D == M - L
           W == Pow2[(q + 1) * logt]
           C == Pow2[D]
           B == Pow2[M]
<1>1. q \in Nat /\ r \in 0 .. logt - 1 /\ L = q * logt + r
  BY Degree, QuotientIs
<1>2. D \in Nat
  OBVIOUS
<1>3. /\ logt - r \in Nat /\ q + 1 \in Nat /\ (q + 1) * logt \in Nat
      /\ (logt - r) + M = (q + 1) * logt + D
  <2> DEFINE x == q * logt
  <2>1. x \in Nat /\ (q + 1) * logt = x + logt
    BY <1>1, Degree
  <2> HIDE DEF x, q, r
  <2> QED
    BY <1>1, <2>1, Degree DEF x
<1>4. /\ power \in Nat \ {0} /\ W \in Nat \ {0} /\ C \in Nat \ {0} /\ B \in Nat \ {0}
      /\ power * B = W * C
  <2>1. Pow2[(logt - r) + M] = power * B
    BY <1>3, Pow2Sum
  <2>2. Pow2[(q + 1) * logt + D] = W * C
    BY <1>2, <1>3, Pow2Sum
  <2> QED
    BY <1>2, <1>3, <2>1, <2>2, Pow2Type
<1>5. power < t
  <2>1. logt - r <= logt
    BY <1>1, Degree
  <2>2. power <= Pow2[logt]
    BY <1>1, <1>3, <2>1, Degree, Pow2Grows, Pow2Type
  <2> QED
    BY <1>4, <2>2, Degree, Pow2Type
<1>6. PICK j \in Nat : IF (q + 1) % 2 = 0 THEN W = j * t + 1 ELSE W + 1 = j * t
  BY <1>3, HalfTurn
<1>7. inverse_scale(L) = IF (q + 1) % 2 # 0 THEN t - power ELSE power
  BY DEF inverse_scale
<1> DEFINE e == inverse_scale(L)
<1> HIDE DEF q, r, power, D, W, C, B, e
<1>8. CASE (q + 1) % 2 = 0
  <2>1. e = power /\ W = j * t + 1
    BY <1>6, <1>7, <1>8 DEF e
  <2>2. (j * t + 1) * C = (j * C) * t + C
    BY <1>4, Degree
  <2>3. e * B + 0 * t = C + (j * C) * t
    BY <1>4, <2>1, <2>2, Degree
  <2>4. e * B \in Nat /\ j * C \in Nat
    BY <1>4, <2>1
  <2>5. (e * B) % t = C % t
    <3> DEFINE a == e * B
               k == j * C
    <3>1. /\ a \in Nat /\ k \in Nat /\ C \in Nat /\ t \in Nat \ {0} /\ 0 \in Nat
          /\ a + 0 * t = C + k * t
      BY <1>4, <2>3, <2>4, Degree
    <3> HIDE DEF a, k
    <3>2. a % t = C % t
      BY ONLY <3>1, SameRemainder
    <3> QED
      BY <3>2 DEF a
  <2> QED
    BY <1>4, <1>5, <2>1, <2>5, Degree DEF e, B, C, D
<1>9. CASE (q + 1) % 2 # 0
  <2>1. e = t - power /\ W + 1 = j * t
    BY <1>6, <1>7, <1>9 DEF e
  <2>2. e \in 1 .. t - 1
    BY <1>4, <1>5, <2>1, Degree
  <2> DEFINE a == e * B
             u == W * C
             v == (j * C) * t
             w == B * t
  <2>3. a \in Nat /\ u \in Nat /\ v \in Nat /\ w \in Nat /\ j * C \in Nat
    BY <1>4, <2>2, Degree
  <2>4. a = w - u
    <3>1. (t - power) * B = B * t - power * B
      BY <1>4, Degree
    <3> QED
      BY <1>4, <2>1, <3>1
  <2>5. v = u + C
    <3>1. (W + 1) * C = W * C + C
      BY <1>4
    <3>2. (j * t) * C = (j * C) * t
      BY <1>4, Degree
    <3> QED
      BY <2>1, <3>1, <3>2
  <2> HIDE DEF a, u
  <2>6. a + (j * C) * t = C + B * t
    <3> HIDE DEF v, w
    <3>1. a + v = C + w
      BY <1>4, <2>3, <2>4, <2>5
    <3> QED
      BY <3>1 DEF v, w
  <2>7. a % t = C % t
    <3> DEFINE k == j * C
    <3>1. /\ a \in Nat /\ k \in Nat /\ B \in Nat /\ C \in Nat /\ t \in Nat \ {0}
          /\ a + k * t = C + B * t
      BY <1>4, <2>3, <2>6, Degree
    <3> HIDE DEF k
    <3> QED
      BY ONLY <3>1, SameRemainder
  <2> QED
    BY <2>2, <2>7 DEF a, e, B, C, D
<1> QED
  BY <1>8, <1>9

\* Modulo t, 2^D is 1 for the multiples of 2 * logt only.
LEMMA PowerIsOne ==
  ASSUME NEW D \in Nat
  PROVE  Pow2[D] % t = 1 <=> D % (2 * logt) = 0
<1> DEFINE q == D \div logt
           r == D % logt
           W == Pow2[q * logt]
           R == Pow2[r]
           h == q \div 2
           s == 2 * logt
<1>1. q \in Nat /\ r \in 0 .. logt - 1 /\ D = q * logt + r
  BY Degree, QuotientIs
<1>2. h \in Nat /\ (q % 2 = 0 => q = 2 * h) /\ (q % 2 # 0 => q = 2 * h + 1)
  <2> HIDE DEF q
  <2> QED
    BY <1>1
<1>3. q * logt \in Nat /\ r \in Nat
  <2> HIDE DEF q, r
  <2> QED
    BY <1>1, Degree
<1>4. W \in Nat /\ R \in Nat \ {0} /\ Pow2[D] = W * R
  BY <1>1, <1>3, Pow2Sum, Pow2Type
<1>5. R < t - 1 /\ (R = 1 <=> r = 0)
  <2> HIDE DEF r
  <2>1. r < logt /\ r \in Nat
    BY <1>1, Degree
  <2>2. R < Pow2[logt] /\ Pow2[logt] = t - 1
    BY <2>1, Degree, Pow2Grows, Pow2Type
  <2>3. r = 0 => R = 1
    BY Pow2Is
  <2>4. r # 0 => 1 < R
    <3>1. Pow2[0] = 1
      BY Pow2Is
    <3> QED
      BY <2>1, <3>1, Pow2Grows
  <2> HIDE DEF R
  <2> QED
    BY <1>4, <2>2, <2>3, <2>4
<1>6. PICK j \in Nat : IF q % 2 = 0 THEN W = j * t + 1 ELSE W + 1 = j * t
  BY <1>1, HalfTurn
<1>7. s \in Nat \ {0} /\ h * s = (2 * h) * logt /\ h * s \in Nat
  BY <1>2, Degree
<1> DEFINE x == Pow2[D]
<1> HIDE DEF q, r, W, R, h, s, x
<1>8. CASE q % 2 = 0
  <2>1. W = j * t + 1 /\ q = 2 * h
    BY <1>2, <1>6, <1>8
  <2>2. D = h * s + r
    BY <1>1, <1>7, <2>1
  <2>3. r \in 0 .. s - 1
    BY <1>1, Degree DEF s
  <2>4. D % s = r
    BY <1>2, <1>7, <2>2, <2>3, DivIs
  <2>5. x = (j * R) * t + R
    <3>1. (j * t + 1) * R = (j * R) * t + R
      BY <1>4, Degree
    <3> QED
      BY <1>4, <2>1, <3>1 DEF x
  <2>6. j * R \in Nat /\ R \in 0 .. t - 1 /\ t \in Nat \ {0}
    BY <1>4, <1>5, Degree
  <2>7. x % t = R
    BY <2>5, <2>6, DivIs
  <2> QED
    BY <1>5, <2>4, <2>7 DEF x, s
<1>9. CASE q % 2 # 0
  <2>1. W + 1 = j * t /\ q = 2 * h + 1
    BY <1>2, <1>6, <1>9
  <2>2. D = h * s + (logt + r)
    <3>1. (2 * h + 1) * logt = (2 * h) * logt + logt
      BY <1>2, Degree
    <3> QED
      BY <1>1, <1>3, <1>7, <2>1, <3>1, Degree
  <2>3. logt + r \in 0 .. s - 1
    BY <1>1, Degree DEF s
  <2>4. D % s = logt + r
    <3> DEFINE v == logt + r
    <3>1. s \in Nat \ {0} /\ h \in Nat /\ v \in 0 .. s - 1 /\ D = h * s + v
      BY <1>2, <1>7, <2>2, <2>3
    <3> HIDE DEF v
    <3>2. D % s = v
      BY ONLY <3>1, DivIs
    <3> QED
      BY <3>2 DEF v
  <2>5. logt + r # 0
    BY <1>1, Degree
  <2> DEFINE k == j * R
             i == k - 1
  <2>6. x + R = k * t
    <3>1. (W + 1) * R = W * R + R
      BY <1>4
    <3>2. (j * t) * R = (j * R) * t
      BY <1>4, Degree
    <3> QED
      BY <1>4, <2>1, <3>1, <3>2 DEF x
  <2>7. x \in Nat
    BY <1>4 DEF x
  <2>8. k \in Nat /\ k # 0
    <3>1. k \in Nat
      BY <1>4
    <3>2. k = 0 => k * t = 0
      BY Degree
    <3> HIDE DEF k
    <3> QED
      BY <1>4, <2>6, <2>7, <3>1, <3>2
  <2> HIDE DEF k
  <2>9. i \in Nat /\ t - R \in 0 .. t - 1 /\ t \in Nat \ {0}
    BY <1>4, <1>5, <2>8, Degree
  <2>10. x = i * t + (t - R)
    <3>1. (k - 1) * t = k * t - t /\ k * t \in Nat
      BY <2>8, Degree
    <3> DEFINE z == k * t
    <3>2. z \in Nat /\ x + R = z /\ i * t = z - t
      BY <2>6, <3>1
    <3> HIDE DEF z, i
    <3> QED
      BY <1>4, <2>7, <3>2, Degree
  <2> HIDE DEF i
  <2>11. x % t = t - R
    <3> DEFINE v == t - R
    <3>1. t \in Nat \ {0} /\ i \in Nat /\ v \in 0 .. t - 1 /\ x = i * t + v
      BY <2>9, <2>10
    <3> HIDE DEF v
    <3>2. x % t = v
      BY ONLY <3>1, DivIs
    <3> QED
      BY <3>2 DEF v
  <2>12. t - R # 1
    BY <1>4, <1>5, Degree
  <2> QED
    BY <2>4, <2>5, <2>11, <2>12 DEF x, s
<1> QED
  BY <1>8, <1>9

-----------------------------------------------------------------------------
\* A function on the first n numbers is a sequence of n.
LEMMA LenIs ==
  ASSUME NEW S, NEW n \in Nat, NEW s \in [1 .. n -> S]
  PROVE  s \in Seq(S) /\ Len(s) = n /\ DOMAIN s = 1 .. n
<1>1. s \in Seq(S) /\ DOMAIN s = 1 .. n
  OBVIOUS
<1>2. Len(s) \in Nat /\ DOMAIN s = 1 .. Len(s)
  BY <1>1, LenProperties
<1>3. Len(s) = n
  BY <1>1, <1>2
<1> QED
  BY <1>1, <1>3

\* A quotient rounded up of something is something.
LEMMA CeilDivPositive ==
  ASSUME NEW a \in Nat \ {0}, NEW b \in Nat \ {0}
  PROVE  CeilDiv(a, b) \in Nat \ {0}
<1> DEFINE q == CeilDiv(a, b)
<1>1. q \in Nat /\ a <= q * b
  BY CeilDivIs
<1>2. q = 0 => q * b = 0
  OBVIOUS
<1> HIDE DEF q
<1>3. q # 0
  BY <1>1, <1>2
<1> QED
  BY <1>1, <1>3 DEF q

\* What each side is given, and the matrix it makes of it.
LEMMA FlagTypes ==
  ASSUME flags \in Flags
  PROVE  /\ flags.via \in {"tcp", "direct"}
         /\ flags.n \in Nat \ {0} /\ flags.d \in {1, 2}
         /\ flags.client_n \in Nat \ {0} /\ flags.client_d \in {1, 2}
<1>1. flags \in [via : {"tcp", "direct"}, n : Nat \ {0}, d : {1, 2},
                 client_n : Nat \ {0}, client_d : {1, 2}]
  BY PirReplyAssumption
<1> QED
  BY <1>1

\* The matrices of both sides, and that they have room for all plaintexts.
LEMMA Matrices ==
  ASSUME flags \in Flags
  PROVE  /\ nvec \in [1 .. flags.d -> Nat \ {0}] /\ Len(nvec) = flags.d
         /\ Product(nvec) \in Nat /\ flags.n <= Product(nvec)
         /\ client_nvec \in [1 .. flags.client_d -> Nat \ {0}]
         /\ Len(client_nvec) = flags.client_d
         /\ Product(client_nvec) \in Nat /\ flags.client_n <= Product(client_nvec)
<1>1. /\ flags.n \in Nat \ {0} /\ flags.d \in {1, 2}
      /\ flags.client_n \in Nat \ {0} /\ flags.client_d \in {1, 2}
  BY FlagTypes
<1>2. /\ nvec \in [1 .. flags.d -> Nat \ {0}]
      /\ Product(nvec) \in Nat /\ flags.n <= Product(nvec)
  BY <1>1, DimensionsSuffice DEF nvec
<1>3. /\ client_nvec \in [1 .. flags.client_d -> Nat \ {0}]
      /\ Product(client_nvec) \in Nat /\ flags.client_n <= Product(client_nvec)
  BY <1>1, DimensionsSuffice DEF client_nvec
<1>4. flags.d \in Nat /\ flags.client_d \in Nat
  BY <1>1
<1>5. Len(nvec) = flags.d
  BY <1>2, <1>4, LenIs
<1>6. Len(client_nvec) = flags.client_d
  BY <1>3, <1>4, LenIs
<1> QED
  BY <1>2, <1>3, <1>5, <1>6

\* The ciphertexts of one row of the matrix have words.
LEMMA WordsAre ==
  ASSUME flags \in Flags, Len(nvec) = 2, NEW seed \in Seeds
  PROVE  \A k \in 1 .. nvec[2] :
           Words(seed, k) \in [1 .. 2 -> [0 .. N - 1 -> 0 .. Pow2[logq] - 1]]
<1>1. flags.d = 2 /\ nvec[2] = get_dimensions(flags.n, flags.d)[flags.d]
  <2>1. flags.d = 2
    BY Matrices
  <2> QED
    BY <2>1 DEF nvec
<1> QED
  BY <1>1, PirReplyAssumption

\* A word is decomposed into digits, and so a ciphertext into plaintexts.
LEMMA Digits ==
  digits \in Nat \ {0} /\ expansion_ratio = 2 * digits /\ expansion_ratio \in Nat \ {0}
<1>1. digits \in Nat \ {0}
  BY PirReplyAssumption, Degree, CeilDivPositive DEF digits
<1> QED
  BY <1>1 DEF expansion_ratio

\* There is a coordinate for each side.
LEMMA Coordinates ==
  ASSUME NEW d \in {1, 2}, NEW nv \in [1 .. d -> Nat \ {0}], NEW k \in Nat
  PROVE  compute_indices(k, nv) \in [1 .. d -> Nat]
<1> DEFINE at == compute_indices(k, nv)
<1>1. Len(nv) = d
  BY LenIs
<1>2. DOMAIN at = 1 .. d /\ at = [i \in 1 .. d |-> at[i]]
  <2> DEFINE h == CHOOSE j : j = [i \in 0 .. Len(nv) |-> IF i = 0 THEN k
                    ELSE j[i - 1] - (j[i - 1] \div Stride(nv, i)) * Stride(nv, i)]
  <2>1. at = [i \in 1 .. Len(nv) |-> h[i - 1] \div Stride(nv, i)]
    BY DEF compute_indices
  <2> HIDE DEF at, h
  <2> QED
    BY <1>1, <2>1
<1>3. \A i \in 1 .. d : at[i] \in Nat
  <2> HIDE DEF at
  <2>1. CASE d = 1
    <3>1. at[1] = k
      BY <1>1, <2>1, OneCoordinate DEF at
    <3> QED
      BY <2>1, <3>1
  <2>2. CASE d = 2
    <3> DEFINE b == nv[2]
    <3>1. b \in Nat \ {0}
      BY <2>2
    <3>2. at[1] = k \div b /\ at[2] = k % b
      BY <1>1, <2>2, <3>1, TwoCoordinates DEF at
    <3> HIDE DEF b
    <3>3. k \div b \in Nat /\ k % b \in 0 .. b - 1
      BY <3>1, QuotientIs
    <3>4. at[1] \in Nat /\ at[2] \in Nat
      BY <3>1, <3>2, <3>3
    <3> QED
      BY <2>2, <3>4
  <2> QED
    BY <2>1, <2>2
<1> HIDE DEF at
<1>4. at \in [1 .. d -> Nat]
  BY <1>2, <1>3
<1> QED
  BY <1>4 DEF at

-----------------------------------------------------------------------------
\* The loop over the dimensions: which logarithm the client takes for each.
LEMMA ExpectedLogm ==
  ASSUME NEW at, NEW undefined, Len(at) \in {1, 2}
  PROVE  LET logm == expected_logm(at, undefined)
         IN  /\ logm[0] = logN
             /\ \A i \in 1 .. Len(at) :
                  logm[i] = IF ~ InLast(at[i], client_nvec[i]) THEN logm[i - 1]
                            ELSE IF client_nvec[i] % N = 0 THEN undefined
                            ELSE CeilLog2(client_nvec[i] % N)
<1> DEFINE step(i, x) == IF ~ InLast(at[i], client_nvec[i]) THEN x
                         ELSE IF client_nvec[i] % N = 0 THEN undefined
                         ELSE CeilLog2(client_nvec[i] % N)
           F(f) == [i \in 0 .. Len(at) |-> IF i = 0 THEN logN ELSE step(i, f[i - 1])]
           g == [i \in 0 .. Len(at) |-> IF i = 0 THEN logN
                                        ELSE IF i = 1 THEN step(1, logN)
                                        ELSE step(2, step(1, logN))]
           h == CHOOSE f : f = F(f)
<1>1. h = expected_logm(at, undefined)
  BY DEF expected_logm
<1> HIDE DEF step
<1>2. g = F(g)
  <2>1. ASSUME NEW i \in 0 .. Len(at) PROVE g[i] = F(g)[i]
    <3>1. i = 0 \/ i = 1 \/ i = 2
      <4>1. Len(at) = 1 \/ Len(at) = 2
        OBVIOUS
      <4>2. CASE Len(at) = 1
        BY <4>2
      <4>3. CASE Len(at) = 2
        BY <4>3
      <4> QED
        BY <4>1, <4>2, <4>3
    <3>2. CASE i = 0
      BY <3>2
    <3>3. CASE i = 1
      <4>1. g[1] = step(1, logN) /\ g[0] = logN /\ F(g)[1] = step(1, g[1 - 1])
        BY <3>3
      <4> QED
        BY <3>3, <4>1
    <3>4. CASE i = 2
      <4>1. 0 \in 0 .. Len(at) /\ 1 \in 0 .. Len(at) /\ 2 \in 0 .. Len(at)
        BY <3>4
      <4>2. g[2] = step(2, step(1, logN)) /\ g[1] = step(1, logN) /\ F(g)[2] = step(2, g[2 - 1])
        BY <3>4, <4>1
      <4> QED
        BY <3>4, <4>2
    <3> QED
      BY <3>1, <3>2, <3>3, <3>4
  <2>2. F(g) = [i \in 0 .. Len(at) |-> F(g)[i]] /\ g = [i \in 0 .. Len(at) |-> g[i]]
    OBVIOUS
  <2> HIDE DEF F, g
  <2> QED
    BY <2>1, <2>2
<1>3. h = F(h)
  <2> HIDE DEF F, g
  <2> QED
    BY <1>2
<1> HIDE DEF h
<1>4. h[0] = logN
  BY <1>3
<1>5. \A i \in 1 .. Len(at) : h[i] = step(i, h[i - 1])
  <2>1. ASSUME NEW i \in 1 .. Len(at) PROVE h[i] = step(i, h[i - 1])
    <3>1. i \in 0 .. Len(at) /\ i # 0
      OBVIOUS
    <3> QED
      BY <1>3, <3>1
  <2> QED
    BY <2>1
<1> QED
  BY <1>1, <1>4, <1>5 DEF step

\* What the client has is about its index, while a query is under way.
LEMMA Wanted ==
  ASSUME TypeOK, ClientInv, desiredIndex # -1
  PROVE  /\ desiredIndex \in 0 .. flags.client_n - 1
         /\ indices_ = compute_indices(desiredIndex, client_nvec)
         /\ indices_ \in [1 .. flags.client_d -> Nat] /\ Len(indices_) = flags.client_d
<1>1. desiredIndex \in Nat /\ desiredIndex \in 0 .. flags.client_n - 1
  BY FlagTypes DEF TypeOK
<1>2. indices_ = compute_indices(desiredIndex, client_nvec)
  BY <1>1 DEF ClientInv
<1>3. flags.client_d \in {1, 2} /\ client_nvec \in [1 .. flags.client_d -> Nat \ {0}]
  BY FlagTypes, Matrices DEF TypeOK
<1>4. indices_ \in [1 .. flags.client_d -> Nat]
  BY <1>1, <1>2, <1>3, Coordinates
<1> QED
  BY <1>1, <1>2, <1>3, <1>4, LenIs

\* What a step leaves is the logarithm of the size of a last ciphertext, or of
\* a full one.
LEMMA LastSize ==
  ASSUME NEW m \in Nat, m % N # 0
  PROVE  m % N \in 1 .. N - 1 /\ CeilLog2(m % N) \in 0 .. logN
<1> DEFINE k == m % N
<1>1. k \in 1 .. N - 1 /\ N \in Nat \ {0}
  <2>1. N \in Nat \ {0} /\ N >= 2
    BY Degree
  <2>2. k \in 0 .. N - 1 /\ k # 0
    BY <2>1, QuotientIs
  <2> HIDE DEF k
  <2> QED
    BY <2>1, <2>2
<1> HIDE DEF k
<1>2. CeilLog2(k) \in Nat /\ CeilLog2(k) <= CeilLog2(N)
  <2>1. k \in Nat \ {0} /\ k <= N
    BY <1>1
  <2> QED
    BY <1>1, <2>1, CeilLog2Is, CeilLog2Monotone
<1>3. CeilLog2(k) \in 0 .. logN
  BY <1>2, Degree DEF logN
<1> QED
  BY <1>1, <1>3 DEF k

\* For each dimension the client's logarithm is the server's, unless an earlier
\* one has left another, which then makes a difference unless it differs by a
\* multiple of 2 * logt.
LEMMA ScalesAre ==
  ASSUME TypeOK, ClientInv
  PROVE  ScalesUndone
<1> SUFFICES ASSUME SameFlags, Delivered, pc \notin {"idle", "failed"},
                    NEW i \in DOMAIN nvec, \A e \in 1 .. i : nvec[e] % N # 0
             PROVE  (inverse_scales_[i] * Pow2[server_logm(i)]) % t = 1 <=> ~ Stale(i)
  BY DEF ScalesUndone, left_over
<1> DEFINE d == flags.d
<1>1. /\ d \in {1, 2} /\ nvec \in [1 .. d -> Nat \ {0}] /\ Len(nvec) = d
      /\ client_nvec = nvec /\ Len(client_nvec) = flags.client_d
  BY FlagTypes, Matrices DEF TypeOK, SameFlags
<1>2. flags.client_d = d
  BY <1>1
<1>3. desiredIndex # -1
  BY DEF ClientInv
<1>4. indices_ \in [1 .. d -> Nat] /\ Len(indices_) = d /\ DOMAIN indices_ = 1 .. d
  BY <1>2, <1>3, Wanted
<1>5. i \in 1 .. d /\ (i = 1 \/ i = 2)
  BY <1>1
<1>6. PICK undefined \in 0 .. logN :
        inverse_scales_ =
          [k \in DOMAIN indices_ |-> inverse_scale(expected_logm(indices_, undefined)[k])]
  <2>1. desiredIndex >= 0 /\ pc # "failed"
    BY <1>3 DEF TypeOK
  <2> QED
    BY <2>1 DEF ClientInv
<1> DEFINE logm == expected_logm(indices_, undefined)
           last(k) == InLast(indices_[k], nvec[k])
           c(k) == CeilLog2(nvec[k] % N)
<1>7. inverse_scales_[i] = inverse_scale(logm[i])
  BY <1>4, <1>5, <1>6
<1>8. /\ logm[0] = logN
      /\ \A k \in 1 .. i : logm[k] = IF last(k) THEN c(k) ELSE logm[k - 1]
  <2>1. Len(indices_) \in {1, 2}
    BY <1>1, <1>4
  <2>2. /\ logm[0] = logN
        /\ \A k \in 1 .. Len(indices_) :
             logm[k] = IF ~ InLast(indices_[k], client_nvec[k]) THEN logm[k - 1]
                       ELSE IF client_nvec[k] % N = 0 THEN undefined
                       ELSE CeilLog2(client_nvec[k] % N)
    BY <2>1, ExpectedLogm
  <2> HIDE DEF logm
  <2>3. ASSUME NEW k \in 1 .. i
        PROVE  logm[k] = IF last(k) THEN c(k) ELSE logm[k - 1]
    <3>1. k \in 1 .. Len(indices_) /\ nvec[k] % N # 0
      BY <1>4, <1>5
    <3>2. logm[k] = IF ~ InLast(indices_[k], client_nvec[k]) THEN logm[k - 1]
                    ELSE IF client_nvec[k] % N = 0 THEN undefined
                    ELSE CeilLog2(client_nvec[k] % N)
      BY <2>2, <3>1
    <3> QED
      BY <1>1, <3>1, <3>2
  <2> QED
    BY <2>2, <2>3
<1> HIDE DEF logm
<1>9. server_logm(i) = IF last(i) THEN c(i) ELSE logN
  <2>1. arriving(i) = CeilDiv(nvec[i], N)
    <3>1. CASE flags.via = "tcp"
      <4>1. Len(indices_) = 1 /\ CeilDiv(client_nvec[1], N) = 1
        BY <3>1 DEF Delivered
      <4>2. i = 1
        BY <1>4, <1>5, <4>1
      <4> QED
        BY <1>1, <3>1, <4>1, <4>2 DEF arriving
    <3>2. CASE flags.via # "tcp"
      BY <1>1, <3>2 DEF arriving
    <3> QED
      BY <3>1, <3>2
  <2> QED
    BY <2>1 DEF server_logm, InLast
<1>10. \A k \in 1 .. i : c(k) \in 0 .. logN
  <2>1. ASSUME NEW k \in 1 .. i PROVE c(k) \in 0 .. logN
    <3>1. k \in 1 .. d /\ nvec[k] % N # 0
      BY <1>1, <1>5
    <3>2. nvec[k] \in Nat
      BY <1>1, <3>1
    <3> QED
      BY <3>1, <3>2, LastSize
  <2> QED
    BY <2>1
<1>11. Stale(i) <=> ~ last(i) /\ \E e \in 1 .. i - 1 : last(e) /\ (logN - c(e)) % (2 * logt) # 0
  BY DEF Stale
<1>12. ASSUME NEW L \in 0 .. logN, NEW M \in Nat, L <= M
       PROVE  (inverse_scale(L) * Pow2[M]) % t = 1 <=> (M - L) % (2 * logt) = 0
  <2>1. L \in Nat /\ M - L \in Nat
    BY <1>12, Degree
  <2>2. (inverse_scale(L) * Pow2[M]) % t = Pow2[M - L] % t
    BY <1>12, <2>1, ScaleInverse
  <2>3. Pow2[M - L] % t = 1 <=> (M - L) % (2 * logt) = 0
    BY <2>1, PowerIsOne
  <2> QED
    BY <2>2, <2>3
<1>13. 0 % (2 * logt) = 0 /\ logN \in Nat /\ logN \in 0 .. logN
  BY Degree
<1> HIDE DEF last, c
<1>14. ASSUME NEW L \in 0 .. logN, logm[i] = L, server_logm(i) = L, ~ Stale(i)
       PROVE  (inverse_scales_[i] * Pow2[server_logm(i)]) % t = 1 <=> ~ Stale(i)
  <2>1. L \in Nat /\ L <= L /\ L - L = 0
    BY <1>13
  <2> QED
    BY <1>7, <1>12, <1>13, <1>14, <2>1
<1>15. CASE last(i)
  <2>1. i \in 1 .. i
    BY <1>5
  <2>2. logm[i] = c(i) /\ c(i) \in 0 .. logN /\ server_logm(i) = c(i) /\ ~ Stale(i)
    BY <1>8, <1>9, <1>10, <1>11, <1>15, <2>1
  <2> QED
    BY <1>14, <2>2
<1>16. CASE ~ last(i) /\ i = 1
  <2>1. 1 \in 1 .. i /\ 1 - 1 = 0 /\ 1 .. i - 1 = {}
    BY <1>16
  <2>2. logm[1] = logN
    BY <1>8, <1>16, <2>1
  <2>3. server_logm(i) = logN /\ ~ Stale(i)
    BY <1>9, <1>11, <1>16, <2>1
  <2> QED
    BY <1>13, <1>14, <1>16, <2>2, <2>3
<1>17. CASE ~ last(i) /\ i = 2
  <2>1. 1 \in 1 .. i /\ 2 \in 1 .. i /\ 1 - 1 = 0 /\ 2 - 1 = 1 /\ 1 .. i - 1 = {1}
    BY <1>17
  <2>2. logm[2] = logm[1] /\ logm[1] = IF last(1) THEN c(1) ELSE logN
    BY <1>8, <1>17, <2>1
  <2>3. server_logm(i) = logN
    BY <1>9, <1>17
  <2>4. Stale(i) <=> last(1) /\ (logN - c(1)) % (2 * logt) # 0
    BY <1>11, <1>17, <2>1
  <2>5. CASE last(1)
    <3>1. c(1) \in 0 .. logN /\ c(1) <= logN
      BY <1>10, <1>13, <2>1
    <3>2. (inverse_scale(c(1)) * Pow2[logN]) % t = 1 <=> (logN - c(1)) % (2 * logt) = 0
      BY <1>12, <1>13, <3>1
    <3> QED
      BY <1>7, <1>17, <2>2, <2>3, <2>4, <2>5, <3>2
  <2>6. CASE ~ last(1)
    <3>1. logm[i] = logN /\ ~ Stale(i)
      BY <1>17, <2>2, <2>4, <2>6
    <3> QED
      BY <1>13, <1>14, <2>3, <3>1
  <2> QED
    BY <2>5, <2>6
<1> QED
  BY <1>5, <1>15, <1>16, <1>17

-----------------------------------------------------------------------------
\* The operations on polynomials are operations on polynomials.
LEMMA ZeroOne ==
  /\ \A f \in Poly : \A i \in 0 .. N - 1 : f[i] \in 0 .. t - 1
  /\ \A c \in Nat : Const(c) \in Poly
  /\ Zero \in Poly
  /\ \A k : Monomial(k) \in Poly
<1>1. N \in Nat /\ t \in Nat /\ t >= 3 /\ 0 \in 0 .. t - 1 /\ 1 \in 0 .. t - 1
  BY Degree
<1>2. \A f \in Poly : \A i \in 0 .. N - 1 : f[i] \in 0 .. t - 1
  BY DEF Poly
<1>3. ASSUME NEW c \in Nat PROVE Const(c) \in Poly
  <2>1. c % t \in 0 .. t - 1
    BY <1>1, QuotientIs
  <2> DEFINE x == c % t
  <2> HIDE DEF x
  <2>2. x \in 0 .. t - 1 => [i \in 0 .. N - 1 |-> IF i = 0 THEN x ELSE 0] \in Poly
    BY <1>1 DEF Poly
  <2> QED
    BY <2>1, <2>2 DEF Const, x
<1>4. Zero \in Poly
  BY <1>3 DEF Zero
<1>5. ASSUME NEW k PROVE Monomial(k) \in Poly
  BY <1>1 DEF Monomial, Poly
<1> QED
  BY <1>2, <1>3, <1>4, <1>5

\* Sums,
LEMMA PlusType ==
  ASSUME NEW f \in Poly, NEW g \in Poly
  PROVE  Plus(f, g) \in Poly
<1>1. ASSUME NEW i \in 0 .. N - 1 PROVE (f[i] + g[i]) % t \in 0 .. t - 1
  <2> DEFINE x == f[i] + g[i]
  <2>1. x \in Nat /\ t \in Nat \ {0}
    BY ZeroOne, Degree
  <2> HIDE DEF x
  <2>2. x % t \in 0 .. t - 1
    BY <2>1, QuotientIs
  <2> QED
    BY <2>2 DEF x
<1> QED
  BY <1>1 DEF Plus, Poly

\* multiples
LEMMA ScaledType ==
  ASSUME NEW f \in Poly, NEW c \in Nat
  PROVE  Scaled(f, c) \in Poly
<1>1. ASSUME NEW i \in 0 .. N - 1 PROVE (f[i] * c) % t \in 0 .. t - 1
  <2> DEFINE x == f[i] * c
  <2>1. x \in Nat /\ t \in Nat \ {0}
    <3>1. f[i] \in Nat
      BY ZeroOne, Degree
    <3> QED
      BY <3>1, Degree
  <2> HIDE DEF x
  <2>2. x % t \in 0 .. t - 1
    BY <2>1, QuotientIs
  <2> QED
    BY <2>2 DEF x
<1> QED
  BY <1>1 DEF Scaled, Poly

\* The sum is that of a loop.
LEMMA TotalIs ==
  ASSUME NEW n \in Nat, NEW h \in [0 .. n - 1 -> Nat]
  PROVE  \E s \in [0 .. n -> Nat] :
           /\ s[0] = 0 /\ \A i \in 0 .. n - 1 : s[i + 1] = s[i] + h[i]
           /\ Total(h, n) = s[n]
<1> DEFINE G == [i \in Nat |-> [x \in Nat |-> IF i < n THEN x + h[i] ELSE x]]
           F(f) == [i \in 0 .. n |-> IF i = 0 THEN 0 ELSE f[i - 1] + h[i - 1]]
           p == CHOOSE f : f = F(f)
<1>1. G \in [Nat -> [Nat -> Nat]]
  <2>1. ASSUME NEW i \in Nat, NEW x \in Nat
        PROVE  (IF i < n THEN x + h[i] ELSE x) \in Nat
    <3>1. CASE i < n
      <4>1. h[i] \in Nat
        BY <3>1
      <4> QED
        BY <3>1, <4>1
    <3> QED
      BY <3>1
  <2> QED
    BY <2>1
<1>2. PICK s \in [0 .. n -> Nat] :
        s[0] = 0 /\ \A i \in 0 .. n - 1 : s[i + 1] = G[i][s[i]]
  <2> HIDE DEF G
  <2>1. Runs(Nat, 0, n, G) # {}
    BY <1>1, Iterated
  <2> QED
    BY <2>1 DEF Runs
<1>3. \A i \in 0 .. n - 1 : s[i + 1] = s[i] + h[i]
  <2>1. ASSUME NEW i \in 0 .. n - 1 PROVE s[i + 1] = s[i] + h[i]
    <3>1. i \in Nat /\ i < n /\ s[i] \in Nat
      OBVIOUS
    <3>2. G[i][s[i]] = s[i] + h[i]
      BY <3>1
    <3> QED
      BY <1>2, <3>2
  <2> QED
    BY <2>1
<1>4. s = F(s)
  <2>1. ASSUME NEW i \in 0 .. n PROVE s[i] = F(s)[i]
    <3>1. CASE i = 0
      BY <1>2, <3>1
    <3>2. CASE i # 0
      <4>1. i - 1 \in 0 .. n - 1 /\ (i - 1) + 1 = i
        BY <3>2
      <4>2. s[(i - 1) + 1] = s[i - 1] + h[i - 1]
        BY <1>3, <4>1
      <4> QED
        BY <3>2, <4>1, <4>2
    <3> QED
      BY <3>1, <3>2
  <2>2. F(s) = [i \in 0 .. n |-> F(s)[i]] /\ s = [i \in 0 .. n |-> s[i]]
    OBVIOUS
  <2> HIDE DEF F
  <2> QED
    BY <2>1, <2>2
<1>5. p = F(p)
  <2> HIDE DEF F
  <2> QED
    BY <1>4
<1>6. Total(h, n) = p[n]
  BY DEF Total
<1> HIDE DEF p
<1>7. p[n] = s[n]
  <2> DEFINE S == {i \in 0 .. n : p[i] = s[i]}
  <2>1. 0 \in S
    <3>1. p[0] = 0
      BY <1>5
    <3> QED
      BY <1>2, <3>1
  <2>2. ASSUME NEW i \in 0 .. n - 1, i \in S PROVE i + 1 \in S
    <3>1. i + 1 \in 0 .. n /\ i + 1 # 0 /\ (i + 1) - 1 = i
      OBVIOUS
    <3>2. p[i + 1] = p[i] + h[i]
      BY <1>5, <3>1
    <3> QED
      BY <1>3, <2>2, <3>1, <3>2
  <2> HIDE DEF S
  <2>3. \A i \in 0 .. n : i \in S
    BY <2>1, <2>2, UpTo
  <2>4. n \in S
    BY <2>3
  <2> QED
    BY <2>4 DEF S
<1> QED
  BY <1>2, <1>3, <1>6, <1>7

\* and products of polynomials are polynomials.
LEMMA TimesType ==
  ASSUME NEW f \in Poly, NEW g \in Poly
  PROVE  Times(f, g) \in Poly
<1> DEFINE h(c) == [i \in 0 .. N - 1 |->
                      f[i] * (IF i <= c THEN g[c - i] ELSE t - g[N + c - i])]
<1>1. ASSUME NEW c \in 0 .. N - 1 PROVE Total(h(c), N) % t \in 0 .. t - 1
  <2>1. ASSUME NEW i \in 0 .. N - 1
        PROVE  f[i] * (IF i <= c THEN g[c - i] ELSE t - g[N + c - i]) \in Nat
    <3> DEFINE x == IF i <= c THEN g[c - i] ELSE t - g[N + c - i]
    <3>1. x \in Nat
      <4>1. CASE i <= c
        <5>1. c - i \in 0 .. N - 1
          BY <4>1, Degree
        <5>2. g[c - i] \in 0 .. t - 1
          BY <5>1, ZeroOne
        <5> QED
          BY <4>1, <5>2, Degree
      <4>2. CASE ~ (i <= c)
        <5>1. N + c - i \in 0 .. N - 1
          BY <4>2, Degree
        <5> DEFINE y == g[N + c - i]
        <5>2. y \in 0 .. t - 1
          BY <5>1, ZeroOne
        <5> HIDE DEF y
        <5>3. t - y \in Nat
          BY <5>2, Degree
        <5> QED
          BY <4>2, <5>3 DEF y
      <4> QED
        BY <4>1, <4>2
    <3>2. f[i] \in Nat
      BY ZeroOne, Degree
    <3> HIDE DEF x
    <3>3. f[i] * x \in Nat
      BY <3>1, <3>2
    <3> QED
      BY <3>3 DEF x
  <2>2. h(c) \in [0 .. N - 1 -> Nat]
    BY <2>1
  <2> HIDE DEF h
  <2>3. N \in Nat /\ t \in Nat \ {0}
    BY Degree
  <2>4. Total(h(c), N) \in Nat
    <3> DEFINE u == h(c)
    <3> HIDE DEF u
    <3>1. u \in [0 .. N - 1 -> Nat]
      BY <2>2 DEF u
    <3>2. \E s \in [0 .. N -> Nat] : Total(u, N) = s[N]
      BY <2>3, <3>1, TotalIs
    <3>3. Total(u, N) \in Nat
      BY <2>3, <3>2
    <3> QED
      BY <3>3 DEF u
  <2> QED
    BY <2>3, <2>4, QuotientIs
<1>2. Times(f, g) = [c \in 0 .. N - 1 |-> Total(h(c), N) % t]
  BY DEF Times
<1> HIDE DEF h
<1> QED
  BY <1>1, <1>2 DEF Poly

-----------------------------------------------------------------------------
\* The sizes of one step of the expansion.
LEMMA StepSizes ==
  ASSUME NEW i \in 0 .. logN - 1
  PROVE  /\ Pow2[i] \in Nat \ {0} /\ Pow2[i + 1] = 2 * Pow2[i] /\ Pow2[i + 1] <= N
         /\ \E h \in Nat \ {0} :
              Pow2[i] * (2 * h) = N /\ galois_elt(i) = 2 * h + 1
         /\ index_raw(i) \in Nat /\ index_raw(i) = 2 * N - Pow2[i]
         /\ index(i) = N - Pow2[i] /\ index(i) \in Nat
<1> DEFINE P == Pow2[i]
           h == Pow2[logN - i - 1]
           g == 2 * h
<1>1. i \in Nat /\ logN - i - 1 \in Nat /\ logN \in Nat
  BY Degree
<1>2. P \in Nat \ {0} /\ Pow2[i + 1] = 2 * P /\ h \in Nat \ {0}
  BY <1>1, Pow2Is, Pow2Type
<1>3. N \in Nat \ {0} /\ (2 * P) * h = N
  <2>1. Pow2[(i + 1) + (logN - i - 1)] = Pow2[i + 1] * Pow2[logN - i - 1]
    BY <1>1, Pow2Sum
  <2>2. (i + 1) + (logN - i - 1) = logN
    BY <1>1
  <2> QED
    BY <1>2, <2>1, <2>2, Degree
<1> HIDE DEF P, h
<1>4. 2 * P <= N
  <2>1. (2 * P) * 1 <= (2 * P) * h
    BY <1>2, TimesMonotone
  <2> QED
    BY <1>2, <1>3, <2>1
<1>5. g \in Nat /\ P * g = N /\ g * P = N
  BY <1>2, <1>3
<1>6. galois_elt(i) = g + 1
  <2>1. N + P = (g + 1) * P + 0
    BY <1>2, <1>5
  <2>2. g + 1 \in Nat /\ 0 \in 0 .. P - 1
    BY <1>2, <1>5
  <2> HIDE DEF g
  <2> DEFINE q == g + 1
             a == N + P
  <2> HIDE DEF q, a
  <2>3. q \in Nat /\ a = q * P + 0
    BY <2>1, <2>2 DEF q, a
  <2>4. a \div P = q
    BY <1>2, <2>2, <2>3, DivIs
  <2> QED
    BY <2>4 DEF galois_elt, a, q, P
<1>7. index_raw(i) = 2 * N - P /\ index_raw(i) \in Nat
  BY <1>2, <1>3, <1>4 DEF index_raw, P
<1>8. index(i) = N - P
  <2> DEFINE w == 2 * N
             b == N - P
             x == (w - P) * (g + 1)
  <2>1. w \in Nat \ {0} /\ b \in 0 .. w - 1 /\ b \in Nat
    BY <1>2, <1>3, <1>4
  <2>2. x = g * w + b
    <3>1. (w - P) * (g + 1) = w * g + w - P * g - P
      <4> HIDE DEF g, w
      <4> QED
        BY <1>2, <1>5, <2>1
    <3>2. w * g = g * w /\ w * g \in Nat
      <4> HIDE DEF g, w
      <4> QED
        BY <1>5, <2>1
    <3> QED
      BY <1>2, <1>3, <1>5, <3>1, <3>2
  <2> HIDE DEF w, b, x, g
  <2>3. x % w = b
    BY <1>5, <2>1, <2>2, DivIs
  <2> QED
    BY <1>6, <1>7, <2>3 DEF index, x, w, b
<1>9. N - P \in Nat
  BY <1>2, <1>3, <1>4
<1> QED
  BY <1>2, <1>4, <1>5, <1>6, <1>7, <1>8, <1>9 DEF P

\* Which power becomes which: there is one and only one for each.
LEMMA ShiftPlace ==
  ASSUME NEW s \in Nat
  PROVE  /\ \A c \in 0 .. N - 1 : \E i \in 0 .. N - 1 : (i + s) % N = c
         /\ \A i, k \in 0 .. N - 1 : (i + s) % N = (k + s) % N => i = k
<1> DEFINE q == s \div N
           r == s % N
<1>1. N \in Nat \ {0}
  BY Degree
<1>2. q \in Nat /\ r \in 0 .. N - 1 /\ s = q * N + r
  BY <1>1, QuotientIs
<1> HIDE DEF q, r
<1>3. \A a \in Nat : (a + s) % N = (a + r) % N
  <2>1. ASSUME NEW a \in Nat PROVE (a + s) % N = (a + r) % N
    <3> DEFINE x == a + s
               y == a + r
    <3>1. x \in Nat /\ y \in Nat /\ x + 0 * N = y + q * N
      BY <1>1, <1>2
    <3> HIDE DEF x, y
    <3>2. 0 \in Nat /\ q \in Nat
      BY <1>2
    <3>3. x % N = y % N
      BY ONLY <1>1, <3>1, <3>2, SameRemainder
    <3> QED
      BY <3>3 DEF x, y
  <2> QED
    BY <2>1
<1>4. \A a \in 0 .. N - 1 : (a + r) % N = IF a + r < N THEN a + r ELSE (a + r) - N
  <2>1. ASSUME NEW a \in 0 .. N - 1
        PROVE  (a + r) % N = IF a + r < N THEN a + r ELSE (a + r) - N
    <3> DEFINE x == a + r
    <3>1. x \in Nat /\ x < 2 * N
      BY <1>1, <1>2
    <3> HIDE DEF x
    <3>2. ASSUME x < N PROVE x % N = x
      <4>1. x = 0 * N + x /\ x \in 0 .. N - 1 /\ 0 \in Nat
        BY <1>1, <3>1, <3>2
      <4> QED
        BY <1>1, <4>1, DivIs
    <3>3. ASSUME ~ (x < N) PROVE x % N = x - N
      <4> DEFINE y == x - N
      <4>1. x = 1 * N + y /\ y \in 0 .. N - 1 /\ 1 \in Nat
        BY <1>1, <3>1, <3>3
      <4> HIDE DEF y
      <4>2. x % N = y
        BY <1>1, <4>1, DivIs
      <4> QED
        BY <4>2 DEF y
    <3>4. x % N = IF x < N THEN x ELSE x - N
      BY <3>2, <3>3
    <3> QED
      BY <3>4 DEF x
  <2> QED
    BY <2>1
<1>5. ASSUME NEW c \in 0 .. N - 1 PROVE \E i \in 0 .. N - 1 : (i + s) % N = c
  <2> DEFINE i == IF c >= r THEN c - r ELSE c - r + N
  <2>1. i \in 0 .. N - 1 /\ i \in Nat
    BY <1>1, <1>2
  <2>2. c = IF i + r < N THEN i + r ELSE (i + r) - N
    BY <1>1, <1>2
  <2> HIDE DEF i
  <2>3. (i + s) % N = c
    BY <1>3, <1>4, <2>1, <2>2
  <2> QED
    BY <2>1, <2>3
<1>6. ASSUME NEW i \in 0 .. N - 1, NEW k \in 0 .. N - 1, (i + s) % N = (k + s) % N
      PROVE  i = k
  <2>1. (i + r) % N = (k + r) % N
    BY <1>1, <1>3, <1>6
  <2>2. (IF i + r < N THEN i + r ELSE (i + r) - N) = (IF k + r < N THEN k + r ELSE (k + r) - N)
    BY <1>4, <2>1
  <2> QED
    BY <1>1, <1>2, <2>2
<1> QED
  BY <1>5, <1>6

\* x^elt for an odd elt: each power is met, by one power alone.
LEMMA GaloisPlace ==
  ASSUME NEW h \in Nat
  PROVE  LET elt == 2 * h + 1
         IN  /\ \A c \in 0 .. N - 1 : \E i \in 0 .. N - 1 : (i * elt) % N = c
             /\ \A i, k \in 0 .. N - 1 : (i * elt) % N = (k * elt) % N => i = k
<1> DEFINE elt == 2 * h + 1
<1>1. N \in Nat \ {0} /\ N = Pow2[logN] /\ logN \in Nat /\ elt \in Nat
  BY Degree
<1>2. PICK v \in Nat, j \in Nat : elt * v = 1 + N * j
  <2>1. \E v, j \in Nat : elt * v = 1 + Pow2[logN] * j
    BY <1>1, OddInverse
  <2> QED
    BY <1>1, <2>1
<1> HIDE DEF elt
<1>3. ASSUME NEW a \in Nat, NEW b \in Nat, a = b * (elt * v) PROVE a % N = b % N
  <2> DEFINE y == b * j
  <2>1. a = b + y * N /\ y \in Nat
    <3>1. b * (1 + N * j) = b + (b * j) * N
      BY <1>1
    <3> QED
      BY <1>2, <1>3, <3>1
  <2> HIDE DEF y
  <2>2. a + 0 * N = b + y * N /\ 0 \in Nat /\ y \in Nat /\ a \in Nat /\ b \in Nat
    BY <1>1, <2>1
  <2>3. N \in Nat \ {0}
    BY <1>1
  <2> QED
    BY ONLY <2>2, <2>3, SameRemainder
<1>4. \A c \in 0 .. N - 1 : c % N = c
  <2>1. ASSUME NEW c \in 0 .. N - 1 PROVE c % N = c
    <3>1. c = 0 * N + c /\ 0 \in Nat
      BY <1>1
    <3> QED
      BY <1>1, <3>1, DivIs
  <2> QED
    BY <2>1
<1>5. ASSUME NEW c \in 0 .. N - 1 PROVE \E i \in 0 .. N - 1 : (i * elt) % N = c
  <2> DEFINE x == c * v
             i == x % N
  <2>1. x \in Nat /\ c \in Nat
    BY <1>1, <1>2
  <2>2. i \in 0 .. N - 1 /\ i \in Nat
    <3> HIDE DEF x
    <3>1. x % N \in 0 .. N - 1
      BY <1>1, <2>1, QuotientIs
    <3> QED
      BY <1>1, <3>1
  <2>3. i % N = x % N
    <3> HIDE DEF i
    <3>1. i % N = i
      BY <1>4, <2>2
    <3> QED
      BY <3>1 DEF i
  <2> HIDE DEF i
  <2>4. (i * elt) % N = (x * elt) % N
    <3> HIDE DEF x
    <3> QED
      BY <1>1, <2>1, <2>2, <2>3, SameTimes
  <2>5. x * elt = c * (elt * v) /\ x * elt \in Nat
    BY <1>1, <1>2, <2>1
  <2>6. (x * elt) % N = c % N
    <3> DEFINE a == x * elt
    <3> HIDE DEF a
    <3>1. a \in Nat /\ a = c * (elt * v)
      BY <2>5 DEF a
    <3>2. a % N = c % N
      BY <1>3, <2>1, <3>1
    <3> QED
      BY <3>2 DEF a
  <2> QED
    BY <1>4, <2>2, <2>4, <2>6
<1>6. ASSUME NEW i \in 0 .. N - 1, NEW k \in 0 .. N - 1, (i * elt) % N = (k * elt) % N
      PROVE  i = k
  <2> DEFINE a == i * elt
             b == k * elt
  <2>1. i \in Nat /\ k \in Nat /\ a \in Nat /\ b \in Nat
    BY <1>1
  <2>2. (a * v) % N = (b * v) % N
    <3>1. a % N = b % N
      BY <1>6
    <3> HIDE DEF a, b
    <3> QED
      BY <1>1, <1>2, <2>1, <3>1, SameTimes
  <2> DEFINE x == a * v
             y == b * v
  <2>3. x \in Nat /\ y \in Nat /\ x = i * (elt * v) /\ y = k * (elt * v)
    BY <1>1, <1>2, <2>1
  <2>4. x % N = y % N
    BY <2>2
  <2> HIDE DEF x, y
  <2>5. x % N = i % N /\ y % N = k % N
    BY <1>3, <2>1, <2>3
  <2> QED
    BY <1>4, <2>4, <2>5
<1> QED
  BY <1>5, <1>6 DEF elt

-----------------------------------------------------------------------------
\* A polynomial of one term, its coefficient reduced.
Term(k, a) == [i \in 0 .. N - 1 |-> IF i = k THEN a % t ELSE 0]

\* Zero, the monomials and the constants are such polynomials.
LEMMA TermIs ==
  /\ \A k : Term(k, 0) = Zero /\ Monomial(k) = Term(k, 1)
  /\ \A a : Const(a) = Term(0, a)
  /\ \A k, a, b : a % t = b % t => Term(k, a) = Term(k, b)
  /\ \A k, a : a \in Nat => Term(k, a) \in Poly
  /\ \A a \in Nat : a % t \in 0 .. t - 1 /\ (a % t) % t = a % t
<1>1. N \in Nat /\ t \in Nat \ {0} /\ 0 \in 0 .. t - 1 /\ 1 \in 0 .. t - 1
  BY Degree
<1>2. \A x \in 0 .. t - 1 : x % t = x
  <2>1. ASSUME NEW x \in 0 .. t - 1 PROVE x % t = x
    <3>1. x = 0 * t + x /\ 0 \in Nat
      BY <1>1
    <3> QED
      BY <1>1, <3>1, DivIs
  <2> QED
    BY <2>1
<1>3. \A a \in Nat : a % t \in 0 .. t - 1
  BY <1>1, QuotientIs
<1>4. 0 % t = 0 /\ 1 % t = 1
  BY <1>1, <1>2
<1>5. \A k : Term(k, 0) = Zero /\ Monomial(k) = Term(k, 1)
  BY <1>4 DEF Term, Zero, Const, Monomial
<1>6. \A a : Const(a) = Term(0, a)
  BY DEF Term, Const
<1>7. \A k, a, b : a % t = b % t => Term(k, a) = Term(k, b)
  BY DEF Term
<1>8. ASSUME NEW k, NEW a \in Nat PROVE Term(k, a) \in Poly
  <2> DEFINE x == a % t
  <2>1. x \in 0 .. t - 1
    BY <1>3
  <2> HIDE DEF x
  <2>2. [i \in 0 .. N - 1 |-> IF i = k THEN x ELSE 0] \in [0 .. N - 1 -> 0 .. t - 1]
    BY <1>1, <2>1
  <2> QED
    BY <2>2 DEF Term, Poly, x
<1>9. \A a \in Nat : (a % t) % t = a % t
  BY <1>2, <1>3
<1> QED
  BY <1>3, <1>5, <1>6, <1>7, <1>8, <1>9

\* The same as a number of t, with the other sign.
Negative(a) == t - (a % t)

\* What is added to a coefficient to make it zero.
LEMMA NegativeIs ==
  ASSUME NEW a \in Nat
  PROVE  /\ Negative(a) \in Nat
         /\ (a + Negative(a)) % t = 0 /\ (Negative(a) + a) % t = 0
         /\ (a + Negative(Negative(a))) % t = (2 * a) % t
<1> DEFINE q == a \div t
           r == a % t
<1>1. t \in Nat \ {0}
  BY Degree
<1>2. q \in Nat /\ r \in 0 .. t - 1 /\ r \in Nat /\ a = q * t + r
  <2>1. a \div t \in Nat /\ a % t \in 0 .. t - 1 /\ a = (a \div t) * t + (a % t)
    BY <1>1, QuotientIs
  <2> QED
    BY <1>1, <2>1
<1>3. Negative(a) = t - r
  BY DEF Negative
<1> HIDE DEF q, r
<1> DEFINE n == t - r
<1>4. n \in Nat /\ Negative(a) = n
  BY <1>1, <1>2, <1>3
<1>5. ASSUME NEW b \in Nat, b % t = r PROVE (a + b) % t = (2 * a) % t
  <2> DEFINE p == b \div t
             x == a + b
             y == 2 * a
  <2>1. p \in Nat /\ b = p * t + r
    <3>1. b \div t \in Nat /\ b = (b \div t) * t + (b % t)
      BY <1>1, QuotientIs
    <3> QED
      BY <1>5, <3>1
  <2> HIDE DEF p
  <2>2. x \in Nat /\ y \in Nat /\ x + q * t = y + p * t
    <3> DEFINE u == q * t
               v == p * t
    <3>1. u \in Nat /\ v \in Nat
      BY <1>1, <1>2, <2>1
    <3> HIDE DEF u, v
    <3>2. a = u + r /\ b = v + r
      BY <1>2, <2>1 DEF u, v
    <3>3. x \in Nat /\ y \in Nat /\ x + u = y + v
      BY <1>2, <3>1, <3>2
    <3> QED
      BY <3>3 DEF u, v
  <2> HIDE DEF x, y
  <2>3. x % t = y % t
    BY ONLY <1>1, <1>2, <2>1, <2>2, SameRemainder
  <2> QED
    BY <2>3 DEF x, y
<1>6. (a + n) % t = 0
  <2> DEFINE x == a + n
             p == q + 1
  <2>1. x = p * t + 0 /\ 0 \in 0 .. t - 1 /\ p \in Nat
    BY <1>1, <1>2
  <2> HIDE DEF x, p
  <2>2. x % t = 0
    BY <1>1, <2>1, DivIs
  <2> QED
    BY <2>2 DEF x
<1>7. n + a = a + n
  BY <1>2, <1>4
<1>8. (a + Negative(n)) % t = (2 * a) % t
  <2> DEFINE b == t - (n % t)
  <2>1. CASE r = 0
    <3>1. n = 1 * t + 0 /\ 0 \in 0 .. t - 1 /\ 1 \in Nat
      BY <1>1, <2>1
    <3>2. n % t = 0
      BY <1>1, <1>4, <3>1, DivIs
    <3>3. b = t
      BY <1>1, <3>2
    <3>4. t % t = 0
      BY <1>1, <2>1, <3>2
    <3> QED
      BY <1>1, <1>5, <2>1, <3>3, <3>4 DEF Negative
  <2>2. CASE r # 0
    <3>1. n = 0 * t + n /\ n \in 0 .. t - 1 /\ 0 \in Nat
      BY <1>1, <1>2, <2>2
    <3>2. n % t = n
      BY <1>1, <3>1, DivIs
    <3>3. b = r
      BY <1>1, <1>2, <3>2
    <3>4. r = 0 * t + r
      BY <1>1, <1>2
    <3>5. r % t = r
      BY <1>1, <1>2, <3>1, <3>4, DivIs
    <3> QED
      BY <1>2, <1>5, <3>3, <3>5 DEF Negative
  <2> QED
    BY <2>1, <2>2
<1> QED
  BY <1>4, <1>6, <1>7, <1>8

\* Terms of the same power are added
LEMMA PlusTerm ==
  ASSUME NEW k, NEW a \in Nat, NEW b \in Nat
  PROVE  Plus(Term(k, a), Term(k, b)) = Term(k, a + b)
<1>1. N \in Nat /\ t \in Nat \ {0}
  BY Degree
<1> DEFINE x == a % t
           y == b % t
<1>2. (x + y) % t = (a + b) % t
  <2> DEFINE p == a \div t
             q == b \div t
             u == x + y
             v == a + b
  <2>1. p \in Nat /\ x \in Nat /\ a = p * t + x /\ q \in Nat /\ y \in Nat /\ b = q * t + y
    <3>1. /\ a \div t \in Nat /\ a % t \in 0 .. t - 1 /\ a = (a \div t) * t + (a % t)
          /\ b \div t \in Nat /\ b % t \in 0 .. t - 1 /\ b = (b \div t) * t + (b % t)
      BY <1>1, QuotientIs
    <3> QED
      BY <1>1, <3>1
  <2> HIDE DEF p, q, x, y
  <2> DEFINE m == p + q
  <2>2. m \in Nat /\ m * t = p * t + q * t
    BY <1>1, <2>1
  <2>3. u \in Nat /\ v \in Nat /\ 0 \in Nat /\ u + m * t = v + 0 * t
    <3> DEFINE c == p * t
               d == q * t
    <3>1. c \in Nat /\ d \in Nat
      BY <1>1, <2>1
    <3>2. a = c + x /\ b = d + y /\ m * t = c + d
      BY <2>1, <2>2
    <3> HIDE DEF c, d, m
    <3> QED
      BY <1>1, <2>1, <3>1, <3>2
  <2> HIDE DEF u, v, m
  <2>4. u % t = v % t
    BY ONLY <1>1, <2>2, <2>3, SameRemainder
  <2> QED
    BY <2>4 DEF u, v
<1>3. (0 + 0) % t = 0
  <2>1. 0 % t = 0
    BY <1>1
  <2> QED
    BY <2>1
<1> HIDE DEF x, y
<1>4. Term(k, a) = [i \in 0 .. N - 1 |-> IF i = k THEN x ELSE 0]
      /\ Term(k, b) = [i \in 0 .. N - 1 |-> IF i = k THEN y ELSE 0]
  BY DEF Term, x, y
<1>5. Plus(Term(k, a), Term(k, b)) = [i \in 0 .. N - 1 |-> IF i = k THEN (x + y) % t ELSE 0]
  BY <1>3, <1>4 DEF Plus
<1> QED
  BY <1>2, <1>5 DEF Term

\* and multiplied in their coefficients.
LEMMA ScaledTerm ==
  ASSUME NEW k, NEW a \in Nat, NEW c \in Nat
  PROVE  Scaled(Term(k, a), c) = Term(k, a * c)
<1>1. N \in Nat /\ t \in Nat \ {0}
  BY Degree
<1> DEFINE x == a % t
<1>2. (x * c) % t = (a * c) % t
  <2>1. x \in Nat /\ x % t = a % t
    BY <1>1, TermIs, SMTT(20)
  <2> HIDE DEF x
  <2>2. t \in Nat \ {0} /\ x \in Nat /\ a \in Nat /\ c \in Nat /\ x % t = a % t
    BY <1>1, <2>1
  <2> QED
    BY ONLY <2>2, SameTimes, ZenonT(40)
<1>3. (0 * c) % t = 0
  <2>1. 0 % t = 0 /\ 0 * c = 0
    BY <1>1
  <2> QED
    BY <2>1
<1> HIDE DEF x
<1>4. Term(k, a) = [i \in 0 .. N - 1 |-> IF i = k THEN x ELSE 0]
  BY DEF Term, x
<1>5. Scaled(Term(k, a), c) = [i \in 0 .. N - 1 |-> IF i = k THEN (x * c) % t ELSE 0]
  BY <1>3, <1>4 DEF Scaled
<1> QED
  BY <1>2, <1>5 DEF Term

-----------------------------------------------------------------------------
\* Multiplied by a power of x, a polynomial is one, and a term a term.
LEMMA Shifted ==
  ASSUME NEW s \in Nat
  PROVE  /\ \A f \in Poly : multiply_power_of_X(f, s) \in Poly
         /\ \A k \in 0 .. N - 1, a \in Nat :
              multiply_power_of_X(Term(k, a), s) =
                Term((k + s) % N, IF (k + s) % (2 * N) >= N THEN Negative(a) ELSE a)
<1> DEFINE at(c) == CHOOSE i \in 0 .. N - 1 : (i + s) % N = c
<1>1. \A c \in 0 .. N - 1 : at(c) \in 0 .. N - 1 /\ (at(c) + s) % N = c
  BY ShiftPlace
<1>2. \A f : multiply_power_of_X(f, s) =
        [c \in 0 .. N - 1 |->
           IF (at(c) + s) % (2 * N) >= N THEN (t - f[at(c)]) % t ELSE f[at(c)]]
  BY DEF multiply_power_of_X, Moved
<1>3. \A i, k \in 0 .. N - 1 : (i + s) % N = (k + s) % N => i = k
  BY ShiftPlace
<1> HIDE DEF at
<1>4. ASSUME NEW f \in Poly PROVE multiply_power_of_X(f, s) \in Poly
  <2>1. ASSUME NEW c \in 0 .. N - 1
        PROVE  (IF (at(c) + s) % (2 * N) >= N THEN (t - f[at(c)]) % t ELSE f[at(c)])
                 \in 0 .. t - 1
    <3> DEFINE x == f[at(c)]
               y == t - x
    <3>1. x \in 0 .. t - 1
      BY <1>1, ZeroOne
    <3>2. y \in Nat /\ t \in Nat \ {0}
      BY <3>1, Degree
    <3> HIDE DEF x, y
    <3>3. y % t \in 0 .. t - 1
      BY <3>2, QuotientIs
    <3> QED
      BY <3>1, <3>3 DEF x, y
  <2> QED
    BY <1>2, <2>1 DEF Poly
<1>5. ASSUME NEW k \in 0 .. N - 1, NEW a \in Nat
      PROVE  multiply_power_of_X(Term(k, a), s) =
               Term((k + s) % N, IF (k + s) % (2 * N) >= N THEN Negative(a) ELSE a)
  <2> DEFINE g == multiply_power_of_X(Term(k, a), s)
             minus == (k + s) % (2 * N) >= N
             h == Term((k + s) % N, IF minus THEN Negative(a) ELSE a)
             p == (k + s) % N
  <2>1. ASSUME NEW c \in 0 .. N - 1 PROVE g[c] = h[c]
    <3>1. at(c) \in 0 .. N - 1
      BY <1>1
    <3>2. CASE c = p
      <4>1. at(c) = k
        BY <1>1, <1>3, <3>2
      <4>2. Term(k, a)[k] = a % t
        BY DEF Term
      <4>3. g[c] = IF minus THEN (t - (a % t)) % t ELSE a % t
        BY <1>2, <4>1, <4>2
      <4>4. h[c] = IF minus THEN Negative(a) % t ELSE a % t
        BY <3>2 DEF Term
      <4> QED
        BY <4>3, <4>4 DEF Negative
    <3>3. CASE c # p
      <4>1. at(c) # k
        BY <1>1, <3>3
      <4>2. Term(k, a)[at(c)] = 0
        BY <3>1, <4>1 DEF Term
      <4>3. (t - 0) % t = 0
        BY Degree
      <4>4. g[c] = 0
        BY <1>2, <4>2, <4>3
      <4>5. h[c] = 0
        BY <3>3 DEF Term
      <4> QED
        BY <4>4, <4>5
    <3> QED
      BY <3>2, <3>3
  <2>2. g = [c \in 0 .. N - 1 |-> g[c]]
    BY <1>2
  <2>3. h = [c \in 0 .. N - 1 |-> h[c]]
    BY DEF Term
  <2> HIDE DEF g, h
  <2>4. g = h
    BY <2>1, <2>2, <2>3
  <2> QED
    BY <2>4 DEF g, h
<1> QED
  BY <1>4, <1>5

\* With an odd power of x for x, a polynomial is one, and a term a term.
LEMMA Substituted ==
  ASSUME NEW h \in Nat
  PROVE  /\ \A f \in Poly : apply_galois(f, 2 * h + 1) \in Poly
         /\ \A k \in 0 .. N - 1, a \in Nat :
              apply_galois(Term(k, a), 2 * h + 1) =
                Term((k * (2 * h + 1)) % N,
                     IF (k * (2 * h + 1)) % (2 * N) >= N THEN Negative(a) ELSE a)
<1> DEFINE s == 2 * h + 1
           at(c) == CHOOSE i \in 0 .. N - 1 : (i * s) % N = c
<1>1. \A c \in 0 .. N - 1 : at(c) \in 0 .. N - 1 /\ (at(c) * s) % N = c
  BY GaloisPlace
<1>2. \A f : apply_galois(f, s) =
        [c \in 0 .. N - 1 |->
           IF (at(c) * s) % (2 * N) >= N THEN (t - f[at(c)]) % t ELSE f[at(c)]]
  BY DEF apply_galois, Moved
<1>3. \A i, k \in 0 .. N - 1 : (i * s) % N = (k * s) % N => i = k
  BY GaloisPlace
<1> HIDE DEF at, s
<1>4. ASSUME NEW f \in Poly PROVE apply_galois(f, s) \in Poly
  <2>1. ASSUME NEW c \in 0 .. N - 1
        PROVE  (IF (at(c) * s) % (2 * N) >= N THEN (t - f[at(c)]) % t ELSE f[at(c)])
                 \in 0 .. t - 1
    <3> DEFINE x == f[at(c)]
               y == t - x
    <3>1. x \in 0 .. t - 1
      BY <1>1, ZeroOne
    <3>2. y \in Nat /\ t \in Nat \ {0}
      BY <3>1, Degree
    <3> HIDE DEF x, y
    <3>3. y % t \in 0 .. t - 1
      BY <3>2, QuotientIs
    <3> QED
      BY <3>1, <3>3 DEF x, y
  <2> QED
    BY <1>2, <2>1 DEF Poly
<1>5. ASSUME NEW k \in 0 .. N - 1, NEW a \in Nat
      PROVE  apply_galois(Term(k, a), s) =
               Term((k * s) % N, IF (k * s) % (2 * N) >= N THEN Negative(a) ELSE a)
  <2> DEFINE g == apply_galois(Term(k, a), s)
             minus == (k * s) % (2 * N) >= N
             f == Term((k * s) % N, IF minus THEN Negative(a) ELSE a)
             p == (k * s) % N
  <2>1. ASSUME NEW c \in 0 .. N - 1 PROVE g[c] = f[c]
    <3>1. at(c) \in 0 .. N - 1
      BY <1>1
    <3>2. CASE c = p
      <4>1. at(c) = k
        BY <1>1, <1>3, <3>2
      <4>2. Term(k, a)[k] = a % t
        BY DEF Term
      <4>3. g[c] = IF minus THEN (t - (a % t)) % t ELSE a % t
        BY <1>2, <4>1, <4>2
      <4>4. f[c] = IF minus THEN Negative(a) % t ELSE a % t
        BY <3>2 DEF Term
      <4> QED
        BY <4>3, <4>4 DEF Negative
    <3>3. CASE c # p
      <4>1. at(c) # k
        BY <1>1, <3>3
      <4>2. Term(k, a)[at(c)] = 0
        BY <3>1, <4>1 DEF Term
      <4>3. (t - 0) % t = 0
        BY Degree
      <4>4. g[c] = 0
        BY <1>2, <4>2, <4>3
      <4>5. f[c] = 0
        BY <3>3 DEF Term
      <4> QED
        BY <4>4, <4>5
    <3> QED
      BY <3>2, <3>3
  <2>2. g = [c \in 0 .. N - 1 |-> g[c]]
    BY <1>2
  <2>3. f = [c \in 0 .. N - 1 |-> f[c]]
    BY DEF Term
  <2> HIDE DEF g, f
  <2>4. g = f
    BY <2>1, <2>2, <2>3
  <2> QED
    BY <2>4 DEF g, f
<1> QED
  BY <1>4, <1>5 DEF s

-----------------------------------------------------------------------------
\* Both halves of a step of the expansion are polynomials.
LEMMA HalvesType ==
  ASSUME NEW i \in 0 .. logN - 1, NEW f \in Poly
  PROVE  low(f, i) \in Poly /\ high(f, i) \in Poly
<1>1. PICK h \in Nat \ {0} : galois_elt(i) = 2 * h + 1
  BY StepSizes
<1> DEFINE g == apply_galois(f, galois_elt(i))
<1>2. g \in Poly
  BY <1>1, Substituted
<1> HIDE DEF g
<1>3. index_raw(i) \in Nat /\ index(i) \in Nat
  BY StepSizes
<1>4. low(f, i) \in Poly
  BY <1>2, PlusType DEF low, g
<1>5. multiply_power_of_X(f, index_raw(i)) \in Poly /\ multiply_power_of_X(g, index(i)) \in Poly
  BY <1>2, <1>3, Shifted
<1>6. high(f, i) \in Poly
  BY <1>5, PlusType DEF high, g
<1> QED
  BY <1>4, <1>6

\* A term whose power is an even multiple of 2^i doubles in the first half and
\* is gone from the second; with an odd multiple it is the other way round.
LEMMA HalvesOfTerm ==
  ASSUME NEW i \in 0 .. logN - 1, NEW q \in Nat, NEW a \in Nat, q * Pow2[i] < N
  PROVE  /\ low(Term(q * Pow2[i], a), i) =
              IF q % 2 = 0 THEN Term(q * Pow2[i], 2 * a) ELSE Zero
         /\ high(Term(q * Pow2[i], a), i) =
              IF q % 2 = 0 THEN Zero ELSE Term(q * Pow2[i] - Pow2[i], 2 * a)
<1> DEFINE P == Pow2[i]
           k == q * P
           f == Term(k, a)
           w == 2 * N
<1>1. P \in Nat \ {0} /\ N \in Nat \ {0} /\ 2 * P <= N /\ w \in Nat \ {0}
  BY StepSizes, Degree
<1>2. index_raw(i) = w - P /\ index_raw(i) \in Nat /\ index(i) = N - P /\ index(i) \in Nat
  BY StepSizes
<1>3. PICK h \in Nat \ {0} : P * (2 * h) = N /\ galois_elt(i) = 2 * h + 1
  BY StepSizes
<1>4. k \in 0 .. N - 1 /\ k \in Nat
  BY <1>1
<1>5. q # 0 => P <= k
  <2>1. ASSUME q # 0 PROVE P <= k
    <3>1. 1 * P <= q * P
      <4>1. 1 \in Nat /\ q \in Nat /\ P \in Nat /\ 1 <= q
        BY <1>1, <2>1
      <4> QED
        BY ONLY <4>1, TimesMonotone
    <3> QED
      BY <1>1, <3>1
  <2> QED
    BY <2>1
<1>6. q = 0 => k = 0
  BY <1>1
<1>7. k * (2 * h + 1) = k + q * N
  <2>1. k * (2 * h + 1) = k + q * (P * (2 * h))
    BY <1>1
  <2> QED
    BY <1>3, <2>1
<1> HIDE DEF P
<1> DEFINE e == k * galois_elt(i)
           b == IF q % 2 = 0 THEN a ELSE Negative(a)
<1>8. e % N = k /\ (e % w >= N <=> q % 2 # 0)
  <2>1. e = q * N + k
    BY <1>1, <1>3, <1>4, <1>7
  <2> DEFINE u == q \div 2
  <2>2. u \in Nat /\ (q % 2 = 0 \/ q % 2 = 1) /\ q = 2 * u + (q % 2)
    OBVIOUS
  <2> HIDE DEF e, k, u
  <2>3. e % N = k
    BY <1>1, <1>4, <2>1, DivIs
  <2>4. CASE q % 2 = 0
    <3>1. e = u * w + k /\ k \in 0 .. w - 1
      BY <1>1, <1>4, <2>1, <2>2, <2>4
    <3> HIDE DEF w
    <3>2. w \in Nat \ {0} /\ u \in Nat /\ k \in 0 .. w - 1 /\ e = u * w + k
      BY <1>1, <2>2, <3>1 DEF w
    <3>3. e % w = k
      BY ONLY <3>2, DivIs
    <3> QED
      BY <1>1, <1>4, <2>3, <2>4, <3>3
  <2>5. CASE q % 2 # 0
    <3> DEFINE m == k + N
    <3>1. q = 2 * u + 1
      BY <2>2, <2>5
    <3>2. (2 * u + 1) * N = u * (2 * N) + N
      BY <1>1, <2>2
    <3>3. e = u * w + m /\ m \in 0 .. w - 1
      BY <1>1, <1>4, <2>1, <2>2, <3>1, <3>2
    <3> HIDE DEF w, m
    <3>4. w \in Nat \ {0} /\ u \in Nat /\ m \in 0 .. w - 1 /\ e = u * w + m
      BY <1>1, <2>2, <3>3 DEF w
    <3>5. e % w = m
      BY ONLY <3>4, DivIs
    <3>6. m >= N
      BY <1>1, <1>4 DEF m
    <3> QED
      BY <1>1, <1>4, <2>3, <2>5, <3>5, <3>6
  <2> QED
    BY <2>2, <2>4, <2>5
<1> HIDE DEF e
<1> DEFINE g == apply_galois(f, galois_elt(i))
<1>9. b \in Nat /\ g = Term(k, b)
  <2>1. apply_galois(Term(k, a), 2 * h + 1) =
          Term((k * (2 * h + 1)) % N,
               IF (k * (2 * h + 1)) % (2 * N) >= N THEN Negative(a) ELSE a)
    BY <1>4, Substituted
  <2>2. g = Term(e % N, IF e % w >= N THEN Negative(a) ELSE a)
    BY <1>3, <2>1 DEF e
  <2>3. b \in Nat
    BY NegativeIs
  <2> QED
    BY <1>8, <2>2, <2>3
<1>10. low(f, i) = IF q % 2 = 0 THEN Term(k, 2 * a) ELSE Zero
  <2>1. low(f, i) = Plus(Term(k, a), Term(k, b))
    BY <1>9 DEF low
  <2> HIDE DEF b, k, f
  <2>2. low(f, i) = Term(k, a + b)
    BY <1>9, <2>1, PlusTerm
  <2>3. CASE q % 2 = 0
    <3>1. a + b = 2 * a
      BY <2>3 DEF b
    <3> QED
      BY <2>2, <2>3, <3>1
  <2>4. CASE q % 2 # 0
    <3>1. (a + b) % t = 0 /\ 0 % t = 0
      <4>1. b = Negative(a)
        BY <2>4 DEF b
      <4>2. 0 % t = 0
        BY Degree
      <4> QED
        BY <4>1, <4>2, NegativeIs
    <3>2. Term(k, a + b) = Term(k, 0)
      BY <3>1, TermIs
    <3> QED
      BY <2>2, <2>4, <3>2, TermIs
  <2> QED
    BY <2>3, <2>4
<1>11. high(f, i) = IF q % 2 = 0 THEN Zero ELSE Term(k - P, 2 * a)
  <2> DEFINE p == IF q = 0 THEN N - P ELSE k - P
             c == IF q = 0 THEN Negative(a) ELSE a
             d == IF q = 0 THEN b ELSE Negative(b)
             x == k + (w - P)
             y == k + (N - P)
  <2>1. x \in Nat /\ y \in Nat /\ p \in 0 .. N - 1 /\ p \in Nat
    BY <1>1, <1>4, <1>5, <1>6
  <2>2. x % N = p /\ (x % w >= N <=> q = 0)
    <3>1. CASE q = 0
      <4>1. x = 1 * N + p /\ 1 \in Nat
        BY <1>1, <1>6, <3>1
      <4>2. x = 0 * w + x /\ x \in 0 .. w - 1 /\ x >= N /\ 0 \in Nat
        BY <1>1, <1>6, <3>1
      <4>3. w \in Nat \ {0}
        BY <1>1
      <4> HIDE DEF x, w, p
      <4>4. x % N = p
        BY <1>1, <2>1, <4>1, DivIs
      <4>5. x % w = x
        BY <4>2, <4>3, SmallMod
      <4> QED
        BY <3>1, <4>2, <4>4, <4>5
    <3>2. CASE q # 0
      <4>1. x = 2 * N + p /\ 2 \in Nat
        BY <1>1, <1>4, <1>5, <3>2
      <4>2. x = 1 * w + p /\ p \in 0 .. w - 1 /\ p < N /\ 1 \in Nat
        BY <1>1, <1>4, <1>5, <3>2
      <4> HIDE DEF x, w, p
      <4>3. x % N = p /\ x % w = p
        BY <1>1, <2>1, <4>1, <4>2, DivIs, ZenonT(30)
      <4> QED
        BY <1>1, <2>1, <3>2, <4>2, <4>3
    <3> QED
      BY <3>1, <3>2
  <2>3. y % N = p /\ (y % w >= N <=> q # 0)
    <3>1. CASE q = 0
      <4>1. y = 0 * N + p /\ 0 \in Nat
        BY <1>1, <1>6, <3>1
      <4>2. y = 0 * w + p /\ p \in 0 .. w - 1 /\ p < N
        BY <1>1, <1>6, <2>1, <3>1
      <4> HIDE DEF y, w, p
      <4>3. y % N = p /\ y % w = p
        BY <1>1, <2>1, <4>1, <4>2, DivIs, ZenonT(30)
      <4> QED
        BY <1>1, <2>1, <3>1, <4>2, <4>3
    <3>2. CASE q # 0
      <4>1. y = 1 * N + p /\ 1 \in Nat
        BY <1>1, <1>4, <1>5, <3>2
      <4>2. y = 0 * w + y /\ y \in 0 .. w - 1 /\ y >= N /\ 0 \in Nat
        BY <1>1, <1>4, <1>5, <3>2
      <4>3. w \in Nat \ {0}
        BY <1>1
      <4> HIDE DEF y, w, p
      <4>4. y % N = p
        BY <1>1, <2>1, <4>1, DivIs
      <4>5. y % w = y
        BY <4>2, <4>3, SmallMod
      <4> QED
        BY <3>2, <4>2, <4>4, <4>5
    <3> QED
      BY <3>1, <3>2
  <2>4. multiply_power_of_X(f, w - P) = Term(p, c)
    <3>1. multiply_power_of_X(Term(k, a), w - P) =
            Term(x % N, IF x % (2 * N) >= N THEN Negative(a) ELSE a)
      <4>1. w - P \in Nat
        BY <1>2
      <4> QED
        BY <1>4, <4>1, Shifted
    <3> QED
      BY <2>2, <3>1
  <2>5. multiply_power_of_X(g, N - P) = Term(p, d)
    <3>1. multiply_power_of_X(Term(k, b), N - P) =
            Term(y % N, IF y % (2 * N) >= N THEN Negative(b) ELSE b)
      <4>1. N - P \in Nat
        BY <1>2
      <4> QED
        BY <1>4, <1>9, <4>1, Shifted
    <3> QED
      BY <1>9, <2>3, <3>1
  <2>6. c \in Nat /\ d \in Nat
    BY <1>9, NegativeIs
  <2>7. high(f, i) = Plus(Term(p, c), Term(p, d))
    BY <1>2, <2>4, <2>5 DEF high
  <2> HIDE DEF p, c, d, b, f, k
  <2>8. high(f, i) = Term(p, c + d)
    BY <2>6, <2>7, PlusTerm
  <2>9. CASE q % 2 = 0
    <3>1. b = a /\ (c + d) % t = 0 /\ 0 % t = 0
      <4>1. b = a
        BY <2>9 DEF b
      <4>2. 0 % t = 0
        BY Degree
      <4>3. (c = Negative(a) /\ d = a) \/ (c = a /\ d = Negative(a))
        BY <4>1 DEF c, d
      <4> QED
        BY <4>1, <4>2, <4>3, NegativeIs
    <3>2. Term(p, c + d) = Term(p, 0)
      BY <3>1, TermIs
    <3> QED
      BY <2>8, <2>9, <3>2, TermIs
  <2>10. CASE q % 2 # 0
    <3>1. q # 0
      BY <2>10
    <3>2. p = k - P /\ c = a /\ d = Negative(Negative(a))
      BY <2>10, <3>1 DEF p, c, d, b
    <3>3. (c + d) % t = (2 * a) % t
      BY <3>2, NegativeIs
    <3>4. Term(p, c + d) = Term(p, 2 * a)
      BY <3>3, TermIs
    <3> QED
      BY <2>8, <2>10, <3>2, <3>4
  <2> QED
    BY <2>9, <2>10
<1> QED
  BY <1>10, <1>11 DEF P

-----------------------------------------------------------------------------
\* A step doubles the ciphertexts, the last one only adds what is wanted.
LEMMA DoubledIs ==
  ASSUME NEW i \in 0 .. logN - 1, NEW s \in Seq(Poly)
  PROVE  /\ doubled(s, i) \in Seq(Poly) /\ Len(doubled(s, i)) = 2 * Len(s)
         /\ \A a \in 1 .. Len(s) : /\ doubled(s, i)[a] = low(s[a], i)
                                   /\ doubled(s, i)[a + Len(s)] = high(s[a], i)
<1> DEFINE n == Len(s)
           u == [a \in 1 .. n |-> low(s[a], i)]
           v == [a \in 1 .. n |-> high(s[a], i)]
<1>1. n \in Nat /\ DOMAIN s = 1 .. n
  OBVIOUS
<1>2. doubled(s, i) = u \o v
  BY <1>1 DEF doubled
<1>3. u \in [1 .. n -> Poly] /\ v \in [1 .. n -> Poly]
  <2>1. ASSUME NEW a \in 1 .. n PROVE low(s[a], i) \in Poly /\ high(s[a], i) \in Poly
    <3>1. s[a] \in Poly
      BY <1>1, ElementOfSeq
    <3> QED
      BY <3>1, HalvesType
  <2> QED
    BY <2>1
<1>4. \A a \in 1 .. n : u[a] = low(s[a], i) /\ v[a] = high(s[a], i)
  OBVIOUS
<1> HIDE DEF u, v
<1>5. u \in Seq(Poly) /\ v \in Seq(Poly) /\ Len(u) = n /\ Len(v) = n
  BY <1>1, <1>3, LenIs
<1> HIDE DEF n
<1>6. u \o v \in Seq(Poly) /\ Len(u \o v) = 2 * n
  BY <1>1, <1>5
<1>7. \A a \in 1 .. n : (u \o v)[a] = u[a] /\ (u \o v)[a + n] = v[a]
  <2>1. ASSUME NEW a \in 1 .. n PROVE (u \o v)[a] = u[a] /\ (u \o v)[a + n] = v[a]
    <3>1. a \in 1 .. n + n /\ a + n \in 1 .. n + n /\ a <= n /\ ~ (a + n <= n) /\ (a + n) - n = a
      BY <1>1
    <3> QED
      BY <1>5, <3>1
  <2> QED
    BY <2>1
<1>8. ASSUME NEW a \in 1 .. n
      PROVE  doubled(s, i)[a] = low(s[a], i) /\ doubled(s, i)[a + n] = high(s[a], i)
  BY <1>2, <1>4, <1>7
<1> QED
  BY <1>2, <1>6, <1>8 DEF n

\* The last step makes as many as are wanted, from at least half as many.
LEMMA LastStepIs ==
  ASSUME NEW i \in 0 .. logN - 1, NEW s \in Seq(Poly),
         NEW m \in Nat, Len(s) <= m, m <= 2 * Len(s)
  PROVE  LET e == last_step(s, i, m)
         IN  /\ e \in Seq(Poly) /\ Len(e) = m
             /\ \A a \in 1 .. Len(s) :
                  e[a] = IF a > m - Len(s) THEN Scaled(s[a], 2) ELSE low(s[a], i)
             /\ \A a \in 1 .. m - Len(s) : e[a + Len(s)] = high(s[a], i)
<1> DEFINE n == Len(s)
           x == m - n
           u == [a \in 1 .. n |-> IF a > x THEN Scaled(s[a], 2) ELSE low(s[a], i)]
           v == [a \in 1 .. x |-> high(s[a], i)]
<1>1. n \in Nat /\ DOMAIN s = 1 .. n /\ x \in Nat /\ x <= n /\ m = n + x
  OBVIOUS
<1>2. last_step(s, i, m) = u \o v
  BY <1>1 DEF last_step
<1>3. u \in [1 .. n -> Poly] /\ v \in [1 .. x -> Poly]
  <2>1. ASSUME NEW a \in 1 .. n
        PROVE  low(s[a], i) \in Poly /\ high(s[a], i) \in Poly /\ Scaled(s[a], 2) \in Poly
    <3>1. s[a] \in Poly /\ 2 \in Nat
      BY <1>1, ElementOfSeq
    <3> QED
      BY <3>1, HalvesType, ScaledType
  <2>2. \A a \in 1 .. x : a \in 1 .. n
    BY <1>1
  <2> HIDE DEF x, n
  <2> QED
    BY <2>1, <2>2
<1>4. /\ \A a \in 1 .. n : u[a] = IF a > x THEN Scaled(s[a], 2) ELSE low(s[a], i)
      /\ \A a \in 1 .. x : v[a] = high(s[a], i)
  OBVIOUS
<1> HIDE DEF u, v, x
<1>5. u \in Seq(Poly) /\ v \in Seq(Poly) /\ Len(u) = n /\ Len(v) = x
  BY <1>1, <1>3, LenIs
<1> HIDE DEF n
<1>6. u \o v \in Seq(Poly) /\ Len(u \o v) = m
  BY <1>1, <1>5
<1>7. \A a \in 1 .. n : (u \o v)[a] = u[a]
  <2>1. ASSUME NEW a \in 1 .. n PROVE (u \o v)[a] = u[a]
    <3>1. a \in 1 .. n + x /\ a <= n
      BY <1>1
    <3> QED
      BY <1>5, <3>1
  <2> QED
    BY <2>1
<1>8. \A a \in 1 .. x : (u \o v)[a + n] = v[a]
  <2>1. ASSUME NEW a \in 1 .. x PROVE (u \o v)[a + n] = v[a]
    <3>1. a + n \in 1 .. n + x /\ ~ (a + n <= n) /\ (a + n) - n = a
      BY <1>1
    <3> QED
      BY <1>5, <3>1, SMTT(20)
  <2> QED
    BY <2>1
<1> QED
  BY <1>1, <1>2, <1>4, <1>6, <1>7, <1>8 DEF n, x

\* The size of the last step.
LEMMA Steps ==
  ASSUME NEW m \in Nat, Expandable(m)
  PROVE  /\ CeilLog2(m) \in 1 .. logN
         /\ Pow2[CeilLog2(m) - 1] < m /\ m <= 2 * Pow2[CeilLog2(m) - 1]
         /\ Pow2[CeilLog2(m)] = 2 * Pow2[CeilLog2(m) - 1]
<1> DEFINE c == CeilLog2(m)
<1>1. m \in 2 .. N /\ N \in Nat /\ logN \in Nat
  BY Degree DEF Expandable
<1>2. c \in Nat /\ m <= Pow2[c] /\ c <= logN /\ \A e \in Nat : m <= Pow2[e] => c <= e
  <2>1. m \in Nat \ {0} /\ N \in Nat \ {0} /\ m <= N
    BY <1>1
  <2>2. c <= CeilLog2(N)
    BY <2>1, CeilLog2Monotone
  <2>3. c \in 0 .. m /\ m <= Pow2[c] /\ \A e \in Nat : m <= Pow2[e] => c <= e
    BY <2>1, CeilLog2Is
  <2> HIDE DEF c
  <2> QED
    BY <2>2, <2>3 DEF logN
<1> HIDE DEF c
<1>3. c # 0
  BY <1>1, <1>2, Pow2Is
<1>4. c - 1 \in Nat
  BY <1>2, <1>3
<1>5. Pow2[c - 1] \in Nat /\ Pow2[c] = 2 * Pow2[c - 1]
  <2> DEFINE b == c - 1
  <2>1. b + 1 = c
    BY <1>2, <1>4
  <2> HIDE DEF b
  <2>2. Pow2[b] \in Nat /\ Pow2[b + 1] = 2 * Pow2[b]
    BY <1>4, Pow2Is, Pow2Type DEF b
  <2> QED
    BY <2>1, <2>2 DEF b
<1>6. ~ (m <= Pow2[c - 1])
  BY <1>2, <1>4
<1> QED
  BY <1>1, <1>2, <1>3, <1>5, <1>6 DEF c

\* The loop of expand_query.
LEMMA Expanding ==
  ASSUME NEW f \in Poly, NEW m \in Nat, Expandable(m)
  PROVE  LET logm == CeilLog2(m)
         IN  \E T : /\ T[0] = <<f>>
                    /\ \A i \in 0 .. logm - 2 : T[i + 1] = doubled(T[i], i)
                    /\ \A i \in 0 .. logm - 1 : T[i] \in Seq(Poly) /\ Len(T[i]) = Pow2[i]
                    /\ expand_query(f, m) = last_step(T[logm - 1], logm - 1, m)
<1> DEFINE logm == CeilLog2(m)
           n == logm - 1
           F(g) == [i \in 0 .. logm - 1 |->
                      IF i = 0 THEN <<f>> ELSE doubled(g[i - 1], i - 1)]
           T == CHOOSE g : g = F(g)
           G == [i \in Nat |-> [s \in Seq(Poly) |-> IF i < logN THEN doubled(s, i) ELSE s]]
<1>1. logm \in 1 .. logN /\ logN \in Nat
  BY Steps, Degree
<1>2. n \in Nat /\ 0 .. logm - 1 = 0 .. n /\ n < logN
  BY <1>1
<1>3. expand_query(f, m) = last_step(T[n], n, m)
  BY DEF expand_query
<1> HIDE DEF logm
<1>4. <<f>> \in Seq(Poly) /\ Len(<<f>>) = 1
  OBVIOUS
<1>5. G \in [Nat -> [Seq(Poly) -> Seq(Poly)]]
  <2>1. ASSUME NEW i \in Nat, NEW s \in Seq(Poly)
        PROVE  (IF i < logN THEN doubled(s, i) ELSE s) \in Seq(Poly)
    <3>1. CASE i < logN
      <4>1. i \in 0 .. logN - 1
        BY <1>1, <3>1
      <4> QED
        BY <3>1, <4>1, DoubledIs
    <3>2. CASE ~ (i < logN)
      BY <3>2
    <3> QED
      BY <3>1, <3>2
  <2> QED
    BY <2>1
<1>6. PICK h \in [0 .. n -> Seq(Poly)] :
        h[0] = <<f>> /\ \A i \in 0 .. n - 1 : h[i + 1] = doubled(h[i], i)
  <2> DEFINE a == <<f>>
             S == Seq(Poly)
  <2> HIDE DEF G, n, a, S
  <2>1. Runs(S, a, n, G) # {}
    BY <1>2, <1>4, <1>5, Iterated DEF S, a
  <2>2. PICK h : h \in Runs(S, a, n, G)
    BY <2>1
  <2>3. h \in [0 .. n -> S] /\ h[0] = a /\ \A i \in 0 .. n - 1 : h[i + 1] = G[i][h[i]]
    BY <2>2 DEF Runs
  <2>4. ASSUME NEW i \in 0 .. n - 1 PROVE h[i + 1] = doubled(h[i], i)
    <3>1. i \in 0 .. n /\ i \in Nat /\ i < logN
      BY <1>1, <1>2
    <3>2. h[i] \in Seq(Poly)
      BY <2>3, <3>1 DEF S
    <3>3. G[i][h[i]] = doubled(h[i], i)
      BY <3>1, <3>2 DEF G
    <3> QED
      BY <2>3, <3>3
  <2> QED
    BY <2>3, <2>4 DEF S, a
<1>7. h = F(h)
  <2>1. ASSUME NEW i \in 0 .. n PROVE h[i] = F(h)[i]
    <3>1. CASE i = 0
      BY <1>2, <1>6, <3>1
    <3>2. CASE i # 0
      <4>1. i - 1 \in 0 .. n - 1 /\ (i - 1) + 1 = i
        BY <1>2, <3>2
      <4>2. h[(i - 1) + 1] = doubled(h[i - 1], i - 1)
        BY <1>6, <4>1
      <4> QED
        BY <1>2, <3>2, <4>1, <4>2
    <3> QED
      BY <3>1, <3>2
  <2>2. F(h) = [i \in 0 .. n |-> F(h)[i]] /\ h = [i \in 0 .. n |-> h[i]]
    BY <1>2
  <2> HIDE DEF F
  <2> QED
    BY <2>1, <2>2
<1>8. T = F(T)
  <2> HIDE DEF F
  <2> QED
    BY <1>7
<1> HIDE DEF T
<1>9. T[0] = <<f>>
  BY <1>2, <1>8
<1>10. \A i \in 0 .. n - 1 : T[i + 1] = doubled(T[i], i)
  <2>1. ASSUME NEW i \in 0 .. n - 1 PROVE T[i + 1] = doubled(T[i], i)
    <3>1. i + 1 \in 0 .. logm - 1 /\ i + 1 # 0 /\ (i + 1) - 1 = i
      BY <1>2
    <3> QED
      BY <1>8, <3>1
  <2> QED
    BY <2>1
<1>11. \A i \in 0 .. n : T[i] \in Seq(Poly) /\ Len(T[i]) = Pow2[i]
  <2> DEFINE S == {i \in 0 .. n : T[i] \in Seq(Poly) /\ Len(T[i]) = Pow2[i]}
  <2>1. 0 \in S
    <3>1. Pow2[0] = 1 /\ 0 \in 0 .. n
      BY <1>2, Pow2Is
    <3> HIDE DEF n
    <3> QED
      BY <1>4, <1>9, <3>1
  <2>2. ASSUME NEW i \in 0 .. n - 1, i \in S PROVE i + 1 \in S
    <3>1. i \in 0 .. logN - 1 /\ i + 1 \in 0 .. n
      BY <1>1, <1>2
    <3>2. T[i] \in Seq(Poly) /\ Len(T[i]) = Pow2[i]
      BY <2>2
    <3>3. doubled(T[i], i) \in Seq(Poly) /\ Len(doubled(T[i], i)) = 2 * Pow2[i]
      BY <3>1, <3>2, DoubledIs
    <3>4. Pow2[i + 1] = 2 * Pow2[i]
      BY <3>1, StepSizes
    <3> QED
      BY <1>10, <3>1, <3>3, <3>4
  <2> HIDE DEF S
  <2>3. \A i \in 0 .. n : i \in S
    BY <1>2, <2>1, <2>2, UpTo
  <2> QED
    BY <2>3 DEF S
<1>12. logm - 2 = n - 1
  BY <1>1
<1> QED
  BY <1>2, <1>3, <1>9, <1>10, <1>11, <1>12 DEF logm

\* The expansion has as many ciphertexts as wanted.
LEMMA ExpandedType ==
  ASSUME NEW f \in Poly, NEW m \in Nat, Expandable(m)
  PROVE  expand_query(f, m) \in Seq(Poly) /\ Len(expand_query(f, m)) = m
<1> DEFINE n == CeilLog2(m) - 1
<1>1. n \in 0 .. logN - 1 /\ Pow2[n] < m /\ m <= 2 * Pow2[n] /\ n \in Nat
  BY Steps, Degree
<1>2. PICK T : /\ T[n] \in Seq(Poly) /\ Len(T[n]) = Pow2[n]
               /\ expand_query(f, m) = last_step(T[n], n, m)
  <2>1. n \in 0 .. CeilLog2(m) - 1
    BY <1>1
  <2> QED
    BY <2>1, Expanding
<1>3. Pow2[n] \in Nat
  BY <1>1, Pow2Type
<1> DEFINE s == T[n]
<1> HIDE DEF n, s
<1>4. s \in Seq(Poly) /\ Len(s) <= m /\ m <= 2 * Len(s)
  BY <1>1, <1>2, <1>3 DEF s
<1>5. last_step(s, n, m) \in Seq(Poly) /\ Len(last_step(s, n, m)) = m
  BY <1>1, <1>4, LastStepIs
<1> QED
  BY <1>2, <1>5 DEF s

\* Which ciphertexts of a step are not zero, for a query of one term.
LEMMA RemainderHalves ==
  ASSUME NEW P \in Nat \ {0}, NEW k \in Nat, NEW b \in 0 .. P - 1
  PROVE  /\ k % P # b => k % (2 * P) # b /\ k % (2 * P) # b + P
         /\ k % P = b =>
              \E q \in Nat : /\ k = q * P + b /\ k - b = q * P
                             /\ q % 2 = 0 => k % (2 * P) = b
                             /\ q % 2 # 0 => k % (2 * P) = b + P
<1> DEFINE w == 2 * P
           u == k \div w
           q == k \div P
           r == k % P
<1>1. b \in Nat /\ w \in Nat \ {0} /\ w = P + P
  OBVIOUS
<1>2. q \in Nat /\ r \in 0 .. P - 1 /\ r \in Nat /\ k = q * P + r
  <2>1. k \div P \in Nat /\ k % P \in 0 .. P - 1 /\ k = (k \div P) * P + (k % P)
    BY QuotientIs
  <2> QED
    BY <2>1
<1> HIDE DEF q, r
<1> DEFINE h == q \div 2
<1>3. h \in Nat /\ (q % 2 = 0 => q = 2 * h) /\ (q % 2 # 0 => q = 2 * h + 1)
  BY <1>2
<1> HIDE DEF h
<1>4. q % 2 = 0 => k % w = r
  <2>1. ASSUME q % 2 = 0 PROVE k % w = r
    <3>1. q * P = h * w
      BY <1>3, <2>1
    <3>2. w \in Nat \ {0} /\ h \in Nat /\ r \in 0 .. w - 1 /\ k = h * w + r
      BY <1>1, <1>2, <1>3, <3>1
    <3> HIDE DEF w
    <3> QED
      BY ONLY <3>2, DivIs
  <2> QED
    BY <2>1
<1>5. q % 2 # 0 => k % w = r + P
  <2>1. ASSUME q % 2 # 0 PROVE k % w = r + P
    <3> DEFINE m == r + P
    <3>1. q * P = h * w + P
      BY <1>3, <2>1
    <3>2. w \in Nat \ {0} /\ h \in Nat /\ m \in 0 .. w - 1 /\ k = h * w + m
      BY <1>1, <1>2, <1>3, <3>1
    <3> HIDE DEF w, m
    <3>3. k % w = m
      BY ONLY <3>2, DivIs
    <3> QED
      BY <3>3 DEF m
  <2> QED
    BY <2>1
<1>6. ASSUME k % P # b PROVE k % w # b /\ k % w # b + P
  <2>1. r # b
    BY <1>6 DEF r
  <2> HIDE DEF w
  <2> QED
    BY <1>1, <1>2, <1>4, <1>5, <2>1
<1>7. ASSUME k % P = b
      PROVE  \E x \in Nat : /\ k = x * P + b /\ k - b = x * P
                            /\ x % 2 = 0 => k % w = b
                            /\ x % 2 # 0 => k % w = b + P
  <2>1. r = b
    BY <1>7 DEF r
  <2>2. k = q * P + b /\ q * P \in Nat
    BY <1>2, <2>1
  <2>3. k - b = q * P
    BY <1>1, <2>2
  <2> HIDE DEF w
  <2> QED
    BY <1>2, <1>4, <1>5, <2>1, <2>2, <2>3
<1> QED
  BY <1>6, <1>7

\* expand_query turns the ciphertext of a * x^k into m selectors, for any m up to
\* N, whether a power of two or not: selector k holds a times the next power of
\* two, and the others hold zero, wherever the two halves of a step move x^k.
THEOREM ExpandedTerm ==
  ASSUME NEW m \in Nat, Expandable(m), NEW k \in 0 .. m - 1, NEW a \in Nat
  PROVE  \A j \in 1 .. m :
           expand_query(Term(k, a), m)[j] =
             IF j - 1 = k THEN Const(a * Pow2[CeilLog2(m)]) ELSE Zero
<1> DEFINE f == Term(k, a)
           logm == CeilLog2(m)
           n == logm - 1
<1>1. /\ logm \in 1 .. logN /\ logN \in Nat /\ n \in Nat /\ n \in 0 .. logN - 1
      /\ Pow2[n] < m /\ m <= 2 * Pow2[n] /\ Pow2[logm] = 2 * Pow2[n]
  BY Steps, Degree
<1>2. f \in Poly
  BY TermIs
<1>3. k \in 0 .. N - 1 /\ k \in Nat
  BY Degree DEF Expandable
<1>4. PICK T : /\ T[0] = <<f>>
               /\ \A i \in 0 .. logm - 2 : T[i + 1] = doubled(T[i], i)
               /\ \A i \in 0 .. logm - 1 : T[i] \in Seq(Poly) /\ Len(T[i]) = Pow2[i]
               /\ expand_query(f, m) = last_step(T[logm - 1], logm - 1, m)
  BY <1>2, Expanding
<1> HIDE DEF logm, f
<1> DEFINE is(i, b) == IF k % Pow2[i] = b THEN Term(k - b, a * Pow2[i]) ELSE Zero
\* What a step makes of what there is.
<1>5. ASSUME NEW i \in 0 .. logN - 1, NEW b \in 0 .. Pow2[i] - 1
      PROVE  low(is(i, b), i) = is(i + 1, b) /\ high(is(i, b), i) = is(i + 1, b + Pow2[i])
  <2> DEFINE P == Pow2[i]
             c == a * P
  <2>1. P \in Nat \ {0} /\ Pow2[i + 1] = 2 * P /\ N \in Nat \ {0} /\ 2 * P <= N
    BY StepSizes, Degree
  <2>2. c \in Nat /\ a * (2 * P) = 2 * c /\ b \in Nat
    BY <2>1
  <2>3. /\ is(i, b) = IF k % P = b THEN Term(k - b, c) ELSE Zero
        /\ is(i + 1, b) = IF k % (2 * P) = b THEN Term(k - b, 2 * c) ELSE Zero
        /\ is(i + 1, b + P) = IF k % (2 * P) = b + P THEN Term(k - (b + P), 2 * c) ELSE Zero
    BY <2>1, <2>2
  <2> HIDE DEF c, is
  <2>4. CASE k % P = b
    <3>1. PICK q \in Nat : /\ k = q * P + b /\ k - b = q * P
                           /\ q % 2 = 0 => k % (2 * P) = b
                           /\ q % 2 # 0 => k % (2 * P) = b + P
      <4> HIDE DEF P
      <4>1. P \in Nat \ {0} /\ k \in Nat /\ b \in 0 .. P - 1
        BY <1>3, <2>1 DEF P
      <4>2. k % P = b =>
              \E q \in Nat : /\ k = q * P + b /\ k - b = q * P
                             /\ q % 2 = 0 => k % (2 * P) = b
                             /\ q % 2 # 0 => k % (2 * P) = b + P
        BY ONLY <4>1, RemainderHalves
      <4> QED
        BY <2>4, <4>2
    <3>2. q * P < N /\ q * P \in Nat
      <4> HIDE DEF P
      <4>1. q * P \in Nat
        BY <2>1
      <4> QED
        BY <1>3, <2>1, <2>2, <3>1, <4>1
    <3>3. /\ low(Term(q * P, c), i) = IF q % 2 = 0 THEN Term(q * P, 2 * c) ELSE Zero
          /\ high(Term(q * P, c), i) = IF q % 2 = 0 THEN Zero ELSE Term(q * P - P, 2 * c)
      BY <2>2, <3>2, HalvesOfTerm
    <3> HIDE DEF P
    <3>4. q * P - P = k - (b + P) /\ b # b + P
      BY <1>3, <2>1, <2>2, <3>1, <3>2
    <3>5. is(i, b) = Term(q * P, c)
      BY <2>3, <2>4, <3>1
    <3>6. CASE q % 2 = 0
      BY <2>3, <3>1, <3>3, <3>4, <3>5, <3>6 DEF P
    <3>7. CASE q % 2 # 0
      BY <2>3, <3>1, <3>3, <3>4, <3>5, <3>7 DEF P
    <3> QED
      BY <3>6, <3>7
  <2>5. CASE k % P # b
    <3>1. k % (2 * P) # b /\ k % (2 * P) # b + P
      <4> HIDE DEF P
      <4>1. b \in 0 .. P - 1
        BY DEF P
      <4> QED
        BY <1>3, <2>1, <2>5, <4>1, RemainderHalves
    <3>2. low(Zero, i) = Zero /\ high(Zero, i) = Zero
      <4>1. 0 * P = 0 /\ 0 < N /\ 0 % 2 = 0 /\ 2 * 0 = 0
        BY <2>1
      <4>2. /\ low(Term(0 * P, 0), i) = Term(0 * P, 2 * 0)
            /\ high(Term(0 * P, 0), i) = Zero
        BY <4>1, HalvesOfTerm
      <4> QED
        BY <4>1, <4>2, TermIs
    <3> QED
      BY <2>3, <2>5, <3>1, <3>2
  <2> QED
    BY <2>4, <2>5
<1> HIDE DEF is
<1>6. ASSUME NEW i \in 0 .. n
      PROVE  \A b \in 0 .. Pow2[i] - 1 : T[i][b + 1] = is(i, b)
  <2> DEFINE S == {x \in 0 .. n : \A b \in 0 .. Pow2[x] - 1 : T[x][b + 1] = is(x, b)}
  <2>1. 0 \in S
    <3>1. Pow2[0] = 1 /\ 0 \in 0 .. n
      BY <1>1, Pow2Is
    <3>2. ASSUME NEW b \in 0 .. Pow2[0] - 1 PROVE T[0][b + 1] = is(0, b)
      <4>1. b = 0 /\ T[0][b + 1] = f
        BY <1>4, <3>1, <3>2
      <4>2. k % Pow2[0] = 0 /\ k - 0 = k /\ a * Pow2[0] = a
        BY <1>3, <3>1
      <4>3. is(0, 0) = Term(k, a)
        BY <4>2 DEF is
      <4> QED
        BY <4>1, <4>3 DEF f
    <3> QED
      BY <3>1, <3>2
  <2>2. ASSUME NEW x \in 0 .. n - 1, x \in S PROVE x + 1 \in S
    <3> DEFINE P == Pow2[x]
               s == T[x]
    <3>1. x \in 0 .. logN - 1 /\ x + 1 \in 0 .. n /\ x \in 0 .. logm - 2 /\ x \in 0 .. logm - 1
      BY <1>1
    <3>2. P \in Nat \ {0} /\ Pow2[x + 1] = 2 * P
      BY <3>1, StepSizes
    <3>3. s \in Seq(Poly) /\ Len(s) = P /\ T[x + 1] = doubled(s, x)
      BY <1>4, <3>1
    <3>4. \A c \in 1 .. P : doubled(s, x)[c] = low(s[c], x) /\ doubled(s, x)[c + P] = high(s[c], x)
      <4> HIDE DEF P, s
      <4> QED
        BY <3>1, <3>3, DoubledIs
    <3>5. \A b \in 0 .. P - 1 : s[b + 1] = is(x, b)
      BY <2>2
    <3>6. \A b \in 0 .. P - 1 : low(is(x, b), x) = is(x + 1, b)
                                /\ high(is(x, b), x) = is(x + 1, b + P)
      BY <1>5, <3>1
    <3> HIDE DEF P, s
    <3>7. ASSUME NEW b \in 0 .. 2 * P - 1 PROVE T[x + 1][b + 1] = is(x + 1, b)
      <4>1. CASE b < P
        <5>1. b \in 0 .. P - 1 /\ b + 1 \in 1 .. P
          BY <3>2, <4>1
        <5> QED
          BY <3>3, <3>4, <3>5, <3>6, <5>1
      <4>2. CASE ~ (b < P)
        <5> DEFINE c == b - P
        <5>1. c \in 0 .. P - 1 /\ c + 1 \in 1 .. P /\ (c + 1) + P = b + 1 /\ c + P = b
          BY <3>2, <4>2
        <5> HIDE DEF c
        <5>2. T[x + 1][(c + 1) + P] = high(s[c + 1], x)
          BY <3>3, <3>4, <5>1
        <5>3. high(s[c + 1], x) = is(x + 1, c + P)
          BY <3>5, <3>6, <5>1
        <5> QED
          BY <5>1, <5>2, <5>3
      <4> QED
        BY <4>1, <4>2
    <3> QED
      BY <3>1, <3>2, <3>7
  <2>3. S \in SUBSET (0 .. n)
    OBVIOUS
  <2> HIDE DEF S
  <2>4. \A x \in 0 .. n : x \in S
    BY <1>1, <2>1, <2>2, UpTo
  <2> QED
    BY <2>4 DEF S
<1> DEFINE P == Pow2[n]
           s == T[n]
           e == last_step(s, n, m)
<1>7. /\ s \in Seq(Poly) /\ Len(s) = P /\ P \in Nat \ {0} /\ P < m /\ m <= 2 * P
      /\ \A b \in 0 .. P - 1 : s[b + 1] = is(n, b)
      /\ expand_query(f, m) = e
  <2>1. n \in 0 .. n /\ n \in 0 .. logm - 1
    BY <1>1
  <2>2. P \in Nat \ {0}
    BY <1>1, Pow2Type
  <2> QED
    BY <1>1, <1>4, <1>6, <2>1, <2>2
<1>8. Pow2[n + 1] = 2 * P /\ Pow2[logm] = 2 * P
  BY <1>1, StepSizes
<1>9. \A b \in 0 .. P - 1 : low(is(n, b), n) = is(n + 1, b)
                            /\ high(is(n, b), n) = is(n + 1, b + P)
  BY <1>1, <1>5
<1> DEFINE sel(b) == IF b = k THEN Const(a * (2 * P)) ELSE Zero
\* Of two powers apart by P only one is less than m.
<1>10. ASSUME NEW b \in 0 .. m - 1 PROVE is(n + 1, b) = sel(b)
  <2>1. k \in 0 .. 2 * P - 1 /\ 2 * P \in Nat \ {0}
    BY <1>1, <1>7
  <2>2. k % (2 * P) = k
    <3> DEFINE w == 2 * P
    <3> HIDE DEF w
    <3>1. w \in Nat \ {0} /\ k \in 0 .. w - 1
      BY <2>1 DEF w
    <3>2. k % w = k
      BY <3>1, SmallMod
    <3> QED
      BY <3>2 DEF w
  <2>3. is(n + 1, b) = IF k = b THEN Term(k - b, a * (2 * P)) ELSE Zero
    BY <1>8, <2>2 DEF is
  <2>4. k = b => k - b = 0
    BY <1>3
  <2> QED
    BY <2>3, <2>4, TermIs
<1> HIDE DEF P, s, e
<1>11. /\ \A c \in 1 .. P : e[c] = IF c > m - P THEN Scaled(s[c], 2) ELSE low(s[c], n)
       /\ \A c \in 1 .. m - P : e[c + P] = high(s[c], n)
  <2> HIDE DEF n
  <2>1. n \in 0 .. logN - 1 /\ s \in Seq(Poly) /\ Len(s) <= m /\ m <= 2 * Len(s) /\ m \in Nat
    BY <1>1, <1>7
  <2>2. /\ \A c \in 1 .. Len(s) : last_step(s, n, m)[c] =
             IF c > m - Len(s) THEN Scaled(s[c], 2) ELSE low(s[c], n)
        /\ \A c \in 1 .. m - Len(s) : last_step(s, n, m)[c + Len(s)] = high(s[c], n)
    BY ONLY <2>1, LastStepIs
  <2> QED
    BY <1>7, <2>2 DEF e
<1>12. ASSUME NEW j \in 1 .. m PROVE e[j] = sel(j - 1)
  <2> DEFINE b == j - 1
  <2>1. b \in 0 .. m - 1 /\ b \in Nat /\ b + 1 = j
    OBVIOUS
  <2> HIDE DEF b
  <2>2. CASE j <= m - P
    <3>1. j \in 1 .. P /\ ~ (j > m - P) /\ b \in 0 .. P - 1
      BY <1>7, <2>1, <2>2
    <3>2. e[j] = is(n + 1, b)
      BY <1>7, <1>9, <1>11, <2>1, <3>1
    <3> QED
      BY <1>10, <2>1, <3>2 DEF b
  <2>3. CASE j > m - P /\ j <= P
    <3>1. j \in 1 .. P /\ b \in 0 .. P - 1 /\ b + P >= m
      BY <1>7, <2>1, <2>3
    <3>2. e[j] = Scaled(is(n, b), 2)
      BY <1>7, <1>11, <2>1, <2>3, <3>1
    <3>3. k % P = b <=> k = b
      <4>1. CASE k < P
        <5>1. k \in 0 .. P - 1
          BY <1>3, <1>7, <4>1
        <5>2. k % P = k
          BY <1>7, <5>1, SmallMod
        <5> QED
          BY <5>2
      <4>2. CASE ~ (k < P)
        <5> DEFINE x == k - P
        <5>1. k = 1 * P + x /\ x \in 0 .. P - 1 /\ 1 \in Nat
          BY <1>3, <1>7, <4>2
        <5> HIDE DEF x
        <5>2. k % P = x
          BY <1>7, <5>1, DivIs, ZenonT(40)
        <5>3. x # b /\ k # b
          BY <1>3, <1>7, <2>1, <3>1, <4>2 DEF x
        <5> QED
          BY <5>2, <5>3
      <4> QED
        BY <4>1, <4>2
    <3>4. CASE k = b
      <4>1. is(n, b) = Term(0, a * P)
        <5>1. k - b = 0
          BY <1>3, <3>4
        <5> QED
          BY <3>3, <3>4, <5>1 DEF is, P
      <4>2. a * P \in Nat /\ (a * P) * 2 = a * (2 * P)
        BY <1>7
      <4>3. Scaled(Term(0, a * P), 2) = Term(0, (a * P) * 2)
        BY <4>2, ScaledTerm
      <4>4. e[j] = Const(a * (2 * P))
        BY <3>2, <4>1, <4>2, <4>3, TermIs
      <4> QED
        BY <3>4, <4>4 DEF b
    <3>5. CASE k # b
      <4>1. is(n, b) = Zero
        BY <3>3, <3>5 DEF is, P
      <4>2. Scaled(Zero, 2) = Zero
        <5>1. Scaled(Term(0, 0), 2) = Term(0, 0 * 2) /\ 0 * 2 = 0
          BY ScaledTerm
        <5> QED
          BY <5>1, TermIs
      <4> QED
        BY <3>2, <3>5, <4>1, <4>2 DEF b
    <3> QED
      BY <3>4, <3>5
  <2>4. CASE j > P
    <3> DEFINE c == j - P
               x == c - 1
    <3>1. c \in 1 .. m - P /\ c + P = j /\ x \in 0 .. P - 1 /\ x + 1 = c /\ x + P = b
      BY <1>7, <2>1, <2>4
    <3> HIDE DEF c, x
    <3>2. e[c + P] = high(s[c], n)
      BY <1>11, <3>1
    <3>3. high(s[c], n) = is(n + 1, x + P)
      BY <1>7, <1>9, <3>1
    <3>4. e[j] = is(n + 1, b)
      BY <3>1, <3>2, <3>3
    <3> QED
      BY <1>10, <2>1, <3>4 DEF b
  <2> QED
    BY <1>7, <2>2, <2>3, <2>4
<1>13. ASSUME NEW j \in 1 .. m
       PROVE  expand_query(f, m)[j] = IF j - 1 = k THEN Const(a * Pow2[logm]) ELSE Zero
  BY <1>7, <1>8, <1>12
<1> QED
  BY <1>13 DEF f, logm

-----------------------------------------------------------------------------
\* n sequences, the last of length z, the others of length w.
Rows(S, n, w, z) ==
  {s \in Seq(Seq(S)) : /\ Len(s) = n
                       /\ \A j \in 1 .. n : Len(s[j]) = IF j = n THEN z ELSE w}

\* Element k of row j is where it belongs if all have the length w before it.
InPlace(s, n, w) ==
  \A j \in 1 .. n : \A k \in 1 .. Len(s[j]) : FlattenSeq(s)[(j - 1) * w + k] = s[j][k]

\* They can be put one after the other.
LEMMA Flattened ==
  ASSUME NEW S, NEW n \in Nat \ {0}, NEW w \in Nat, NEW z \in Nat,
         NEW s \in Rows(S, n, w, z)
  PROVE  /\ FlattenSeq(s) \in Seq(S) /\ Len(FlattenSeq(s)) = (n - 1) * w + z
         /\ InPlace(s, n, w)
<1> /\ s \in Seq(Seq(S)) /\ Len(s) = n
    /\ \A j \in 1 .. n : Len(s[j]) = IF j = n THEN z ELSE w
  BY DEF Rows
<1> DEFINE F(f) == [i \in 1 .. Len(s) |-> IF i = 1 THEN s[i] ELSE f[i - 1] \o s[i]]
           T == CHOOSE f : f = F(f)
           Q == Seq(S)
           G == [i \in Nat |-> [x \in Q |-> IF i < n THEN x \o s[i + 1] ELSE x]]
<1>1. FlattenSeq(s) = T[n]
  BY DEF FlattenSeq
<1>2. \A i \in 1 .. n : s[i] \in Q
  BY ElementOfSeq
<1>3. G \in [Nat -> [Q -> Q]] /\ <<>> \in Q
  <2>1. ASSUME NEW i \in Nat, NEW x \in Q
        PROVE  (IF i < n THEN x \o s[i + 1] ELSE x) \in Q
    <3>1. CASE i < n
      <4>1. i + 1 \in 1 .. n
        BY <3>1
      <4>2. s[i + 1] \in Q
        BY <1>2, <4>1
      <4> DEFINE y == s[i + 1]
      <4> HIDE DEF y
      <4>3. x \o y \in Q
        BY <4>2 DEF y
      <4> QED
        BY <3>1, <4>3 DEF y
    <3>2. CASE ~ (i < n)
      BY <3>2
    <3> QED
      BY <3>1, <3>2
  <2>2. <<>> \in Q
    OBVIOUS
  <2> HIDE DEF Q
  <2> QED
    BY <2>1, <2>2
<1>4. PICK h : /\ h[0] = <<>> /\ h \in [0 .. n -> Q]
               /\ \A i \in 0 .. n - 1 : h[i + 1] = h[i] \o s[i + 1]
  <2> DEFINE a == <<>>
  <2> HIDE DEF G, Q, a
  <2>1. Runs(Q, a, n, G) # {}
    BY <1>3, Iterated DEF a
  <2>2. PICK h : h \in Runs(Q, a, n, G)
    BY <2>1
  <2>3. h \in [0 .. n -> Q] /\ h[0] = a /\ \A i \in 0 .. n - 1 : h[i + 1] = G[i][h[i]]
    BY <2>2 DEF Runs
  <2>4. ASSUME NEW i \in 0 .. n - 1 PROVE h[i + 1] = h[i] \o s[i + 1]
    <3>1. i \in 0 .. n /\ i \in Nat /\ i < n
      OBVIOUS
    <3>2. h[i] \in Q
      BY <2>3, <3>1
    <3>3. G[i][h[i]] = h[i] \o s[i + 1]
      BY <3>1, <3>2 DEF G
    <3> QED
      BY <2>3, <3>3
  <2> QED
    BY <2>3, <2>4 DEF a
<1> DEFINE g == [i \in 1 .. n |-> h[i]]
<1>5. g = F(g)
  <2>1. ASSUME NEW i \in 1 .. n PROVE g[i] = F(g)[i]
    <3>1. CASE i = 1
      <4>1. 0 \in 0 .. n - 1 /\ 0 + 1 = 1
        OBVIOUS
      <4>2. h[1] = <<>> \o s[1]
        BY <1>4, <4>1
      <4>3. <<>> \o s[1] = s[1]
        BY <1>2, ConcatEmptySeq, <3>1
      <4> QED
        BY <3>1, <4>2, <4>3
    <3>2. CASE i # 1
      <4>1. i - 1 \in 0 .. n - 1 /\ (i - 1) + 1 = i /\ i - 1 \in 1 .. n
        BY <3>2
      <4>2. h[(i - 1) + 1] = h[i - 1] \o s[(i - 1) + 1]
        BY <1>4, <4>1
      <4> QED
        BY <3>2, <4>1, <4>2
    <3> QED
      BY <3>1, <3>2
  <2>2. F(g) = [i \in 1 .. n |-> F(g)[i]] /\ g = [i \in 1 .. n |-> g[i]]
    OBVIOUS
  <2> HIDE DEF F, g
  <2> QED
    BY <2>1, <2>2
<1>6. T = F(T)
  <2> HIDE DEF F, g
  <2> QED
    BY <1>5
<1> HIDE DEF T, g
<1>7. T[1] = s[1] /\ \A i \in 1 .. n - 1 : T[i + 1] = T[i] \o s[i + 1]
  <2>1. T[1] = s[1]
    BY <1>6
  <2>2. ASSUME NEW i \in 1 .. n - 1 PROVE T[i + 1] = T[i] \o s[i + 1]
    <3>1. i + 1 \in 1 .. Len(s) /\ i + 1 # 1 /\ (i + 1) - 1 = i
      OBVIOUS
    <3> QED
      BY <1>6, <3>1
  <2> QED
    BY <2>1, <2>2
<1> DEFINE size(i) == IF i = n THEN z ELSE w
           Is(i) == /\ T[i] \in Q /\ Len(T[i]) = (i - 1) * w + size(i)
                    /\ \A j \in 1 .. i : \A k \in 1 .. size(j) :
                         T[i][(j - 1) * w + k] = s[j][k]
           R == {i \in 0 .. n - 1 : Is(i + 1)}
<1>8. \A i \in 1 .. n : Len(s[i]) = size(i) /\ size(i) \in Nat
  OBVIOUS
<1>9. 0 \in R
  <2>1. 1 \in 1 .. n /\ 0 + 1 = 1 /\ (1 - 1) * w = 0
    OBVIOUS
  <2>2. T[1] \in Q /\ Len(T[1]) = size(1)
    BY <1>2, <1>7, <1>8, <2>1
  <2> HIDE DEF size, Q
  <2>3. ASSUME NEW j \in 1 .. 1, NEW k \in 1 .. size(j) PROVE T[1][(j - 1) * w + k] = s[j][k]
    <3>1. j = 1 /\ size(1) \in Nat /\ k \in 1 .. size(1)
      BY <1>8, <2>1
    <3>2. (1 - 1) * w + k = k
      BY <2>1, <3>1
    <3> QED
      BY <1>7, <3>1, <3>2
  <2>4. Len(T[1]) = (1 - 1) * w + size(1)
    BY <1>8, <2>1, <2>2
  <2>5. Is(1)
    BY <2>2, <2>3, <2>4
  <2> HIDE DEF Is
  <2> QED
    BY <2>1, <2>5
<1>10. ASSUME NEW i \in 0 .. (n - 1) - 1, i \in R PROVE i + 1 \in R
  <2> DEFINE p == i + 1
             u == T[p]
             v == s[p + 1]
             m == i * w
             c == p * w
  <2>1. p \in 1 .. n - 1 /\ p \in 1 .. n /\ p + 1 \in 1 .. n /\ p # n /\ p - 1 = i /\ i \in Nat
    OBVIOUS
  <2>2. m \in Nat /\ c \in Nat /\ c = m + w
    OBVIOUS
  <2>3. /\ u \in Q /\ Len(u) = (p - 1) * w + size(p)
        /\ \A j \in 1 .. p : \A k \in 1 .. size(j) : u[(j - 1) * w + k] = s[j][k]
    <3>1. Is(p)
      <4> HIDE DEF Is
      <4> QED
        BY <1>10
    <3> HIDE DEF Q, size
    <3> QED
      BY <3>1
  <2>4. v \in Q /\ Len(v) = size(p + 1) /\ size(p + 1) \in Nat
    BY <1>2, <1>8, <2>1
  <2>5. T[p + 1] = u \o v
    BY <1>7, <2>1
  <2> HIDE DEF u, v
  <2>6. Len(u) = c
    <3>1. size(p) = w
      BY <2>1
    <3> HIDE DEF p, c, size
    <3>2. (p - 1) * w = m
      BY <2>1
    <3> QED
      BY <2>2, <2>3, <3>1, <3>2
  <2>7. u \o v \in Q /\ Len(u \o v) = c + size(p + 1)
    <3> DEFINE y == size(p + 1)
    <3> HIDE DEF c, p, y
    <3>1. u \in Seq(S) /\ v \in Seq(S) /\ Len(u) = c /\ Len(v) = y
      BY <2>3, <2>4, <2>6 DEF y
    <3>2. u \o v \in Seq(S) /\ Len(u \o v) = Len(u) + Len(v)
      BY ONLY <3>1, ConcatProperties
    <3> QED
      BY <3>1, <3>2 DEF y
  <2>8. ASSUME NEW j \in 1 .. p + 1, NEW k \in 1 .. size(j)
        PROVE  (u \o v)[(j - 1) * w + k] = s[j][k]
    <3>1. CASE j = p + 1
      <4>1. (j - 1) * w = c /\ k \in 1 .. size(p + 1)
        BY <2>1, <3>1
      <4> HIDE DEF c, size
      <4>2. c + k \in 1 .. Len(u) + Len(v) /\ ~ (c + k <= Len(u)) /\ (c + k) - Len(u) = k
        <5> DEFINE y == size(p + 1)
        <5>1. c \in Nat /\ y \in Nat /\ k \in 1 .. y /\ Len(u) = c /\ Len(v) = y
          BY <2>2, <2>4, <2>6, <4>1
        <5> HIDE DEF y
        <5>2. c + k \in 1 .. c + y /\ ~ (c + k <= c) /\ (c + k) - c = k
          BY ONLY <5>1
        <5> QED
          BY ONLY <5>1, <5>2
      <4>3. (u \o v)[c + k] = v[k]
        BY <2>3, <2>4, <4>2, SMTT(20)
      <4> QED
        BY <3>1, <4>1, <4>3 DEF v
    <3>2. CASE j # p + 1
      <4>1. j \in 1 .. p /\ j \in 1 .. n /\ size(j) = w
        BY <2>1, <3>2
      <4> DEFINE x == (j - 1) * w
      <4>2. x \in Nat /\ x <= m
        <5>1. j - 1 \in Nat /\ j - 1 <= i
          BY <2>1, <4>1
        <5>2. (j - 1) * w <= i * w
          BY <2>1, <5>1, TimesMonotone
        <5> QED
          BY <5>1, <5>2
      <4>3. u[x + k] = s[j][k]
        BY <2>3, <4>1
      <4> HIDE DEF x, m, c, size
      <4>4. x + k \in 1 .. Len(u) /\ k \in 1 .. w
        BY <2>2, <2>6, <4>1, <4>2
      <4>5. (u \o v)[x + k] = u[x + k]
        BY <2>3, <2>4, <4>4
      <4> QED
        BY <4>3, <4>5 DEF x
    <3> QED
      BY <3>1, <3>2
  <2>9. (p + 1) - 1 = p
    BY <2>1
  <2> HIDE DEF size, p, c, Q
  <2>10. Is(p + 1)
    BY <2>5, <2>7, <2>8, <2>9 DEF c
  <2>11. p \in 0 .. n - 1
    BY <2>1
  <2> HIDE DEF Is
  <2> QED
    BY <2>10, <2>11 DEF p
<1>11. n - 1 \in Nat /\ n - 1 \in 0 .. n - 1 /\ (n - 1) + 1 = n
  OBVIOUS
<1> HIDE DEF R
<1>12. \A i \in 0 .. n - 1 : i \in R
  <2> DEFINE b == n - 1
  <2> HIDE DEF b
  <2>1. b \in Nat /\ 0 \in R /\ \A i \in 0 .. b - 1 : i \in R => i + 1 \in R
    BY <1>9, <1>10, <1>11 DEF b
  <2>2. \A i \in 0 .. b : i \in R
    BY ONLY <2>1, UpTo
  <2> QED
    BY <2>2 DEF b
<1>13. Is((n - 1) + 1)
  <2> HIDE DEF Is
  <2> QED
    BY <1>11, <1>12 DEF R
<1>14. Is(n)
  <2> HIDE DEF Is
  <2> QED
    BY <1>11, <1>13
<1>15. /\ T[n] \in Q /\ Len(T[n]) = (n - 1) * w + z
       /\ \A j \in 1 .. n : \A k \in 1 .. Len(s[j]) : T[n][(j - 1) * w + k] = s[j][k]
  <2>1. \A j \in 1 .. n : Len(s[j]) = size(j)
    BY <1>8
  <2>2. size(n) = z
    OBVIOUS
  <2> HIDE DEF size, Q
  <2> QED
    BY <1>14, <2>1, <2>2
<1> HIDE DEF T
<1> QED
  BY <1>1, <1>15 DEF InPlace

-----------------------------------------------------------------------------
\* The plaintexts of the database.
LEMMA PlainIs ==
  ASSUME flags \in Flags, NEW k \in 0 .. Product(nvec) - 1
  PROVE  Plain(k) \in Poly
BY PirReplyAssumption DEF nvec

\* The plaintexts of the database, one per place of the matrix.
LEMMA DatabaseIs ==
  ASSUME flags \in Flags
  PROVE  db_ \in Seq(Poly) /\ Len(db_) = Product(nvec)
<1> DEFINE n == Product(nvec)
<1>1. n \in Nat
  BY Matrices
<1> HIDE DEF n
<1>2. \A k \in 1 .. n : Plain(k - 1) \in Poly
  <2>1. ASSUME NEW k \in 1 .. n PROVE Plain(k - 1) \in Poly
    <3>1. k - 1 \in 0 .. Product(nvec) - 1
      BY <1>1 DEF n
    <3> QED
      BY <3>1, PlainIs
  <2> QED
    BY <2>1
<1>3. db_ = [k \in 1 .. n |-> Plain(k - 1)]
  BY DEF db_, n
<1>4. db_ \in [1 .. n -> Poly]
  BY <1>2, <1>3
<1> QED
  BY <1>1, <1>4, LenIs DEF n

\* The ciphertexts of one row select one coordinate, but for the position that
\* a plaintext does not have.
LEMMA RowIs ==
  ASSUME NEW a \in Nat, NEW n \in Nat \ {0},
         \A j \in DOMAIN query_ciphertexts(a, n, N) : N \notin query_ciphertexts(a, n, N)[j]
  PROVE  /\ DOMAIN query_ciphertexts(a, n, N) = 1 .. CeilDiv(n, N)
         /\ \A j \in 1 .. CeilDiv(n, N) :
              query_ciphertexts(a, n, N)[j] = IF a \div N = j - 1 THEN {a % N} ELSE {}
<1> DEFINE q == query_ciphertexts(a, n, N)
           c == CeilDiv(n, N)
<1>1. N \in Nat \ {0} /\ c \in Nat
  <2>1. N \in Nat \ {0} /\ n \in Nat
    BY Degree
  <2>2. c \in Nat
    BY ONLY <2>1, CeilDivIs DEF c
  <2> QED
    BY <2>1, <2>2
<1>2. DOMAIN q = 1 .. c
  BY DEF query_ciphertexts
<1>3. \A j \in 1 .. c : q[j] = IF a > N * j \/ a < N * (j - 1) THEN {} ELSE {a - N * (j - 1)}
  BY DEF query_ciphertexts
<1>4. \A j \in 1 .. c : N \notin q[j]
  BY <1>2
<1> HIDE DEF q, c
<1>5. ASSUME NEW j \in 1 .. c PROVE q[j] = IF a \div N = j - 1 THEN {a % N} ELSE {}
  <2> DEFINE b == N * (j - 1)
             r == a - b
  <2>1. j - 1 \in Nat /\ b \in Nat /\ N * j = b + N /\ b = (j - 1) * N
    BY <1>1
  <2>2. q[j] = IF a > b + N \/ a < b THEN {} ELSE {r}
    BY <1>3, <2>1
  <2>3. r # N \/ a > b + N \/ a < b
    <3> HIDE DEF r
    <3> QED
      BY <1>4, <2>2
  <2>4. CASE b <= a /\ a < b + N
    <3> DEFINE i == j - 1
    <3>1. i \in Nat /\ r \in 0 .. N - 1 /\ a = i * N + r
      BY <1>1, <2>1, <2>4
    <3> HIDE DEF i, r
    <3>2. a \div N = i /\ a % N = r
      BY <1>1, <3>1, DivIs
    <3>3. q[j] = {r}
      BY <1>1, <2>1, <2>2, <2>4
    <3> QED
      BY <3>2, <3>3 DEF i
  <2>5. CASE ~ (b <= a /\ a < b + N)
    <3>1. q[j] = {}
      <4>1. a = b + N => r = N
        BY <1>1, <2>1
      <4> HIDE DEF r, b
      <4> QED
        BY <1>1, <2>1, <2>2, <2>3, <2>5, <4>1
    <3>2. a \div N # j - 1
      <4> DEFINE x == a \div N
                 y == a % N
      <4>1. y \in 0 .. N - 1 /\ x \in Nat /\ a = x * N + y
        BY <1>1, QuotientIs
      <4> HIDE DEF x, y
      <4>2. x = j - 1 => x * N = b
        BY <2>1
      <4>3. x * N = b => b <= a /\ a < b + N
        <5> HIDE DEF b
        <5> QED
          BY <1>1, <2>1, <4>1
      <4> QED
        BY <2>5, <4>2, <4>3 DEF x
    <3> QED
      BY <3>1, <3>2
  <2> QED
    BY <2>4, <2>5
<1> QED
  BY <1>2, <1>5 DEF q, c

\* What the client computes for each dimension is a scale.
LEMMA ScalesType ==
  ASSUME flags \in Flags, NEW at, Len(at) = Len(client_nvec), NEW undefined \in 0 .. logN
  PROVE  \A i \in 1 .. Len(at) : /\ expected_logm(at, undefined)[i] \in 0 .. logN
                                 /\ inverse_scale(expected_logm(at, undefined)[i]) \in 1 .. t - 1
<1>1. /\ Len(at) \in {1, 2} /\ logN \in Nat
      /\ \A i \in 1 .. Len(at) : client_nvec[i] \in Nat \ {0}
  BY Matrices, FlagTypes, Degree
<1> DEFINE logm == expected_logm(at, undefined)
<1>2. /\ logm[0] = logN
      /\ \A i \in 1 .. Len(at) :
           logm[i] = IF ~ InLast(at[i], client_nvec[i]) THEN logm[i - 1]
                     ELSE IF client_nvec[i] % N = 0 THEN undefined
                     ELSE CeilLog2(client_nvec[i] % N)
  <2>1. Len(at) \in {1, 2}
    BY <1>1
  <2> QED
    BY ONLY <2>1, ExpectedLogm
<1> HIDE DEF logm
<1>3. \A i \in 1 .. Len(at) : client_nvec[i] % N # 0 => CeilLog2(client_nvec[i] % N) \in 0 .. logN
  BY <1>1, LastSize
<1>4. ASSUME NEW i \in 1 .. Len(at), logm[i - 1] \in 0 .. logN PROVE logm[i] \in 0 .. logN
  <2> DEFINE m == client_nvec[i] % N
  <2>1. logm[i] \in {logm[i - 1], undefined} \/ (m # 0 /\ logm[i] = CeilLog2(m))
    BY <1>2
  <2> HIDE DEF m
  <2> QED
    BY <1>3, <1>4, <2>1 DEF m
<1>5. logm[0] \in 0 .. logN /\ 1 - 1 = 0 /\ 2 - 1 = 1 /\ 1 \in 1 .. Len(at)
  BY <1>1, <1>2
<1>6. logm[1] \in 0 .. logN
  BY <1>4, <1>5
<1>7. \A i \in 1 .. Len(at) : logm[i] \in 0 .. logN
  <2>1. CASE Len(at) = 1
    BY <1>6, <2>1
  <2>2. CASE Len(at) = 2
    <3>1. 2 \in 1 .. Len(at)
      BY <2>2
    <3>2. logm[2] \in 0 .. logN
      BY <1>4, <1>5, <1>6, <3>1
    <3> QED
      BY <1>6, <2>2, <3>2
  <2> QED
    BY <1>1, <2>1, <2>2
<1>8. ASSUME NEW i \in 1 .. Len(at) PROVE inverse_scale(logm[i]) \in 1 .. t - 1
  <2> DEFINE L == logm[i]
  <2>1. L \in Nat /\ L <= L
    BY <1>1, <1>7
  <2> HIDE DEF L
  <2>2. inverse_scale(L) \in 1 .. t - 1
    BY <2>1, ScaleInverse
  <2> QED
    BY <2>2 DEF L
<1> QED
  BY <1>7, <1>8 DEF logm

\* The loop that selects.
LEMMA Selecting ==
  ASSUME NEW product \in Nat, NEW n \in Nat \ {0},
         expanded_query \in Seq(Poly), n <= Len(expanded_query),
         cur \in Seq(Poly), n * product <= Len(cur)
  PROVE  /\ select(product, n) \in [1 .. product -> Poly]
         /\ \A k \in 1 .. product, j \in 1 .. n :
              place(k - 1, j - 1, product, n) + 1 \in 1 .. Len(cur)
         /\ \A k \in 1 .. product : \E s \in [0 .. n -> Poly] :
              /\ s[0] = Zero
              /\ \A j \in 1 .. n : s[j] =
                   Plus(s[j - 1], Times(expanded_query[j], cur[place(k - 1, j - 1, product, n) + 1]))
              /\ select(product, n)[k] = s[n]
<1> DEFINE at(k, j) == cur[place(k - 1, j - 1, product, n) + 1]
           F(f, k) == [j \in 0 .. n |-> IF j = 0 THEN Zero
                         ELSE Plus(f[j - 1], Times(expanded_query[j], at(k, j)))]
           T(k) == CHOOSE f : f = F(f, k)
<1>1. \A k \in 1 .. product, j \in 1 .. n :
        place(k - 1, j - 1, product, n) + 1 \in 1 .. Len(cur)
  <2>1. ASSUME NEW k \in 1 .. product, NEW j \in 1 .. n
        PROVE  place(k - 1, j - 1, product, n) + 1 \in 1 .. Len(cur)
    <3> DEFINE x == (j - 1) * product
               y == n * product
    <3>1. x \in Nat /\ y \in Nat /\ x + product <= y /\ y <= Len(cur) /\ Len(cur) \in Nat
      <4>1. (j - 1) * product + product = j * product /\ (j - 1) * product \in Nat
        OBVIOUS
      <4>2. j \in Nat /\ j <= n
        OBVIOUS
      <4>3. j * product <= n * product
        BY <4>2, TimesMonotone
      <4> QED
        BY <4>1, <4>3
    <3> HIDE DEF x, y
    <3>2. (k - 1) + x + 1 \in 1 .. Len(cur)
      BY <3>1
    <3> QED
      BY <3>2 DEF place, x
  <2> QED
    BY <2>1
<1>2. \A k \in 1 .. product, j \in 1 .. n : at(k, j) \in Poly /\ expanded_query[j] \in Poly
  <2>1. ASSUME NEW k \in 1 .. product, NEW j \in 1 .. n
        PROVE  at(k, j) \in Poly /\ expanded_query[j] \in Poly
    <3> DEFINE c == place(k - 1, j - 1, product, n) + 1
    <3>1. c \in 1 .. Len(cur)
      BY <1>1
    <3> HIDE DEF c
    <3>2. cur[c] \in Poly
      BY <3>1, ElementOfSeq
    <3>3. j \in 1 .. Len(expanded_query)
      OBVIOUS
    <3>4. expanded_query[j] \in Poly
      BY <3>3, ElementOfSeq
    <3> QED
      BY <3>2, <3>4 DEF c
  <2> QED
    BY <2>1
<1>3. select(product, n) = [k \in 1 .. product |-> T(k)[n]]
  BY DEF select
<1> HIDE DEF at
<1>4. ASSUME NEW k \in 1 .. product
      PROVE  \E s \in [0 .. n -> Poly] :
               /\ s[0] = Zero
               /\ \A j \in 1 .. n : s[j] = Plus(s[j - 1], Times(expanded_query[j], at(k, j)))
               /\ T(k)[n] = s[n]
  <2> DEFINE G == [i \in Nat |-> [f \in Poly |->
                     IF i < n THEN Plus(f, Times(expanded_query[i + 1], at(k, i + 1))) ELSE f]]
  <2>1. G \in [Nat -> [Poly -> Poly]] /\ Zero \in Poly
    <3>1. ASSUME NEW i \in Nat, NEW f \in Poly
          PROVE  (IF i < n THEN Plus(f, Times(expanded_query[i + 1], at(k, i + 1))) ELSE f)
                   \in Poly
      <4>1. CASE i < n
        <5>1. i + 1 \in 1 .. n
          BY <4>1
        <5>2. Times(expanded_query[i + 1], at(k, i + 1)) \in Poly
          BY <1>2, <5>1, TimesType
        <5>3. Plus(f, Times(expanded_query[i + 1], at(k, i + 1))) \in Poly
          BY <5>2, PlusType
        <5> QED
          BY <4>1, <5>3
      <4>2. CASE ~ (i < n)
        BY <4>2
      <4> QED
        BY <4>1, <4>2
    <3> QED
      BY <3>1, ZeroOne
  <2>2. PICK s : /\ s \in [0 .. n -> Poly] /\ s[0] = Zero
                 /\ \A i \in 0 .. n - 1 :
                      s[i + 1] = Plus(s[i], Times(expanded_query[i + 1], at(k, i + 1)))
    <3> HIDE DEF G
    <3>1. Runs(Poly, Zero, n, G) # {}
      BY <2>1, Iterated
    <3>2. PICK s : s \in Runs(Poly, Zero, n, G)
      BY <3>1
    <3>3. s \in [0 .. n -> Poly] /\ s[0] = Zero /\ \A i \in 0 .. n - 1 : s[i + 1] = G[i][s[i]]
      BY <3>2 DEF Runs
    <3>4. ASSUME NEW i \in 0 .. n - 1
          PROVE  s[i + 1] = Plus(s[i], Times(expanded_query[i + 1], at(k, i + 1)))
      <4>1. i \in 0 .. n /\ i \in Nat /\ i < n
        OBVIOUS
      <4>2. s[i] \in Poly
        BY <3>3, <4>1
      <4>3. G[i][s[i]] = Plus(s[i], Times(expanded_query[i + 1], at(k, i + 1)))
        BY <4>1, <4>2 DEF G
      <4> QED
        BY <3>3, <4>3
    <3> QED
      BY <3>3, <3>4
  <2>3. \A j \in 1 .. n : s[j] = Plus(s[j - 1], Times(expanded_query[j], at(k, j)))
    <3>1. ASSUME NEW j \in 1 .. n
          PROVE  s[j] = Plus(s[j - 1], Times(expanded_query[j], at(k, j)))
      <4>1. j - 1 \in 0 .. n - 1 /\ (j - 1) + 1 = j
        OBVIOUS
      <4>2. s[(j - 1) + 1] =
              Plus(s[j - 1], Times(expanded_query[(j - 1) + 1], at(k, (j - 1) + 1)))
        BY <2>2, <4>1
      <4> QED
        BY <4>1, <4>2
    <3> QED
      BY <3>1
  <2> DEFINE f == T(k)
             E(x) == F(x, k)
  <2>4. s = E(s)
    <3>1. \A j \in 0 .. n : s[j] = E(s)[j]
      BY <2>2, <2>3
    <3>2. E(s) = [j \in 0 .. n |-> E(s)[j]] /\ s = [j \in 0 .. n |-> s[j]]
      BY <2>2
    <3> HIDE DEF E
    <3> QED
      BY <3>1, <3>2
  <2>5. f = E(f)
    <3> HIDE DEF F
    <3> QED
      BY <2>4
  <2> HIDE DEF f
  <2>6. f[0] = Zero /\ \A j \in 1 .. n : f[j] = Plus(f[j - 1], Times(expanded_query[j], at(k, j)))
    BY <2>5
  <2> DEFINE S == {i \in 0 .. n : f[i] = s[i]}
  <2>7. 0 \in S
    BY <2>2, <2>6
  <2>8. ASSUME NEW i \in 0 .. n - 1, i \in S PROVE i + 1 \in S
    <3>1. i + 1 \in 1 .. n /\ (i + 1) - 1 = i /\ i + 1 \in 0 .. n
      OBVIOUS
    <3>2. f[i + 1] = Plus(f[i], Times(expanded_query[i + 1], at(k, i + 1)))
      BY <2>6, <3>1
    <3> QED
      BY <2>2, <2>8, <3>1, <3>2
  <2> HIDE DEF S
  <2>9. \A i \in 0 .. n : i \in S
    BY <2>7, <2>8, UpTo
  <2>10. f[n] = s[n]
    <3>1. n \in 0 .. n
      OBVIOUS
    <3> QED
      BY <2>9, <3>1 DEF S
  <2> QED
    BY <2>2, <2>3, <2>10 DEF f
<1> HIDE DEF T
<1>5. \A k \in 1 .. product : T(k)[n] \in Poly
  <2>1. n \in 0 .. n
    OBVIOUS
  <2> QED
    BY <1>4, <2>1
<1> QED
  BY <1>1, <1>3, <1>4, <1>5 DEF at

\* The digits of the words of a ciphertext are polynomials.
LEMMA DecomposedIs ==
  ASSUME NEW words \in [1 .. 2 -> [0 .. N - 1 -> Nat]]
  PROVE  decompose_to_plaintexts_ptr(words) \in Seq(Poly)
         /\ Len(decompose_to_plaintexts_ptr(words)) = expansion_ratio
<1> DEFINE p == Pow2[logt]
           i(e) == (e - 1) \div digits + 1
           at(e) == logt * ((e - 1) % digits)
           d(e) == [m \in 0 .. N - 1 |-> (words[i(e)][m] \div Pow2[at(e)]) % p]
<1>1. /\ p \in Nat \ {0} /\ t = p + 1 /\ N \in Nat /\ logt \in Nat
      /\ digits \in Nat \ {0} /\ expansion_ratio = 2 * digits /\ expansion_ratio \in Nat
  BY Degree, Digits, Pow2Type
<1>2. ASSUME NEW e \in 1 .. expansion_ratio PROVE d(e) \in Poly
  <2>1. e - 1 \in Nat /\ e - 1 < 2 * digits
    BY <1>1
  <2>2. i(e) \in 1 .. 2
    <3> DEFINE x == e - 1
               q == x \div digits
               r == x % digits
    <3> HIDE DEF x
    <3>1. q \in Nat /\ r \in 0 .. digits - 1 /\ x = q * digits + r
      BY <1>1, <2>1, QuotientIs DEF x
    <3> HIDE DEF q, r
    <3>2. ~ (q >= 2)
      <4>1. ASSUME q >= 2 PROVE FALSE
        <5>1. 2 * digits <= q * digits
          <6>1. 2 \in Nat /\ q \in Nat /\ digits \in Nat /\ 2 <= q
            BY <1>1, <3>1, <4>1
          <6> QED
            BY ONLY <6>1, TimesMonotone
        <5> DEFINE y == q * digits
        <5>2. y \in Nat
          BY <1>1, <3>1
        <5> HIDE DEF y
        <5>3. 2 * digits <= y /\ x = y + r /\ x < 2 * digits
          BY <2>1, <3>1, <5>1 DEF y, x
        <5> QED
          BY <1>1, <3>1, <5>2, <5>3
      <4> QED
        BY <4>1
    <3> QED
      BY <3>1, <3>2 DEF q, x
  <2>3. at(e) \in Nat
    <3> DEFINE x == e - 1
               r == x % digits
    <3> HIDE DEF x
    <3>1. r \in 0 .. digits - 1
      BY <1>1, <2>1, QuotientIs DEF x
    <3>2. r \in Nat
      BY <1>1, <3>1
    <3> HIDE DEF r
    <3>3. logt * r \in Nat
      BY <1>1, <3>2
    <3> QED
      BY <3>3 DEF r, x
  <2> HIDE DEF i, at, p
  <2>4. Pow2[at(e)] \in Nat \ {0}
    BY <2>3, Pow2Type
  <2>5. ASSUME NEW m \in 0 .. N - 1
        PROVE  (words[i(e)][m] \div Pow2[at(e)]) % p \in 0 .. t - 1
    <3> DEFINE x == words[i(e)][m]
               b == Pow2[at(e)]
               q == x \div b
    <3>1. x \in Nat /\ b \in Nat \ {0}
      BY <2>2, <2>4
    <3> HIDE DEF x, b
    <3>2. q \in Nat
      BY <3>1, QuotientIs
    <3> HIDE DEF q
    <3>3. q % p \in 0 .. p - 1
      BY <1>1, <3>2, QuotientIs
    <3>4. q % p \in 0 .. t - 1
      BY <1>1, <3>3
    <3> QED
      BY <3>4 DEF q, x, b
  <2> QED
    BY <2>5 DEF Poly
<1>3. decompose_to_plaintexts_ptr(words) = [e \in 1 .. expansion_ratio |-> d(e)]
  BY DEF decompose_to_plaintexts_ptr
<1> HIDE DEF d
<1>4. decompose_to_plaintexts_ptr(words) \in [1 .. expansion_ratio -> Poly]
  BY <1>2, <1>3
<1> QED
  BY <1>1, <1>4, LenIs

-----------------------------------------------------------------------------
\* What the flags decide stays.
LEMMA FlagsStay ==
  ASSUME UNCHANGED flags
  PROVE  /\ nvec' = nvec /\ client_nvec' = client_nvec /\ Complete' = Complete
         /\ \A i : arriving(i)' = arriving(i)
BY DEF nvec, client_nvec, Complete, arriving

\* It holds at first.
LEMMA ReplyInit == Init => ReplyInv
<1> SUFFICES ASSUME Init PROVE ReplyInv
  OBVIOUS
<1>1. /\ flags \in Flags /\ pc = "idle" /\ ntt = TRUE /\ is_db_preprocessed_ = TRUE
      /\ desiredIndex = -1 /\ indices_ = <<>> /\ inverse_scales_ = <<>> /\ query = <<>>
      /\ level = 0 /\ cur = <<>> /\ expanded_query = <<>> /\ intermediateCtxts = <<>>
      /\ reply = <<>> /\ layer = 0 /\ result = Zero /\ whole = TRUE
  BY DEF Init
<1>2. TypeOK
  <2>1. desiredIndex \in -1 .. flags.client_n - 1
    BY <1>1, FlagTypes
  <2>2. <<>> \in Ciphertexts /\ DOMAIN <<>> = {}
    BY DEF Ciphertexts
  <2>3. Zero \in Poly
    BY ZeroOne
  <2> QED
    BY <1>1, <2>1, <2>2, <2>3 DEF TypeOK
<1>3. ClientInv
  BY <1>1 DEF ClientInv
<1>4. LengthInv /\ QueryInv /\ SelectorInv
  BY <1>1 DEF LengthInv, QueryInv, SelectorInv
<1> QED
  BY <1>1, <1>2, <1>3, <1>4 DEF ReplyInv

\* Steps that only concern the form of the database.
LEMMA DatabaseStep ==
  ASSUME ReplyInv, UNCHANGED <<flags, client, query, server, decoding>>,
         pc' = pc \/ pc' = "failed",
         ntt' \in BOOLEAN, is_db_preprocessed_' \in BOOLEAN, is_db_preprocessed_' => ntt'
  PROVE  ReplyInv'
<1>1. /\ UNCHANGED <<flags, desiredIndex, indices_, inverse_scales_, query, level, cur>>
      /\ UNCHANGED <<expanded_query, intermediateCtxts, reply, layer, result, whole>>
  BY DEF client, server, decoding
<1>2. TypeOK'
  BY <1>1 DEF ReplyInv, TypeOK
<1>3. /\ nvec' = nvec /\ client_nvec' = client_nvec /\ Complete' = Complete
      /\ \A i : arriving(i)' = arriving(i)
  BY <1>1, FlagsStay
<1>4. \A i : InLast(indices_[i], nvec[i])' = InLast(indices_[i], nvec[i])
              /\ server_logm(i)' = server_logm(i)
  BY <1>1, <1>3 DEF InLast, server_logm
<1>5. \A u : expected_logm(indices_, u)' = expected_logm(indices_, u)
  BY <1>1, <1>3 DEF expected_logm, InLast
<1>6. ClientInv'
  BY <1>1, <1>3, <1>5 DEF ReplyInv, ClientInv
<1>7. LengthInv'
  BY <1>1, <1>3 DEF ReplyInv, LengthInv
<1>8. QueryInv'
  BY <1>1 DEF ReplyInv, QueryInv
<1>9. SelectorInv'
  BY <1>1, <1>4 DEF ReplyInv, SelectorInv
<1> QED
  BY <1>2, <1>6, <1>7, <1>8, <1>9 DEF ReplyInv

\* set_database and preprocess_database keep the invariant,
LEMMA ReplaceDatabase == ReplyInv /\ replace_database => ReplyInv'
<1> SUFFICES ASSUME ReplyInv, replace_database PROVE ReplyInv'
  OBVIOUS
<1>1. /\ UNCHANGED <<flags, client, query, server, decoding>> /\ pc' = pc
      /\ ntt' = FALSE /\ is_db_preprocessed_' = FALSE
  BY DEF replace_database
<1> QED
  BY <1>1, DatabaseStep

\* also if SEAL throws.
LEMMA PreprocessDatabase == ReplyInv /\ preprocess_database => ReplyInv'
<1> SUFFICES ASSUME ReplyInv, preprocess_database PROVE ReplyInv'
  OBVIOUS
<1>1. UNCHANGED <<flags, client, query, server, decoding>>
  BY DEF preprocess_database
<1>2. \/ pc' = "failed" /\ ntt' = ntt /\ is_db_preprocessed_' = is_db_preprocessed_
      \/ pc' = pc /\ ntt' = TRUE /\ is_db_preprocessed_' = TRUE
  BY DEF preprocess_database, database
<1>3. ntt \in BOOLEAN /\ is_db_preprocessed_ \in BOOLEAN /\ (is_db_preprocessed_ => ntt)
  BY DEF ReplyInv, TypeOK
<1>4. ntt' \in BOOLEAN /\ is_db_preprocessed_' \in BOOLEAN /\ (is_db_preprocessed_' => ntt')
  <2>1. CASE ntt' = ntt /\ is_db_preprocessed_' = is_db_preprocessed_
    BY <1>3, <2>1
  <2>2. CASE ntt' = TRUE /\ is_db_preprocessed_' = TRUE
    BY <2>2
  <2> QED
    BY <1>2, <2>1, <2>2
<1> QED
  BY <1>1, <1>2, <1>4, DatabaseStep

-----------------------------------------------------------------------------
\* The steps of a query.
LEMMA GenerateQuery ==
  ASSUME ReplyInv, NEW k \in 0 .. flags.client_n - 1, generate_query(k)
  PROVE  ReplyInv'
<1> DEFINE at == compute_indices(k, client_nvec)
           selected == [i \in DOMAIN at |-> query_ciphertexts(at[i], client_nvec[i], N)]
           outside == \E i \in DOMAIN at : \E j \in DOMAIN selected[i] : N \in selected[i][j]
           d == flags.client_d
           row(i) == [j \in DOMAIN selected[i] |->
                        IF selected[i][j] = {} THEN Zero
                        ELSE Monomial(CHOOSE p \in selected[i][j] : TRUE)]
<1>1. /\ pc = "idle" /\ desiredIndex' = k /\ indices_' = at
      /\ UNCHANGED <<flags, ntt, is_db_preprocessed_, level, cur, expanded_query>>
      /\ UNCHANGED <<intermediateCtxts, reply, layer>> /\ result' = Zero /\ whole' = TRUE
  BY DEF generate_query, database, server, decoding
<1>2. \/ /\ ~ outside
         /\ \E undefined \in 0 .. logN :
              inverse_scales_' =
                [i \in DOMAIN at |-> inverse_scale(expected_logm(at, undefined)[i])]
         /\ query' = [i \in DOMAIN at |-> row(i)]
         /\ pc' = "queried"
      \/ pc' = "failed" /\ UNCHANGED <<inverse_scales_, query>>
  <2>1. (IF log_of_zero(at) THEN 0 .. logN ELSE {0}) \subseteq 0 .. logN
    BY Degree
  <2> QED
    BY <2>1, Zenon DEF generate_query
<1>3. /\ flags \in Flags /\ d \in {1, 2} /\ flags.client_n \in Nat
      /\ client_nvec \in [1 .. d -> Nat \ {0}] /\ Len(client_nvec) = d
  BY FlagTypes, Matrices DEF ReplyInv, TypeOK
<1>4. k \in Nat /\ at \in [1 .. d -> Nat] /\ Len(at) = d /\ DOMAIN at = 1 .. d
  <2>1. k \in Nat
    BY <1>3
  <2>2. at \in [1 .. d -> Nat]
    BY <1>3, <2>1, Coordinates
  <2> HIDE DEF at
  <2> QED
    BY <1>3, <2>1, <2>2, LenIs
<1>5. /\ nvec' = nvec /\ client_nvec' = client_nvec /\ Complete' = Complete
      /\ \A i : arriving(i)' = arriving(i)
  BY <1>1, FlagsStay
<1> HIDE DEF at, selected, outside
<1>6. ~ outside => \A i \in 1 .. d :
        /\ selected[i] = query_ciphertexts(at[i], client_nvec[i], N)
        /\ DOMAIN selected[i] = 1 .. CeilDiv(client_nvec[i], N)
        /\ \A j \in 1 .. CeilDiv(client_nvec[i], N) :
             selected[i][j] = IF at[i] \div N = j - 1 THEN {at[i] % N} ELSE {}
  <2>1. ASSUME ~ outside, NEW i \in 1 .. d
        PROVE  /\ selected[i] = query_ciphertexts(at[i], client_nvec[i], N)
               /\ DOMAIN selected[i] = 1 .. CeilDiv(client_nvec[i], N)
               /\ \A j \in 1 .. CeilDiv(client_nvec[i], N) :
                    selected[i][j] = IF at[i] \div N = j - 1 THEN {at[i] % N} ELSE {}
    <3> DEFINE a == at[i]
               n == client_nvec[i]
               q == query_ciphertexts(a, n, N)
    <3>1. a \in Nat /\ n \in Nat \ {0} /\ i \in DOMAIN at /\ selected[i] = q
      BY <1>3, <1>4 DEF selected
    <3>2. \A j \in DOMAIN q : N \notin q[j]
      BY <2>1, <3>1 DEF outside
    <3> HIDE DEF a, n
    <3>3. /\ DOMAIN q = 1 .. CeilDiv(n, N)
          /\ \A j \in 1 .. CeilDiv(n, N) : q[j] = IF a \div N = j - 1 THEN {a % N} ELSE {}
      BY <3>1, <3>2, RowIs
    <3> QED
      BY <3>1, <3>3 DEF a, n
  <2> QED
    BY <2>1
<1>7. ASSUME ~ outside, NEW i \in 1 .. d
      PROVE  /\ row(i) \in Seq(Poly) /\ Len(row(i)) = CeilDiv(client_nvec[i], N)
             /\ DOMAIN row(i) = 1 .. CeilDiv(client_nvec[i], N)
             /\ \A j \in 1 .. CeilDiv(client_nvec[i], N) :
                  row(i)[j] = IF at[i] \div N = j - 1 THEN Monomial(at[i] % N) ELSE Zero
  <2> DEFINE c == CeilDiv(client_nvec[i], N)
             b == at[i] % N
             r == row(i)
  <2>1. c \in Nat
    <3>1. client_nvec[i] \in Nat /\ N \in Nat \ {0}
      BY <1>3, Degree, SMTT(20)
    <3> QED
      BY <3>1, CeilDivIs
  <2>2. DOMAIN r = 1 .. c /\ r = [j \in 1 .. c |-> r[j]]
    <3>1. DOMAIN selected[i] = 1 .. c
      BY <1>6, <1>7
    <3> HIDE DEF c
    <3> QED
      BY <3>1
  <2>3. ASSUME NEW j \in 1 .. c
        PROVE  r[j] = (IF at[i] \div N = j - 1 THEN Monomial(b) ELSE Zero) /\ r[j] \in Poly
    <3>1. r[j] = IF selected[i][j] = {} THEN Zero
                 ELSE Monomial(CHOOSE p \in selected[i][j] : TRUE)
      BY <2>2, <2>3
    <3>2. selected[i][j] = IF at[i] \div N = j - 1 THEN {b} ELSE {}
      BY <1>6, <1>7, <2>3
    <3>3. (CHOOSE p \in {b} : TRUE) = b
      OBVIOUS
    <3>4. Monomial(b) \in Poly /\ Zero \in Poly
      BY ZeroOne
    <3> HIDE DEF r, b
    <3>5. CASE at[i] \div N = j - 1
      <4>1. selected[i][j] = {b} /\ {b} # {}
        BY <3>2, <3>5
      <4>2. r[j] = Monomial(b)
        BY <3>1, <3>3, <4>1
      <4> QED
        BY <3>4, <3>5, <4>2
    <3>6. CASE at[i] \div N # j - 1
      BY <3>1, <3>2, <3>4, <3>6
    <3> QED
      BY <3>5, <3>6
  <2> HIDE DEF c, r
  <2>4. r \in [1 .. c -> Poly]
    BY <2>2, <2>3
  <2>5. r \in Seq(Poly) /\ Len(r) = c
    BY <2>1, <2>4, LenIs
  <2> QED
    BY <2>2, <2>3, <2>5 DEF c, r
<1> HIDE DEF row
<1>8. TypeOK'
  <2>1. desiredIndex' \in -1 .. flags'.client_n - 1
    BY <1>1, <1>3
  <2>2. /\ flags' \in Flags /\ ntt' \in BOOLEAN /\ is_db_preprocessed_' \in BOOLEAN
        /\ level' \in 0 .. 2 /\ layer' \in 0 .. 2
        /\ cur' \in Ciphertexts /\ expanded_query' \in Ciphertexts
        /\ \A i \in DOMAIN intermediateCtxts' : intermediateCtxts'[i].enc \in Poly
        /\ reply' \in Ciphertexts /\ result' \in Poly /\ whole' \in BOOLEAN
    BY <1>1, ZeroOne DEF ReplyInv, TypeOK
  <2>3. /\ Len(indices_') = Len(inverse_scales_') \/ pc' = "failed"
        /\ \A i \in DOMAIN inverse_scales_' : inverse_scales_'[i] \in 1 .. t - 1
        /\ query' \in Seq(Ciphertexts)
        /\ pc' \in {"queried", "failed"}
    <3>1. CASE pc' = "failed" /\ UNCHANGED <<inverse_scales_, query>>
      BY <3>1 DEF ReplyInv, TypeOK
    <3>2. CASE /\ ~ outside
               /\ \E undefined \in 0 .. logN :
                    inverse_scales_' =
                      [i \in DOMAIN at |-> inverse_scale(expected_logm(at, undefined)[i])]
               /\ query' = [i \in DOMAIN at |-> row(i)]
               /\ pc' = "queried"
      <4>1. PICK undefined \in 0 .. logN :
              inverse_scales_' =
                [i \in DOMAIN at |-> inverse_scale(expected_logm(at, undefined)[i])]
        BY <3>2
      <4>2. \A i \in 1 .. d : inverse_scale(expected_logm(at, undefined)[i]) \in 1 .. t - 1
        <5>1. Len(at) = Len(client_nvec)
          BY <1>3, <1>4
        <5> QED
          BY <1>3, <1>4, <5>1, ScalesType
      <4>3. inverse_scales_' \in [1 .. d -> 1 .. t - 1]
        BY <1>4, <4>1, <4>2
      <4>4. Len(inverse_scales_') = d
        BY <1>3, <4>3, LenIs
      <4>5. \A i \in 1 .. d : row(i) \in Ciphertexts
        BY <1>7, <3>2 DEF Ciphertexts
      <4>6. query' \in Seq(Ciphertexts)
        <5>1. query' \in [1 .. d -> Ciphertexts]
          BY <1>4, <3>2, <4>5
        <5> QED
          BY <1>3, <5>1, LenIs
      <4> QED
        BY <1>1, <1>4, <3>2, <4>3, <4>4, <4>6
    <3> QED
      BY <1>2, <3>1, <3>2
  <2> QED
    BY <2>1, <2>2, <2>3 DEF TypeOK
<1>9. ClientInv'
  <2>1. desiredIndex' >= 0 /\ desiredIndex' # -1
    BY <1>1, <1>4
  <2>2. indices_' = compute_indices(desiredIndex', client_nvec')
    BY <1>1, <1>5 DEF at
  <2>3. ASSUME NEW u PROVE expected_logm(indices_, u)' = expected_logm(at, u)
    BY <1>1, <1>5 DEF expected_logm, InLast
  <2>4. ASSUME pc' # "failed"
        PROVE  (\E undefined \in 0 .. logN :
                  inverse_scales_ =
                    [i \in DOMAIN indices_ |->
                       inverse_scale(expected_logm(indices_, undefined)[i])])'
    BY <1>1, <1>2, <2>3, <2>4
  <2> QED
    BY <2>1, <2>2, <2>4 DEF ClientInv
<1>10. LengthInv' /\ QueryInv' /\ SelectorInv'
  <2>1. pc' \in {"queried", "failed"}
    BY <1>2
  <2>2. SelectorInv'
    BY <2>1 DEF SelectorInv
  <2>3. CASE pc' = "failed"
    <3>1. LengthInv' /\ QueryInv'
      BY <2>3 DEF LengthInv, QueryInv
    <3> QED
      BY <2>2, <3>1
  <2>4. CASE pc' = "queried"
    <3>1. ~ outside /\ query' = [i \in 1 .. d |-> row(i)]
      BY <1>2, <1>4, <2>4
    <3>2. query' \in [1 .. d -> Seq(Poly)]
      BY <1>7, <3>1
    <3>3. Len(query') = d /\ DOMAIN query' = 1 .. d
      BY <1>3, <3>2, LenIs
    <3>4. \A i \in DOMAIN query' : Len(query'[i]) = CeilDiv(client_nvec[i], N)
      BY <1>7, <3>1, <3>3
    <3>5. LengthInv'
      BY <1>3, <1>5, <2>4, <3>3, <3>4 DEF LengthInv
    <3>6. \A i \in DOMAIN query' : \A j \in DOMAIN query'[i] :
            query'[i][j] = IF indices_'[i] \div N = j - 1 THEN Monomial(indices_'[i] % N)
                           ELSE Zero
      BY <1>1, <1>7, <3>1, <3>3
    <3>7. QueryInv'
      BY <3>6 DEF QueryInv
    <3> QED
      BY <2>2, <3>5, <3>7
  <2> QED
    BY <2>1, <2>3, <2>4
<1>11. is_db_preprocessed_' => ntt'
  BY <1>1 DEF ReplyInv
<1> QED
  BY <1>8, <1>9, <1>10, <1>11 DEF ReplyInv

\* The server is handed the query, or the one ciphertext that arrives.
LEMMA GenerateReply == ReplyInv /\ generate_reply => ReplyInv'
<1> SUFFICES ASSUME ReplyInv, generate_reply PROVE ReplyInv'
  OBVIOUS
<1>1. /\ pc = "queried" /\ level' = 1 /\ cur' = db_ /\ pc' = "expanding"
      /\ query' = IF flags.via = "tcp" THEN <<<<query[1][1]>>>> ELSE query
      /\ UNCHANGED <<flags, ntt, is_db_preprocessed_, desiredIndex, indices_, inverse_scales_>>
      /\ UNCHANGED <<expanded_query, intermediateCtxts, reply, layer, result, whole>>
  BY DEF generate_reply, database, client, decoding
<1>2. /\ nvec' = nvec /\ client_nvec' = client_nvec /\ Complete' = Complete
      /\ \A i : arriving(i)' = arriving(i)
  BY <1>1, FlagsStay
<1>3. /\ flags \in Flags /\ Len(nvec) \in {1, 2} /\ Len(client_nvec) \in {1, 2}
      /\ \A i \in 1 .. Len(client_nvec) : client_nvec[i] \in Nat \ {0}
  BY FlagTypes, Matrices DEF ReplyInv, TypeOK
<1>4. /\ query \in Seq(Seq(Poly)) /\ Len(query) = Len(client_nvec)
      /\ \A i \in DOMAIN query :
           /\ Len(query[i]) = CeilDiv(client_nvec[i], N)
           /\ \A j \in DOMAIN query[i] :
                query[i][j] = IF indices_[i] \div N = j - 1
                              THEN Monomial(indices_[i] % N) ELSE Zero
  BY <1>1 DEF ReplyInv, TypeOK, LengthInv, QueryInv, Ciphertexts
<1>5. DOMAIN query = 1 .. Len(client_nvec)
  BY <1>4
<1> DEFINE c == query[1][1]
<1>6. /\ 1 \in DOMAIN query /\ 1 \in DOMAIN query[1] /\ c \in Poly
  <2>1. 1 \in DOMAIN query
    BY <1>3, <1>5
  <2>2. query[1] \in Seq(Poly)
    BY <1>4, <2>1, ElementOfSeq
  <2>3. Len(query[1]) \in Nat \ {0}
    <3>1. client_nvec[1] \in Nat \ {0} /\ N \in Nat \ {0}
      BY <1>3, Degree
    <3> QED
      BY <1>4, <2>1, <3>1, CeilDivPositive
  <2>4. 1 \in DOMAIN query[1] /\ 1 \in 1 .. Len(query[1])
    BY <2>2, <2>3
  <2> QED
    BY <2>1, <2>2, <2>4, ElementOfSeq
<1> HIDE DEF c
<1>7. /\ query' \in Seq(Seq(Poly))
      /\ Len(query') = IF flags.via = "tcp" THEN 1 ELSE Len(client_nvec)
      /\ \A i \in DOMAIN query' :
           /\ Len(query'[i]) = arriving(i)
           /\ \A j \in DOMAIN query'[i] :
                query'[i][j] = IF indices_[i] \div N = j - 1
                               THEN Monomial(indices_[i] % N) ELSE Zero
  <2>1. CASE flags.via = "tcp"
    <3>1. query' = <<<<c>>>>
      BY <1>1, <2>1 DEF c
    <3>2. <<c>> \in Seq(Poly) /\ Len(<<c>>) = 1 /\ DOMAIN <<c>> = {1} /\ <<c>>[1] = c
      BY <1>6
    <3> DEFINE u == <<c>>
    <3> HIDE DEF u
    <3>3. query' = <<u>> /\ u \in Seq(Poly) /\ Len(u) = 1 /\ DOMAIN u = {1} /\ u[1] = c
      BY <3>1, <3>2 DEF u
    <3>4. <<u>> \in Seq(Seq(Poly)) /\ Len(<<u>>) = 1 /\ DOMAIN <<u>> = {1} /\ <<u>>[1] = u
      BY <3>3
    <3>5. arriving(1) = 1
      BY <2>1 DEF arriving
    <3>6. c = IF indices_[1] \div N = 1 - 1 THEN Monomial(indices_[1] % N) ELSE Zero
      BY <1>4, <1>6 DEF c
    <3> QED
      BY <2>1, <3>3, <3>4, <3>5, <3>6
  <2>2. CASE flags.via # "tcp"
    <3>1. query' = query
      BY <1>1, <2>2
    <3>2. \A i : arriving(i) = CeilDiv(client_nvec[i], N)
      BY <2>2 DEF arriving
    <3> QED
      BY <1>4, <2>2, <3>1, <3>2
  <2> QED
    BY <2>1, <2>2
<1>8. TypeOK'
  <2>1. db_ \in Ciphertexts
    BY <1>3, DatabaseIs DEF Ciphertexts
  <2>2. level' \in 0 .. 2
    BY <1>1
  <2>3. query' \in Seq(Ciphertexts)
    BY <1>7 DEF Ciphertexts
  <2>4. TypeOK
    BY DEF ReplyInv
  <2> QED
    BY <1>1, <2>1, <2>2, <2>3, <2>4 DEF TypeOK
<1>9. ClientInv'
  <2>1. \A u : expected_logm(indices_, u)' = expected_logm(indices_, u)
    BY <1>1, <1>2 DEF expected_logm, InLast
  <2> QED
    BY <1>1, <1>2, <2>1 DEF ReplyInv, ClientInv
<1>10. LengthInv'
  <2>1. level' \in 1 .. Len(nvec')
    <3>1. 1 \in 1 .. Len(nvec)
      BY <1>3, SMTT(20)
    <3> QED
      BY <1>1, <1>2, <3>1
  <2>2. Len(cur') = Product(nvec)
    BY <1>1, <1>3, DatabaseIs
  <2> QED
    BY <1>1, <1>2, <1>7, <2>1, <2>2 DEF LengthInv
<1>11. QueryInv' /\ SelectorInv'
  BY <1>1, <1>7 DEF QueryInv, SelectorInv
<1> QED
  BY <1>1, <1>8, <1>9, <1>10, <1>11 DEF ReplyInv

-----------------------------------------------------------------------------
\* How many selectors each ciphertext of a row of c is expanded to.
Count(j, c, z) == IF j = c THEN z ELSE N

\* The selectors of a row, one ciphertext's after the other's.
Selectors(row, c, z) == FlattenSeq([j \in 1 .. c |-> expand_query(row[j], Count(j, c, z))])

\* The selectors of a row are as many as its ciphertexts have.  Where one of
\* those is x^k and the others are zero, one selector is the scale of that
\* ciphertext, at the coordinate that k and the ciphertext's number make, and
\* the others are zero.
THEOREM RowExpanded ==
  ASSUME NEW c \in Nat \ {0}, NEW row \in Seq(Poly), Len(row) = c,
         NEW z \in Nat, Expandable(z)
  PROVE  LET e == Selectors(row, c, z)
         IN  /\ e \in Seq(Poly) /\ Len(e) = (c - 1) * N + z
             /\ \A at \in Nat :
                  /\ at < Len(e)
                  /\ \A j \in 1 .. c : row[j] = IF at \div N = j - 1 THEN Monomial(at % N) ELSE Zero
                  => \A p \in 1 .. Len(e) :
                       e[p] = IF p - 1 = at
                              THEN Const(Pow2[CeilLog2(Count(at \div N + 1, c, z))]) ELSE Zero
<1> DEFINE cnt(j) == Count(j, c, z)
           s == [j \in 1 .. c |-> expand_query(row[j], cnt(j))]
           e == FlattenSeq(s)
<1>1. N \in Nat \ {0} /\ z \in 2 .. N /\ z \in Nat /\ DOMAIN row = 1 .. c
  BY Degree DEF Expandable
<1>2. \A j \in 1 .. c : cnt(j) \in Nat /\ Expandable(cnt(j)) /\ cnt(j) \in 1 .. N
  <2>1. N \in 2 .. N
    BY Degree
  <2> QED
    BY <1>1, <2>1 DEF Expandable, Count
<1>3. \A j \in 1 .. c : row[j] \in Poly
  BY <1>1, ElementOfSeq
<1>4. \A j \in 1 .. c : s[j] \in Seq(Poly) /\ Len(s[j]) = cnt(j)
  BY <1>2, <1>3, ExpandedType
<1>5. s \in Seq(Seq(Poly)) /\ Len(s) = c
  <2>1. s \in [1 .. c -> Seq(Poly)]
    BY <1>4
  <2> HIDE DEF s
  <2> QED
    BY <2>1, LenIs
<1>6. \A j \in 1 .. c : s[j] = expand_query(row[j], cnt(j))
  OBVIOUS
<1> HIDE DEF s
<1>7. \A j \in 1 .. c : Len(s[j]) = IF j = c THEN z ELSE N
  BY <1>4 DEF Count
<1>8. /\ e \in Seq(Poly) /\ Len(e) = (c - 1) * N + z
      /\ \A j \in 1 .. c : \A k \in 1 .. Len(s[j]) : e[(j - 1) * N + k] = s[j][k]
  <2>1. N \in Nat /\ z \in Nat /\ c \in Nat \ {0} /\ s \in Rows(Poly, c, N, z)
    BY <1>1, <1>5, <1>7 DEF Rows
  <2>2. e \in Seq(Poly) /\ Len(e) = (c - 1) * N + z /\ InPlace(s, c, N)
    BY ONLY <2>1, Flattened
  <2> QED
    BY <2>2 DEF InPlace
<1> HIDE DEF e, cnt
<1>9. ASSUME NEW at \in Nat, at < Len(e), NEW p \in 1 .. Len(e),
             \A j \in 1 .. c : row[j] = IF at \div N = j - 1 THEN Monomial(at % N) ELSE Zero
      PROVE  e[p] = IF p - 1 = at THEN Const(Pow2[CeilLog2(cnt(at \div N + 1))]) ELSE Zero
  <2> DEFINE x == p - 1
             q == x \div N
             r == x % N
             j == q + 1
             aq == at \div N
             ar == at % N
             a == q * N
             b == aq * N
             l == (c - 1) * N
  <2>1. l \in Nat /\ Len(e) = l + z /\ at < l + z
    <3>1. c - 1 \in Nat
      OBVIOUS
    <3> QED
      BY <1>1, <1>8, <1>9, <3>1
  <2> HIDE DEF l
  <2>2. x \in Nat /\ p \in Nat /\ p = x + 1 /\ x < l + z
    BY <1>1, <2>1
  <2> HIDE DEF x
  <2>3. q \in Nat /\ r \in 0 .. N - 1 /\ r \in Nat /\ x = a + r /\ a \in Nat
    <3>1. q \in Nat /\ r \in 0 .. N - 1 /\ x = q * N + r
      BY <1>1, <2>2, QuotientIs
    <3>2. r \in Nat
      BY <1>1, <3>1
    <3> HIDE DEF q, r
    <3> QED
      BY <1>1, <3>1, <3>2
  <2>4. aq \in Nat /\ ar \in 0 .. N - 1 /\ ar \in Nat /\ at = b + ar /\ b \in Nat
    <3>1. aq \in Nat /\ ar \in 0 .. N - 1 /\ at = aq * N + ar
      BY <1>1, QuotientIs
    <3>2. ar \in Nat
      BY <1>1, <3>1
    <3> HIDE DEF aq, ar
    <3> QED
      BY <1>1, <3>1, <3>2
  <2>5. \A u \in Nat, v \in Nat : v < l + z /\ u * N <= v => u <= c - 1
    <3> SUFFICES ASSUME NEW u \in Nat, NEW v \in Nat, v < l + z, u * N <= v, c <= u
                 PROVE  FALSE
      OBVIOUS
    <3>1. c * N <= u * N
      BY <1>1, TimesMonotone
    <3>2. c * N = l + N
      BY <1>1 DEF l
    <3> DEFINE w == u * N
    <3>3. w \in Nat
      BY <1>1
    <3> HIDE DEF w
    <3>4. l + N <= w /\ w <= v
      BY <3>1, <3>2 DEF w
    <3> QED
      BY <1>1, <2>1, <3>3, <3>4
  <2>6. q <= c - 1 /\ aq <= c - 1
    <3>1. a <= x /\ b <= at
      BY <2>3, <2>4
    <3>2. /\ q \in Nat /\ x \in Nat /\ x < l + z /\ q * N <= x
          /\ aq \in Nat /\ at \in Nat /\ at < l + z /\ aq * N <= at
      BY <2>1, <2>2, <2>3, <2>4, <3>1
    <3> QED
      BY ONLY <2>5, <3>2
  <2>7. (q = c - 1 => a = l) /\ (aq = c - 1 => b = l) /\ (q = aq => a = b)
    BY DEF l
  <2>8. q # aq => x # at
    BY DEF x
  <2> HIDE DEF q, r, a, aq, ar, b
  <2>9. j \in 1 .. c /\ cnt(j) = IF q = c - 1 THEN z ELSE N
    BY <2>3, <2>6 DEF cnt, Count
  <2>10. r < cnt(j) /\ (q = aq => ar < cnt(j)) /\ cnt(j) \in 1 .. N
    <3>1. CASE q = c - 1
      <4>1. a + r < a + z /\ (q = aq => a + ar < a + z)
        BY <1>1, <2>1, <2>2, <2>3, <2>4, <2>7, <3>1
      <4> QED
        BY <1>1, <2>3, <2>4, <2>9, <3>1, <4>1
    <3>2. CASE q # c - 1
      BY <1>1, <2>3, <2>4, <2>9, <3>2
    <3> QED
      BY <3>1, <3>2
  <2> DEFINE m == cnt(j)
             k == r + 1
  <2>11. e[p] = s[j][k] /\ k \in 1 .. m
    <3>1. k \in 1 .. m
      BY <2>3, <2>10
    <3>2. Len(s[j]) = m
      BY <1>4, <2>9
    <3>3. e[(j - 1) * N + k] = s[j][k]
      BY <1>8, <2>9, <3>1, <3>2
    <3>4. j - 1 = q
      BY <2>3
    <3> HIDE DEF k
    <3>5. (j - 1) * N + k = p
      <4>1. (j - 1) * N = a
        BY <3>4 DEF a
      <4> HIDE DEF j
      <4> QED
        BY <2>2, <2>3, <4>1 DEF k
    <3> QED
      BY <3>1, <3>3, <3>5
  <2>12. s[j] = expand_query(row[j], m) /\ m \in Nat /\ Expandable(m) /\ j - 1 = q
        /\ k - 1 = r
    BY <1>2, <1>6, <2>3, <2>9
  <2>13. (p - 1 = at) <=> (x = at)
    BY DEF x
  <2>14. row[j] = IF aq = q THEN Monomial(ar) ELSE Zero
    BY <1>9, <2>9, <2>12 DEF aq, ar
  <2> HIDE DEF j, m, k
  <2>15. CASE q = aq
    <3>1. row[j] = Term(ar, 1)
      BY <2>14, <2>15, TermIs
    <3>2. ar \in 0 .. m - 1
      BY <2>4, <2>10, <2>12, <2>15 DEF m
    <3>3. expand_query(Term(ar, 1), m)[k] = IF k - 1 = ar THEN Const(1 * Pow2[CeilLog2(m)]) ELSE Zero
      BY <2>11, <2>12, <3>2, ExpandedTerm
    <3>4. k - 1 = r /\ (r = ar <=> x = at)
      BY <2>3, <2>4, <2>7, <2>12, <2>15
    <3>5. 1 * Pow2[CeilLog2(m)] = Pow2[CeilLog2(m)]
      <4>1. CeilLog2(m) \in Nat
        BY <2>12, Steps, Degree
      <4>2. Pow2[CeilLog2(m)] \in Nat
        BY <4>1, Pow2Type
      <4> QED
        BY <4>2
    <3>6. m = cnt(aq + 1)
      BY <2>15 DEF m, j
    <3>7. e[p] = expand_query(Term(ar, 1), m)[k]
      BY <2>11, <2>12, <3>1
    <3>8. e[p] = IF x = at THEN Const(Pow2[CeilLog2(cnt(aq + 1))]) ELSE Zero
      BY <3>3, <3>4, <3>5, <3>6, <3>7
    <3> QED
      BY <2>13, <3>8 DEF aq
  <2>16. CASE q # aq
    <3>1. row[j] = Term(0, 0) /\ \A a_0 : Const(a_0) = Term(0, a_0)
      BY <2>14, <2>16, TermIs
    <3>2. 0 \in 0 .. m - 1
      BY <2>10, <2>12 DEF m
    <3>3. expand_query(Term(0, 0), m)[k] = IF k - 1 = 0 THEN Const(0 * Pow2[CeilLog2(m)]) ELSE Zero
      BY <2>11, <2>12, <3>2, ExpandedTerm
    <3>4. 0 * Pow2[CeilLog2(m)] = 0
      <4>1. CeilLog2(m) \in Nat
        BY <2>12, Steps, Degree
      <4>2. Pow2[CeilLog2(m)] \in Nat
        BY <4>1, Pow2Type
      <4> QED
        BY <4>2
    <3>5. Const(0 * Pow2[CeilLog2(m)]) = Zero
      BY <3>4 DEF Zero
    <3>6. expand_query(Term(0, 0), m)[k] = Zero
      BY <3>3, <3>5
    <3>7. e[p] = Zero
      BY <2>11, <2>12, <3>1, <3>6
    <3> QED
      BY <2>8, <2>13, <2>16, <3>7
  <2> QED
    BY <2>15, <2>16
<1> QED
  BY <1>8, <1>9 DEF e, s, cnt, Selectors

\* The rows of a query that has arrived, and the side that each is for.
LEMMA Arrived ==
  ASSUME TypeOK, ClientInv, LengthInv, pc \in {"expanding", "multiplying"},
         level \in DOMAIN query
  PROVE  /\ level \in 1 .. flags.client_d /\ level \in 1 .. flags.d
         /\ query[level] \in Seq(Poly) /\ Len(query[level]) = arriving(level)
         /\ arriving(level) \in Nat \ {0}
         /\ nvec[level] \in Nat \ {0} /\ client_nvec[level] \in Nat \ {0}
         /\ indices_[level] \in Nat
<1>1. /\ flags \in Flags /\ flags.client_d \in {1, 2} /\ flags.d \in {1, 2}
      /\ Len(nvec) = flags.d /\ Len(client_nvec) = flags.client_d
      /\ nvec \in [1 .. flags.d -> Nat \ {0}]
      /\ client_nvec \in [1 .. flags.client_d -> Nat \ {0}]
  BY FlagTypes, Matrices DEF TypeOK
<1>2. /\ query \in Seq(Seq(Poly))
      /\ Len(query) = IF flags.via = "tcp" THEN 1 ELSE Len(client_nvec)
      /\ Len(query[level]) = arriving(level)
      /\ level \in 1 .. Len(nvec)
  BY DEF TypeOK, LengthInv, Ciphertexts
<1>3. level \in 1 .. flags.client_d /\ level \in 1 .. flags.d
  <2>1. DOMAIN query = 1 .. Len(query) /\ Len(query) \in {1, flags.client_d}
    <3>1. DOMAIN query = 1 .. Len(query)
      BY <1>2, LenProperties
    <3>2. CASE flags.via = "tcp"
      BY <1>2, <3>1, <3>2
    <3>3. CASE flags.via # "tcp"
      BY <1>1, <1>2, <3>1, <3>3
    <3> QED
      BY <3>2, <3>3
  <2>2. 1 .. Len(query) \subseteq 1 .. flags.client_d
    BY <1>1, <2>1
  <2> QED
    BY <1>1, <1>2, <2>1, <2>2
<1>4. query[level] \in Seq(Poly)
  BY <1>2, ElementOfSeq
<1>5. nvec[level] \in Nat \ {0} /\ client_nvec[level] \in Nat \ {0}
  BY <1>1, <1>3
<1>6. arriving(level) \in Nat \ {0}
  <2>1. N \in Nat \ {0}
    BY Degree
  <2>2. CeilDiv(client_nvec[level], N) \in Nat \ {0}
    BY <1>5, <2>1, CeilDivPositive
  <2> QED
    BY <2>2 DEF arriving
<1>7. indices_[level] \in Nat
  <2>1. desiredIndex # -1
    BY DEF ClientInv
  <2>2. indices_ \in [1 .. flags.client_d -> Nat]
    BY <2>1, Wanted
  <2> QED
    BY <1>3, <2>2
<1> QED
  BY <1>2, <1>3, <1>4, <1>5, <1>6, <1>7

\* A row becomes its selectors.
LEMMA ExpandRow == ReplyInv /\ expand => ReplyInv'
<1> SUFFICES ASSUME ReplyInv, expand PROVE ReplyInv'
  OBVIOUS
<1> DEFINE row == query[level]
           z == nvec[level] % N
           count(j) == IF j = Len(row) THEN z ELSE N
           e == FlattenSeq([j \in DOMAIN row |-> expand_query(row[j], count(j))])
<1>1. /\ pc = "expanding"
      /\ UNCHANGED <<flags, ntt, is_db_preprocessed_, desiredIndex, indices_, inverse_scales_>>
      /\ UNCHANGED <<query, level, cur, intermediateCtxts, reply, layer, result, whole>>
  BY DEF expand, database, client, decoding
<1>2. \/ /\ level \in DOMAIN query /\ \A j \in DOMAIN row : Expandable(count(j))
         /\ expanded_query' = e /\ pc' = "multiplying"
      \/ pc' = "failed" /\ expanded_query' = expanded_query
      \/ /\ level \notin DOMAIN query /\ pc' \in {"multiplying", "failed"}
         /\ expanded_query' = expanded_query
  BY Zenon DEF expand
<1> HIDE DEF e, row
<1>3. /\ nvec' = nvec /\ client_nvec' = client_nvec /\ Complete' = Complete
      /\ \A i : arriving(i)' = arriving(i)
  BY <1>1, FlagsStay
<1>4. TypeOK /\ ClientInv /\ LengthInv /\ QueryInv /\ (is_db_preprocessed_ => ntt)
  BY DEF ReplyInv
<1>5. ASSUME level \in DOMAIN query, \A j \in DOMAIN row : Expandable(count(j))
      PROVE  /\ e \in Seq(Poly) /\ Expandable(z) /\ Len(e) = (arriving(level) - 1) * N + z
             /\ indices_[level] < Len(e) =>
                  \A p \in DOMAIN e :
                    e[p] = IF p - 1 = indices_[level] THEN Const(Pow2[server_logm(level)])
                           ELSE Zero
  <2> DEFINE c == arriving(level)
             at == indices_[level]
  <2>1. /\ row \in Seq(Poly) /\ Len(row) = c /\ c \in Nat \ {0}
        /\ nvec[level] \in Nat /\ at \in Nat
    BY <1>1, <1>4, <1>5, Arrived DEF row
  <2> HIDE DEF c, at
  <2>2. DOMAIN row = 1 .. c /\ c \in DOMAIN row
    BY <2>1
  <2>3. z \in Nat /\ Expandable(z)
    <3>1. N \in Nat \ {0}
      BY Degree
    <3>2. z \in 0 .. N - 1
      BY <2>1, <3>1, QuotientIs
    <3>3. count(c) = z
      BY <2>1
    <3> HIDE DEF z, count
    <3> QED
      BY <1>5, <2>2, <3>1, <3>2, <3>3
  <2>4. e = Selectors(row, c, z)
    BY <2>1, <2>2 DEF e, Count, Selectors
  <2> HIDE DEF z, count
  <2>5. /\ e \in Seq(Poly) /\ Len(e) = (c - 1) * N + z
        /\ /\ at < Len(e)
           /\ \A j \in 1 .. c : row[j] = IF at \div N = j - 1 THEN Monomial(at % N) ELSE Zero
           => \A p \in 1 .. Len(e) :
                e[p] = IF p - 1 = at
                       THEN Const(Pow2[CeilLog2(Count(at \div N + 1, c, z))]) ELSE Zero
    <3>1. /\ c \in Nat \ {0} /\ row \in Seq(Poly) /\ Len(row) = c
          /\ z \in Nat /\ Expandable(z) /\ at \in Nat
      BY <2>1, <2>3
    <3> DEFINE f == Selectors(row, c, z)
    <3>2. /\ f \in Seq(Poly) /\ Len(f) = (c - 1) * N + z
          /\ \A at_0 \in Nat :
               /\ at_0 < Len(f)
               /\ \A j \in 1 .. c : row[j] = IF at_0 \div N = j - 1 THEN Monomial(at_0 % N) ELSE Zero
               => \A p \in 1 .. Len(f) :
                    f[p] = IF p - 1 = at_0
                           THEN Const(Pow2[CeilLog2(Count(at_0 \div N + 1, c, z))]) ELSE Zero
      BY ONLY <3>1, RowExpanded, ZenonT(30)
    <3> QED
      BY <3>1, <3>2, <2>4
  <2>6. \A j \in 1 .. c : row[j] = IF at \div N = j - 1 THEN Monomial(at % N) ELSE Zero
    BY <1>1, <1>4, <1>5, <2>2 DEF QueryInv, row, at
  <2>7. CeilLog2(Count(at \div N + 1, c, z)) = server_logm(level)
    <3>1. at \div N \in Nat
      <4>1. N \in Nat \ {0}
        BY Degree
      <4> QED
        BY <2>1, <4>1, QuotientIs
    <3> DEFINE q == at \div N
    <3> HIDE DEF q
    <3>2. (q + 1 = c) <=> (q = c - 1)
      BY <2>1, <3>1 DEF q
    <3>3. CASE q = c - 1
      <4>1. Count(q + 1, c, z) = z
        BY <3>2, <3>3 DEF Count
      <4>2. server_logm(level) = CeilLog2(z)
        BY <3>3 DEF server_logm, q, c, at, z
      <4> QED
        BY <4>1, <4>2 DEF q
    <3>4. CASE q # c - 1
      <4>1. Count(q + 1, c, z) = N
        BY <3>2, <3>4 DEF Count
      <4>2. server_logm(level) = CeilLog2(N)
        BY <3>4 DEF server_logm, q, c, at, logN
      <4> QED
        BY <4>1, <4>2 DEF q
    <3> QED
      BY <3>3, <3>4
  <2>8. DOMAIN e = 1 .. Len(e)
    BY <2>5
  <2>9. at < Len(e) => \A p \in DOMAIN e :
          e[p] = IF p - 1 = at THEN Const(Pow2[server_logm(level)]) ELSE Zero
    BY <2>5, <2>6, <2>7, <2>8
  <2> QED
    BY <2>3, <2>5, <2>9 DEF c, at
<1> HIDE DEF z, count
<1>6. pc' \in {"multiplying", "failed"}
  BY <1>2
<1>7. TypeOK'
  <2>1. expanded_query' \in Ciphertexts
    BY <1>2, <1>4, <1>5 DEF TypeOK, Ciphertexts
  <2>2. pc' \in {"idle", "queried", "expanding", "multiplying", "decoding", "failed"}
    BY <1>6
  <2> QED
    BY <1>1, <1>4, <2>1, <2>2 DEF TypeOK
<1>8. ClientInv'
  <2>1. \A u : expected_logm(indices_, u)' = expected_logm(indices_, u)
    BY <1>1, <1>3 DEF expected_logm, InLast
  <2>2. desiredIndex # -1
    BY <1>1, <1>4 DEF ClientInv
  <2> QED
    BY <1>1, <1>3, <1>4, <2>1, <2>2 DEF ClientInv
<1>9. LengthInv'
  <2>1. /\ level' \in 1 .. Len(nvec')
        /\ Len(query') = IF flags'.via = "tcp" THEN 1 ELSE Len(client_nvec')
        /\ \A i \in DOMAIN query' : Len(query'[i]) = arriving(i)'
        /\ Len(cur') = IF level' = 1 THEN Product(nvec') ELSE nvec'[2] * expansion_ratio
    BY <1>1, <1>3, <1>4 DEF LengthInv
  <2>2. pc' = "multiplying" /\ level' \in DOMAIN query' =>
          /\ Expandable(nvec'[level'] % N)
          /\ Len(expanded_query') = (arriving(level)' - 1) * N + (nvec'[level'] % N)
    BY <1>1, <1>2, <1>3, <1>5 DEF z
  <2>3. arriving(level') = arriving(level)
    BY <1>1
  <2> QED
    BY <1>1, <1>3, <1>6, <2>1, <2>2, <2>3 DEF LengthInv
<1>10. QueryInv'
  BY <1>1, <1>4 DEF QueryInv
<1>11. SelectorInv'
  <2>1. \A i : server_logm(i)' = server_logm(i)
    BY <1>1, <1>3 DEF server_logm
  <2>2. ASSUME pc' = "multiplying", level' \in DOMAIN query', indices_'[level'] < Len(expanded_query'),
               NEW p \in DOMAIN expanded_query'
        PROVE  expanded_query'[p] =
                 IF p - 1 = indices_'[level'] THEN Const(Pow2[server_logm(level)]) ELSE Zero
    BY <1>1, <1>2, <1>5, <2>2
  <2> QED
    BY <1>1, <2>1, <2>2 DEF SelectorInv
<1> QED
  BY <1>1, <1>4, <1>7, <1>8, <1>9, <1>10, <1>11 DEF ReplyInv

\* The matrix that a level selects from has the side of its dimension, and what
\* is left is selected for the next: the other side of the database, or the
\* plaintexts that one ciphertext is decomposed into.
LEMMA LevelSizes ==
  ASSUME flags \in Flags, level \in 1 .. Len(nvec),
         Len(cur) = IF level = 1 THEN Product(nvec) ELSE nvec[2] * expansion_ratio
  PROVE  LET product == Len(cur) \div nvec[level]
         IN  /\ nvec[level] \in Nat \ {0} /\ product \in Nat
             /\ nvec[level] * product = Len(cur)
             /\ Len(nvec) = 1 => product = 1
             /\ Len(nvec) = 2 /\ level = 1 => product = nvec[2] /\ nvec[2] \in Nat \ {0}
             /\ level = 2 => product = expansion_ratio
<1> DEFINE l == Len(cur)
           p == l \div nvec[level]
<1>1. /\ flags.n \in Nat \ {0} /\ flags.d \in {1, 2} /\ Len(nvec) = flags.d
      /\ nvec \in [1 .. flags.d -> Nat \ {0}]
      /\ expansion_ratio \in Nat \ {0}
  BY FlagTypes, Matrices, Digits
<1>2. nvec[level] \in Nat \ {0} /\ nvec[1] \in Nat \ {0}
  BY <1>1
<1>3. ASSUME NEW a \in Nat \ {0}, NEW b \in Nat, l = b * a
      PROVE  l \div a = b /\ a * b = l
  <2>1. l = b * a + 0 /\ 0 \in 0 .. a - 1
    BY <1>3
  <2>2. l \div a = b
    BY <1>3, <2>1, DivIs
  <2> QED
    BY <1>3, <2>2
<1>4. CASE Len(nvec) = 1
  <2>1. level = 1 /\ l = Product(nvec)
    BY <1>4
  <2>2. l = nvec[1]
    BY <1>2, <1>4, <2>1, ProductOfOne
  <2>3. l = 1 * nvec[1] /\ 1 \in Nat
    BY <1>2, <2>2
  <2> HIDE DEF l
  <2>4. l \div nvec[1] = 1 /\ nvec[1] * 1 = l
    BY <1>2, <1>3, <2>3
  <2> QED
    BY <1>2, <1>4, <2>1, <2>4 DEF l
<1>5. CASE Len(nvec) = 2
  <2>1. nvec[2] \in Nat \ {0}
    BY <1>1, <1>5
  <2>3. CASE level = 1
    <3>1. l = nvec[1] * nvec[2]
      BY <1>2, <1>5, <2>1, <2>3, ProductOfTwo
    <3>2. l = nvec[2] * nvec[1]
      BY <1>2, <2>1, <3>1
    <3> HIDE DEF l
    <3>3. l \div nvec[1] = nvec[2] /\ nvec[1] * nvec[2] = l
      BY <1>2, <1>3, <2>1, <3>2
    <3> QED
      BY <1>2, <1>5, <2>1, <2>3, <3>3 DEF l
  <2>4. CASE level = 2
    <3>1. l = nvec[2] * expansion_ratio
      BY <2>4
    <3>2. l = expansion_ratio * nvec[2]
      BY <1>1, <2>1, <3>1
    <3> HIDE DEF l
    <3>3. l \div nvec[2] = expansion_ratio /\ nvec[2] * expansion_ratio = l
      BY <1>1, <1>3, <2>1, <3>2
    <3> QED
      BY <1>1, <1>2, <1>5, <2>1, <2>4, <3>3 DEF l
  <2> QED
    BY <1>5, <2>3, <2>4
<1> QED
  BY <1>1, <1>4, <1>5

\* The plaintexts that the ciphertexts of one row are decomposed into follow each
\* other.
LEMMA RowsDecomposed ==
  ASSUME flags \in Flags, Len(nvec) = 2, NEW seed \in Seeds
  PROVE  LET s == [k \in 1 .. nvec[2] |-> decompose_to_plaintexts_ptr(Words(seed, k))]
         IN  /\ FlattenSeq(s) \in Seq(Poly) /\ Len(FlattenSeq(s)) = nvec[2] * expansion_ratio
             /\ \A k \in 1 .. nvec[2] :
                  /\ Len(s[k]) = expansion_ratio /\ DOMAIN s[k] = 1 .. expansion_ratio
                  /\ s[k] \in Seq(Poly)
                  /\ \A e \in 1 .. expansion_ratio :
                       FlattenSeq(s)[(k - 1) * expansion_ratio + e] = s[k][e]
<1> DEFINE n == nvec[2]
           s == [k \in 1 .. n |-> decompose_to_plaintexts_ptr(Words(seed, k))]
<1>1. n \in Nat \ {0} /\ expansion_ratio \in Nat \ {0}
  BY Matrices, Digits
<1>2. \A k \in 1 .. n : s[k] \in Seq(Poly) /\ Len(s[k]) = expansion_ratio
  <2>1. ASSUME NEW k \in 1 .. n
        PROVE  Words(seed, k) \in [1 .. 2 -> [0 .. N - 1 -> Nat]]
    <3> DEFINE b == Pow2[logq]
    <3>1. Words(seed, k) \in [1 .. 2 -> [0 .. N - 1 -> 0 .. b - 1]]
      BY WordsAre
    <3>2. b \in Nat
      BY PirReplyAssumption, Pow2Type
    <3> HIDE DEF b
    <3>3. 0 .. b - 1 \subseteq Nat
      BY <3>2
    <3>4. [0 .. N - 1 -> 0 .. b - 1] \subseteq [0 .. N - 1 -> Nat]
      BY <3>3
    <3> QED
      BY <3>1, <3>4
  <2> QED
    BY <2>1, DecomposedIs
<1> HIDE DEF n, s
<1>3. s \in Rows(Poly, n, expansion_ratio, expansion_ratio)
  <2>1. s \in [1 .. n -> Seq(Poly)]
    BY <1>2 DEF s
  <2>2. s \in Seq(Seq(Poly)) /\ Len(s) = n
    BY <1>1, <2>1, LenIs
  <2> QED
    BY <1>2, <2>2 DEF Rows
<1>4. /\ FlattenSeq(s) \in Seq(Poly)
      /\ Len(FlattenSeq(s)) = (n - 1) * expansion_ratio + expansion_ratio
      /\ \A j \in 1 .. n : \A k \in 1 .. Len(s[j]) :
           FlattenSeq(s)[(j - 1) * expansion_ratio + k] = s[j][k]
  <2>1. /\ n \in Nat \ {0} /\ expansion_ratio \in Nat
        /\ s \in Rows(Poly, n, expansion_ratio, expansion_ratio)
    BY <1>1, <1>3
  <2>2. /\ FlattenSeq(s) \in Seq(Poly)
        /\ Len(FlattenSeq(s)) = (n - 1) * expansion_ratio + expansion_ratio
        /\ InPlace(s, n, expansion_ratio)
    BY ONLY <2>1, Flattened
  <2> QED
    BY <2>2 DEF InPlace
<1>5. (n - 1) * expansion_ratio + expansion_ratio = n * expansion_ratio
  BY <1>1
<1>6. \A k \in 1 .. n : DOMAIN s[k] = 1 .. expansion_ratio
  BY <1>2, LenProperties
<1> QED
  BY <1>2, <1>4, <1>5, <1>6 DEF n, s

\* What the server has selected at one level, and what is left of it.
LEMMA LevelEnds ==
  ASSUME ReplyInv, pc = "multiplying",
         NEW selected \in [1 .. Len(cur) \div nvec[level] -> Poly],
         finish_level(selected), UNCHANGED flags
  PROVE  /\ pc' \in {"decoding", "expanding"}
         /\ level' \in 0 .. 2 /\ layer' \in 0 .. 2
         /\ cur' \in Ciphertexts /\ reply' \in Ciphertexts
         /\ \A k \in DOMAIN intermediateCtxts' : intermediateCtxts'[k].enc \in Poly
         /\ pc' = "expanding" => /\ level' \in 1 .. Len(nvec) /\ level' # 1
                                 /\ Len(cur') = nvec[2] * expansion_ratio
         /\ pc' = "decoding" =>
              /\ layer' \in 1 .. Len(client_nvec)
              /\ Complete => Len(reply') = IF layer' = Len(client_nvec) THEN 1
                                           ELSE expansion_ratio
<1> DEFINE product == Len(cur) \div nvec[level]
<1>1. /\ flags \in Flags /\ Len(nvec) \in {1, 2} /\ Len(client_nvec) \in {1, 2}
      /\ flags.n \in Nat
  BY FlagTypes, Matrices DEF ReplyInv, TypeOK
<1>2. /\ level \in 1 .. Len(nvec)
      /\ Len(cur) = IF level = 1 THEN Product(nvec) ELSE nvec[2] * expansion_ratio
      /\ cur \in Ciphertexts /\ layer \in 0 .. 2 /\ level \in 0 .. 2 /\ reply \in Ciphertexts
      /\ \A k \in DOMAIN intermediateCtxts : intermediateCtxts[k].enc \in Poly
  BY DEF ReplyInv, TypeOK, LengthInv
<1>3. /\ product \in Nat
      /\ Len(nvec) = 1 => product = 1
      /\ Len(nvec) = 2 /\ level = 1 => product = nvec[2] /\ nvec[2] \in Nat \ {0}
      /\ level = 2 => product = expansion_ratio
  BY <1>1, <1>2, LevelSizes
<1> HIDE DEF product
<1>4. selected \in Seq(Poly) /\ Len(selected) = product /\ DOMAIN selected = 1 .. product
  <2>1. selected \in [1 .. product -> Poly]
    BY DEF product
  <2> QED
    BY <1>3, <2>1, LenIs
<1>5. expansion_ratio \in Nat \ {0}
  BY Digits
<1>6. CASE level = Len(nvec)
  <2>1. /\ reply' = IF flags.via = "tcp" THEN SubSeq(selected, 1, 1) ELSE selected
        /\ layer' = 1 /\ pc' = "decoding"
        /\ level' = level /\ cur' = cur /\ intermediateCtxts' = intermediateCtxts
    BY <1>6 DEF finish_level
  <2>2. SubSeq(selected, 1, 1) \in Seq(Poly) /\ (product = 1 => Len(SubSeq(selected, 1, 1)) = 1)
    <3>1. Len(selected) \in Nat \ {0}
      <4>1. expansion_ratio \in Nat \ {0} /\ (level = 1 \/ level = 2)
        BY <1>1, <1>2, <1>5
      <4>2. CASE Len(nvec) = 1
        BY <1>3, <1>4, <4>2
      <4>3. CASE Len(nvec) = 2 /\ level = 1
        BY <1>3, <1>4, <4>3
      <4>4. CASE level = 2
        BY <1>3, <1>4, <4>1, <4>4
      <4> QED
        BY <1>1, <4>1, <4>2, <4>3, <4>4
    <3>2. 1 \in 1 .. product /\ 1 \in Int
      BY <1>3, <1>4, <3>1
    <3>3. \A i \in 1 .. 1 : selected[i] \in Poly
      <4>1. selected[1] \in Poly
        BY <3>2 DEF product
      <4> QED
        BY <4>1
    <3>4. SubSeq(selected, 1, 1) \in Seq(Poly)
          /\ Len(SubSeq(selected, 1, 1)) = IF 1 <= 1 THEN (1 - 1) + 1 ELSE 0
      BY <3>2, <3>3, SubSeqProperties
    <3> QED
      BY <3>4
  <2>3. reply' \in Ciphertexts
    BY <1>4, <2>1, <2>2 DEF Ciphertexts
  <2>4. layer' \in 0 .. 2 /\ layer' \in 1 .. Len(client_nvec)
    <3> DEFINE l == Len(client_nvec)
    <3> HIDE DEF l
    <3>1. 1 \in 0 .. 2 /\ 1 \in 1 .. l
      <4>1. l \in {1, 2}
        BY <1>1 DEF l
      <4> QED
        BY <4>1
    <3> QED
      BY <2>1, <3>1 DEF l
  <2>5. ASSUME Complete
        PROVE  Len(reply') = IF layer' = Len(client_nvec) THEN 1 ELSE expansion_ratio
    <3>1. Len(nvec) = Len(client_nvec) /\ (flags.via = "tcp" => Len(nvec) = 1)
      BY <2>5 DEF Complete
    <3>2. CASE Len(nvec) = 1
      BY <1>3, <1>4, <2>1, <2>2, <3>1, <3>2
    <3>3. CASE Len(nvec) = 2
      BY <1>3, <1>4, <1>6, <2>1, <3>1, <3>3
    <3> QED
      BY <1>1, <3>2, <3>3
  <2> QED
    BY <1>2, <2>1, <2>3, <2>4, <2>5
<1>7. CASE level # Len(nvec)
  <2>1. level = 1 /\ Len(nvec) = 2 /\ product = nvec[2] /\ nvec[2] \in Nat \ {0}
    <3> DEFINE l == Len(nvec)
    <3>1. l \in {1, 2} /\ level \in 1 .. l /\ level # l
      BY <1>1, <1>2, <1>7
    <3> HIDE DEF l
    <3>2. level = 1 /\ l = 2
      BY <3>1
    <3> QED
      BY <1>3, <3>2 DEF l
  <2>2. PICK seed \in Seeds :
          intermediateCtxts' =
            [k \in DOMAIN selected |-> [enc |-> selected[k], words |-> Words(seed, k)]]
    BY <1>7 DEF finish_level
  <2>3. /\ cur' = FlattenSeq([k \in DOMAIN selected |->
                    decompose_to_plaintexts_ptr(intermediateCtxts'[k].words)])
        /\ level' = level + 1 /\ pc' = "expanding"
        /\ reply' = reply /\ layer' = layer
    BY <1>7 DEF finish_level
  <2> DEFINE s == [k \in 1 .. nvec[2] |-> decompose_to_plaintexts_ptr(Words(seed, k))]
  <2>4. \A k \in 1 .. product : /\ intermediateCtxts'[k].words = Words(seed, k)
                                /\ intermediateCtxts'[k].enc = selected[k]
    BY <1>4, <2>2
  <2>5. DOMAIN intermediateCtxts' = 1 .. product
    BY <1>4, <2>2
  <2>6. cur' = FlattenSeq(s)
    <3>1. [k \in DOMAIN selected |-> decompose_to_plaintexts_ptr(intermediateCtxts'[k].words)] = s
      BY <1>4, <2>1, <2>4
    <3> QED
      BY <2>3, <3>1
  <2>10. cur' \in Seq(Poly) /\ Len(cur') = nvec[2] * expansion_ratio
    BY <1>1, <2>1, <2>6, RowsDecomposed
  <2>11. level' = 2 /\ 2 \in 1 .. Len(nvec) /\ 2 \in 0 .. 2 /\ 2 # 1
    BY <2>1, <2>3
  <2>12. \A k \in DOMAIN intermediateCtxts' : intermediateCtxts'[k].enc \in Poly
    <3>1. \A k \in 1 .. product : selected[k] \in Poly
      BY <1>4, ElementOfSeq
    <3> QED
      BY <2>4, <2>5, <3>1
  <2>13. cur' \in Ciphertexts /\ reply' \in Ciphertexts
    BY <1>2, <2>3, <2>10 DEF Ciphertexts
  <2> QED
    BY <1>2, <2>3, <2>10, <2>11, <2>12, <2>13
<1> QED
  BY <1>6, <1>7

\* A dimension is selected by them.
LEMMA MultiplyLevel == ReplyInv /\ multiply => ReplyInv'
<1> SUFFICES ASSUME ReplyInv, multiply PROVE ReplyInv'
  OBVIOUS
<1> DEFINE n_i == nvec[level]
           product == Len(cur) \div n_i
           selected == IF Len(expanded_query) >= n_i THEN select(product, n_i)
                       ELSE [k \in 1 .. product |-> Zero]
<1>1. /\ pc = "multiplying" /\ expanded_query' = <<>>
      /\ UNCHANGED <<flags, is_db_preprocessed_, desiredIndex, indices_, inverse_scales_>>
      /\ UNCHANGED <<query, result, whole>>
  BY DEF multiply, client
<1>2. ntt' = (ntt \/ (~ is_db_preprocessed_ /\ level = 1))
  BY DEF multiply
<1>3. \/ finish_level(selected)
      \/ pc' = "failed" /\ UNCHANGED <<level, cur, intermediateCtxts, reply, layer>>
  BY Zenon DEF multiply
<1>4. TypeOK /\ ClientInv /\ LengthInv /\ (is_db_preprocessed_ => ntt) /\ flags \in Flags
  BY DEF ReplyInv, TypeOK
<1>5. /\ level \in 1 .. Len(nvec)
      /\ Len(query) = IF flags.via = "tcp" THEN 1 ELSE Len(client_nvec)
      /\ \A i \in DOMAIN query : Len(query[i]) = arriving(i)
      /\ Len(cur) = IF level = 1 THEN Product(nvec) ELSE nvec[2] * expansion_ratio
      /\ cur \in Seq(Poly) /\ expanded_query \in Seq(Poly)
  BY <1>1, <1>4 DEF LengthInv, TypeOK, Ciphertexts
<1>6. n_i \in Nat \ {0} /\ product \in Nat /\ n_i * product = Len(cur)
  BY <1>4, <1>5, LevelSizes
<1> HIDE DEF n_i, product
<1>7. selected \in [1 .. product -> Poly]
  <2>1. Len(cur) \in Nat /\ Len(expanded_query) \in Nat
    BY <1>5
  <2>2. CASE Len(expanded_query) >= n_i
    <3>1. n_i <= Len(expanded_query) /\ n_i * product <= Len(cur)
      BY <1>6, <2>1, <2>2
    <3> QED
      BY <1>5, <1>6, <2>2, <3>1, Selecting
  <2>3. CASE ~ (Len(expanded_query) >= n_i)
    BY <2>3, ZeroOne
  <2> QED
    BY <2>2, <2>3
<1> HIDE DEF selected
<1>8. /\ nvec' = nvec /\ client_nvec' = client_nvec /\ Complete' = Complete
      /\ \A i : arriving(i)' = arriving(i)
  BY <1>1, FlagsStay
<1>9. /\ pc' \in {"decoding", "expanding", "failed"}
      /\ level' \in 0 .. 2 /\ layer' \in 0 .. 2
      /\ cur' \in Ciphertexts /\ reply' \in Ciphertexts
      /\ \A k \in DOMAIN intermediateCtxts' : intermediateCtxts'[k].enc \in Poly
      /\ pc' = "expanding" => /\ level' \in 1 .. Len(nvec) /\ level' # 1
                              /\ Len(cur') = nvec[2] * expansion_ratio
      /\ pc' = "decoding" =>
           /\ layer' \in 1 .. Len(client_nvec)
           /\ Complete => Len(reply') = IF layer' = Len(client_nvec) THEN 1
                                        ELSE expansion_ratio
  <2>1. CASE finish_level(selected)
    <3>1. selected \in [1 .. Len(cur) \div nvec[level] -> Poly]
      BY <1>7 DEF product, n_i
    <3> QED
      BY <1>1, <2>1, <3>1, LevelEnds
  <2>2. CASE pc' = "failed" /\ UNCHANGED <<level, cur, intermediateCtxts, reply, layer>>
    BY <1>4, <2>2 DEF TypeOK
  <2> QED
    BY <1>3, <2>1, <2>2
<1>10. TypeOK'
  <2>1. <<>> \in Ciphertexts
    BY DEF Ciphertexts
  <2>2. ntt' \in BOOLEAN
    BY <1>2
  <2>3. pc' \in {"idle", "queried", "expanding", "multiplying", "decoding", "failed"}
    BY <1>9
  <2> QED
    BY <1>1, <1>4, <1>9, <2>1, <2>2, <2>3 DEF TypeOK
<1>11. ClientInv'
  <2>1. \A u : expected_logm(indices_, u)' = expected_logm(indices_, u)
    BY <1>1, <1>8 DEF expected_logm, InLast
  <2>2. desiredIndex # -1
    BY <1>1, <1>4 DEF ClientInv
  <2> QED
    BY <1>1, <1>4, <1>8, <2>1, <2>2 DEF ClientInv
<1>12. LengthInv'
  BY <1>1, <1>5, <1>8, <1>9 DEF LengthInv
<1>13. QueryInv'
  BY <1>1, <1>9 DEF ReplyInv, QueryInv
<1>14. SelectorInv'
  BY <1>9 DEF SelectorInv
<1>15. is_db_preprocessed_' => ntt'
  BY <1>1, <1>2, <1>4
<1> QED
  BY <1>10, <1>11, <1>12, <1>13, <1>14, <1>15 DEF ReplyInv

\* Decryption gives the polynomial of a ciphertext of the server, or a stray one.
LEMMA Decrypted ==
  ASSUME \A k \in DOMAIN intermediateCtxts : intermediateCtxts[k].enc \in Poly,
         NEW words, NEW stray \in Poly
  PROVE  decrypt(words, stray) \in Poly
<1>1. known(words) # {} => (CHOOSE k \in known(words) : TRUE) \in DOMAIN intermediateCtxts
  <2>1. known(words) \subseteq DOMAIN intermediateCtxts
    BY DEF known
  <2> QED
    BY <2>1
<1> QED
  BY <1>1 DEF decrypt

\* The groups that are composed are as many as there are; what becomes of them.
Composed(overread, stray) ==
  [g \in groups |-> IF g \in overread THEN stray[g] ELSE decrypt(combined(g), stray[g])]

\* They are polynomials, one for each group.
LEMMA ComposedType ==
  ASSUME TypeOK, NEW overread, NEW stray \in [groups -> Garbled]
  PROVE  /\ Composed(overread, stray) \in Seq(Poly)
         /\ Len(Composed(overread, stray)) = Len(reply) \div expansion_ratio
<1> DEFINE n == Len(reply) \div expansion_ratio
           c == Composed(overread, stray)
<1>1. n \in Nat
  <2>1. Len(reply) \in Nat /\ expansion_ratio \in Nat \ {0}
    BY Digits DEF TypeOK, Ciphertexts
  <2> QED
    BY <2>1, QuotientIs
<1>2. groups = 1 .. n
  BY DEF groups
<1>3. \A g \in groups : stray[g] \in Poly /\ decrypt(combined(g), stray[g]) \in Poly
  <2>1. Garbled \subseteq Poly
    BY PirReplyAssumption
  <2>2. \A k \in DOMAIN intermediateCtxts : intermediateCtxts[k].enc \in Poly
    BY DEF TypeOK
  <2> QED
    BY <2>1, <2>2, Decrypted
<1>4. c \in [groups -> Poly]
  BY <1>3, Zenon DEF Composed
<1> HIDE DEF n, c
<1>5. c \in [1 .. n -> Poly]
  BY <1>2, <1>4
<1>6. c \in Seq(Poly) /\ Len(c) = n
  BY <1>1, <1>5, LenIs
<1> QED
  BY <1>6 DEF n, c

\* The layers of decode_reply but the last, by what they compose,
LEMMA LayerComposed ==
  ASSUME decode_layer, layer < Len(client_nvec)
  PROVE  \E overread \in SUBSET {g \in groups : trimmed(g)}, stray \in [groups -> Garbled] :
           /\ whole' = (whole /\ overread = {})
           /\ \/ /\ reply' = Composed(overread, stray) /\ layer' = layer + 1 /\ pc' = pc
              \/ /\ \E g \in groups : g \in overread \/ known(combined(g)) = {}
                 /\ pc' = "failed" /\ reply' = reply /\ layer' = layer
BY Zenon DEF decode_layer, compose_layer, Composed

\* A layer of the reply is decoded, by the scale of its dimension.
LEMMA DecodeLayer == ReplyInv /\ decode_layer => ReplyInv'
<1> SUFFICES ASSUME ReplyInv, decode_layer PROVE ReplyInv'
  OBVIOUS
<1> DEFINE d == Len(client_nvec)
           n == Len(reply) \div expansion_ratio
<1>1. /\ pc = "decoding"
      /\ UNCHANGED <<flags, ntt, is_db_preprocessed_, desiredIndex, indices_, inverse_scales_>>
      /\ UNCHANGED expanded_query
  BY DEF decode_layer, compose_layer, finish_reply, database, client, server
<1>2. \/ /\ layer < d
         /\ \/ /\ reply' \in Seq(Poly) /\ Len(reply') = n
               /\ layer' = layer + 1 /\ pc' = pc
            \/ reply' = reply /\ layer' = layer /\ pc' = "failed"
         /\ result' = result /\ query' = query
         /\ UNCHANGED <<level, cur, intermediateCtxts>>
      \/ /\ ~ (layer < d)
         /\ \/ Len(reply) = 1 /\ result' = tempplain[1] /\ pc' = "idle"
            \/ result' = Zero /\ pc' \in {"idle", "failed"}
         /\ reply' = <<>> /\ layer' = 0 /\ query' = <<>>
         /\ level' = 0 /\ cur' = <<>> /\ intermediateCtxts' = <<>>
  <2>1. CASE layer < d
    <3>1. result' = result /\ query' = query /\ UNCHANGED <<level, cur, intermediateCtxts>>
      BY <2>1 DEF decode_layer, compose_layer, server
    <3>2. PICK overread \in SUBSET {g \in groups : trimmed(g)}, stray \in [groups -> Garbled] :
            \/ reply' = Composed(overread, stray) /\ layer' = layer + 1 /\ pc' = pc
            \/ pc' = "failed" /\ reply' = reply /\ layer' = layer
      BY <2>1, LayerComposed, Zenon
    <3>3. /\ Composed(overread, stray) \in Seq(Poly)
          /\ Len(Composed(overread, stray)) = n
      BY ComposedType DEF ReplyInv
    <3> QED
      BY <2>1, <3>1, <3>2, <3>3
  <2>2. CASE ~ (layer < d)
    BY <2>2 DEF decode_layer, finish_reply
  <2> QED
    BY <2>1, <2>2
<1>2a. whole' \in BOOLEAN
  <2>1. whole \in BOOLEAN
    BY DEF ReplyInv, TypeOK
  <2>2. CASE layer < d
    <3>1. PICK overread : whole' = (whole /\ overread = {})
      BY <2>2, LayerComposed, Zenon
    <3> QED
      BY <3>1
  <2>3. CASE ~ (layer < d)
    BY <2>1, <2>3 DEF decode_layer, finish_reply
  <2> QED
    BY <2>2, <2>3
<1>3. TypeOK /\ ClientInv /\ LengthInv /\ (is_db_preprocessed_ => ntt)
  BY DEF ReplyInv
<1>4. /\ reply \in Seq(Poly) /\ Len(reply) \in Nat /\ DOMAIN reply = 1 .. Len(reply)
      /\ \A k \in DOMAIN intermediateCtxts : intermediateCtxts[k].enc \in Poly
      /\ layer \in 1 .. d
      /\ Complete => Len(reply) = IF layer = d THEN 1 ELSE expansion_ratio
  BY <1>1, <1>3 DEF TypeOK, LengthInv, Ciphertexts
<1>5. d \in {1, 2} /\ expansion_ratio \in Nat \ {0}
  BY <1>3, FlagTypes, Matrices, Digits, SMTT(20) DEF TypeOK
<1>5a. /\ layer \in {1, 2} /\ d - layer + 1 \in 1 .. d
       /\ layer < d => layer = 1 /\ d = 2
  <2>1. layer \in 1 .. d /\ d \in {1, 2}
    BY <1>4, <1>5
  <2> HIDE DEF d
  <2>2. CASE d = 1
    BY <2>1, <2>2
  <2>3. CASE d = 2
    <3>1. layer = 1 \/ layer = 2
      BY <2>1, <2>3
    <3> QED
      BY <2>3, <3>1
  <2> QED
    BY <2>1, <2>2, <2>3
<1>7. ASSUME Len(reply) = 1 PROVE tempplain[1] \in Poly
  <2> DEFINE i == d - layer + 1
  <2>1. 1 \in DOMAIN reply /\ reply[1] \in Poly
    <3>1. 1 \in DOMAIN reply
      BY <1>4, <1>7
    <3> QED
      BY <1>4, <3>1, ElementOfSeq
  <2>2. inverse_scales_[i] \in Nat
    <3>1. desiredIndex # -1
      BY <1>1, <1>3 DEF ClientInv
    <3>2. indices_ \in [1 .. flags.client_d -> Nat] /\ d = flags.client_d
      BY <1>3, <3>1, Wanted, Matrices DEF TypeOK
    <3>3. i \in 1 .. d
      BY <1>5a
    <3>4. desiredIndex >= 0
      BY <1>3, <3>1, FlagTypes DEF TypeOK
    <3>5. DOMAIN inverse_scales_ = DOMAIN indices_
      BY <1>1, <1>3, <3>4 DEF ClientInv
    <3>6. inverse_scales_[i] \in 1 .. t - 1
      BY <1>3, <3>2, <3>3, <3>5 DEF TypeOK
    <3> QED
      BY <3>6, Degree
  <2>3. tempplain[1] = Scaled(reply[1], inverse_scales_[i])
    BY <2>1 DEF tempplain
  <2> QED
    BY <2>1, <2>2, <2>3, ScaledType
<1> HIDE DEF n
<1>8. /\ nvec' = nvec /\ client_nvec' = client_nvec /\ Complete' = Complete
      /\ \A i : arriving(i)' = arriving(i)
  BY <1>1, FlagsStay
<1>9. pc' \in {"idle", "decoding", "failed"} /\ result' \in Poly
  <2>1. Zero \in Poly /\ result \in Poly
    BY <1>3, ZeroOne DEF TypeOK
  <2> QED
    BY <1>1, <1>2, <1>7, <2>1
<1>10. /\ reply' \in Ciphertexts /\ layer' \in 0 .. 2 /\ level' \in 0 .. 2
       /\ query' \in Seq(Ciphertexts) /\ cur' \in Ciphertexts
       /\ \A k \in DOMAIN intermediateCtxts' : intermediateCtxts'[k].enc \in Poly
  <2>1. <<>> \in Ciphertexts /\ <<>> \in Seq(Ciphertexts)
    BY DEF Ciphertexts
  <2>2. CASE layer < d
    <3>1. layer' \in 0 .. 2
      <4>1. layer = 1 /\ 1 + 1 \in 0 .. 2 /\ 1 \in 0 .. 2
        BY <1>5a, <2>2
      <4> QED
        BY <1>2, <2>2, <4>1
    <3> QED
      BY <1>2, <1>3, <1>4, <2>2, <3>1 DEF TypeOK, Ciphertexts
  <2>3. CASE ~ (layer < d)
    <3>1. /\ reply' = <<>> /\ layer' = 0 /\ query' = <<>>
          /\ level' = 0 /\ cur' = <<>> /\ intermediateCtxts' = <<>>
      BY <1>2, <2>3
    <3>2. DOMAIN <<>> = {} /\ 0 \in 0 .. 2
      OBVIOUS
    <3> QED
      BY <2>1, <3>1, <3>2
  <2> QED
    BY <2>2, <2>3
<1>11. TypeOK'
  <2>1. pc' \in {"idle", "queried", "expanding", "multiplying", "decoding", "failed"}
    BY <1>9
  <2> QED
    BY <1>1, <1>2a, <1>3, <1>9, <1>10, <2>1 DEF TypeOK
<1>12. ClientInv'
  <2>1. \A u : expected_logm(indices_, u)' = expected_logm(indices_, u)
    BY <1>1, <1>8 DEF expected_logm, InLast
  <2>2. desiredIndex # -1
    BY <1>1, <1>3 DEF ClientInv
  <2> QED
    BY <1>1, <1>3, <1>8, <2>1, <2>2 DEF ClientInv
<1>13. pc' = "decoding" =>
         /\ layer' \in 1 .. d
         /\ Complete => Len(reply') = IF layer' = d THEN 1 ELSE expansion_ratio
  <2> SUFFICES ASSUME pc' = "decoding"
               PROVE  /\ layer' \in 1 .. d
                      /\ Complete => Len(reply') = IF layer' = d THEN 1 ELSE expansion_ratio
    OBVIOUS
  <2>1. layer < d /\ layer' = layer + 1 /\ Len(reply') = n
    BY <1>2
  <2> HIDE DEF d
  <2>2. layer = 1 /\ d = 2 /\ layer' = 2 /\ layer' \in 1 .. d
    <3>1. layer = 1 /\ d = 2
      BY <1>5a, <2>1
    <3>2. 1 + 1 = 2 /\ 2 \in 1 .. 2
      OBVIOUS
    <3> QED
      BY <2>1, <3>1, <3>2
  <2>3. ASSUME Complete PROVE Len(reply') = 1
    <3>1. Len(reply) = expansion_ratio
      BY <1>4, <2>2, <2>3
    <3>2. expansion_ratio = 1 * expansion_ratio + 0 /\ 0 \in 0 .. expansion_ratio - 1
      BY <1>5
    <3>3. expansion_ratio \div expansion_ratio = 1
      BY <1>5, <3>2, DivIs
    <3>4. n = 1
      BY <3>1, <3>3 DEF n
    <3> QED
      BY <2>1, <3>4
  <2> QED
    BY <2>2, <2>3
<1>14. LengthInv'
  BY <1>8, <1>9, <1>13 DEF LengthInv
<1>15. QueryInv' /\ SelectorInv'
  BY <1>9 DEF QueryInv, SelectorInv
<1> QED
  BY <1>1, <1>3, <1>11, <1>12, <1>14, <1>15 DEF ReplyInv

-----------------------------------------------------------------------------
\* Each step of the program keeps it.
LEMMA ReplyNext == ReplyInv /\ [Next]_vars => ReplyInv'
<1> SUFFICES ASSUME ReplyInv, [Next]_vars PROVE ReplyInv'
  OBVIOUS
<1>1. ASSUME UNCHANGED vars PROVE ReplyInv'
  <2>1. UNCHANGED <<flags, client, query, server, decoding>> /\ pc' = pc
    BY <1>1 DEF vars
  <2>2. ntt' = ntt /\ is_db_preprocessed_' = is_db_preprocessed_
    BY <1>1 DEF vars, database
  <2>3. ntt \in BOOLEAN /\ is_db_preprocessed_ \in BOOLEAN /\ (is_db_preprocessed_ => ntt)
    BY DEF ReplyInv, TypeOK
  <2>4. ntt' \in BOOLEAN /\ is_db_preprocessed_' \in BOOLEAN /\ (is_db_preprocessed_' => ntt')
    BY <2>2, <2>3
  <2> QED
    BY <2>1, <2>4, DatabaseStep
<1>2. CASE replace_database
  BY <1>2, ReplaceDatabase
<1>3. CASE preprocess_database
  BY <1>3, PreprocessDatabase
<1>4. CASE \E k \in 0 .. flags.client_n - 1 : generate_query(k)
  BY <1>4, GenerateQuery
<1>5. CASE generate_reply
  BY <1>5, GenerateReply
<1>6. CASE expand
  BY <1>6, ExpandRow
<1>7. CASE multiply
  BY <1>7, MultiplyLevel
<1>8. CASE decode_layer
  BY <1>8, DecodeLayer
<1>9. CASE Stopped
  BY <1>1, <1>9 DEF Stopped
<1> QED
  BY <1>1, <1>2, <1>3, <1>4, <1>5, <1>6, <1>7, <1>8, <1>9 DEF Next

\* How many ciphertexts and selectors there are in each phase of a query, and
\* what polynomials they encrypt, is as generate_query, generate_reply and
\* decode_reply leave it for each other.
THEOREM ReplyAsSent == Spec => []ReplyInv
<1>1. Init => ReplyInv
  BY ReplyInit
<1>2. ReplyInv /\ [Next]_vars => ReplyInv'
  BY ReplyNext
<1> QED
  BY <1>1, <1>2, PTL DEF Spec

\* The variables hold what the code declares: reduced polynomials throughout.
THEOREM ReplyTypes == Spec => []TypeOK
<1>1. ReplyInv => TypeOK
  BY DEF ReplyInv
<1> QED
  BY <1>1, ReplyAsSent, PTL

\* compute_inverse_scales gives the inverse of the scale that the server's
\* expansion leaves, if and only if the logarithm that it remembers from an
\* earlier dimension is not stale.
THEOREM ScalesMeet == Spec => []ScalesUndone
<1>1. ReplyInv => ScalesUndone
  BY ScalesAre DEF ReplyInv
<1> QED
  BY <1>1, ReplyAsSent, PTL

-----------------------------------------------------------------------------
\* What does not fill its last ciphertext needs one more than it fills.
LEMMA NotFull ==
  ASSUME NEW n \in Nat, NEW b \in Nat \ {0}, n % b # 0
  PROVE  CeilDiv(n, b) - 1 = n \div b /\ (CeilDiv(n, b) - 1) * b + (n % b) = n
<1> DEFINE q == n \div b
           r == n % b
<1>1. q \in Nat /\ r \in 0 .. b - 1 /\ n = q * b + r
  BY QuotientIs
<1>2. r # 0
  OBVIOUS
<1> HIDE DEF q, r
<1>3. n + b - 1 = (q + 1) * b + (r - 1) /\ r - 1 \in 0 .. b - 1
  BY <1>1, <1>2
<1>4. (n + b - 1) \div b = q + 1
  <2>1. q + 1 \in Nat
    BY <1>1
  <2> DEFINE m == n + b - 1
  <2> HIDE DEF m
  <2>2. m = (q + 1) * b + (r - 1)
    BY <1>3 DEF m
  <2>3. m \div b = q + 1
    BY <1>3, <2>1, <2>2, DivIs
  <2> QED
    BY <2>3 DEF m
<1>5. CeilDiv(n, b) - 1 = q
  BY <1>1, <1>4 DEF CeilDiv
<1> QED
  BY <1>1, <1>5 DEF q, r

\* The client's coordinates lie in its matrix.
LEMMA WantedInside ==
  ASSUME TypeOK, ClientInv, desiredIndex # -1
  PROVE  \A i \in 1 .. Len(client_nvec) : indices_[i] < client_nvec[i]
<1> DEFINE k == desiredIndex
<1>1. /\ k \in 0 .. flags.client_n - 1 /\ indices_ = compute_indices(k, client_nvec)
  BY Wanted
<1>2. /\ flags.client_d \in {1, 2} /\ flags.client_n \in Nat
      /\ client_nvec \in [1 .. flags.client_d -> Nat \ {0}]
      /\ Len(client_nvec) = flags.client_d
      /\ Product(client_nvec) \in Nat /\ flags.client_n <= Product(client_nvec)
  BY FlagTypes, Matrices DEF TypeOK
<1>3. k \in 0 .. Product(client_nvec) - 1
  BY <1>1, <1>2
<1> HIDE DEF k
<1>4. /\ Len(client_nvec) \in {1, 2}
      /\ \A i \in 1 .. Len(client_nvec) : client_nvec[i] \in Nat \ {0}
  BY <1>2
<1>5. \A i \in 1 .. Len(client_nvec) :
        compute_indices(k, client_nvec)[i] \in 0 .. client_nvec[i] - 1
  BY <1>3, <1>4, CoordinatesAre
<1> QED
  BY <1>1, <1>4, <1>5 DEF k

\* The lengths leave room for a selector at the client's coordinate.
LEMMA SelectorsAre ==
  ASSUME ReplyInv
  PROVE  SelectorsAreUnit
<1> SUFFICES ASSUME pc = "multiplying", SameFlags, Delivered
             PROVE  expanded_query =
                      [j \in 1 .. nvec[level] |->
                         IF j - 1 = indices_[level] THEN Const(Pow2[server_logm(level)])
                         ELSE Zero]
  BY DEF SelectorsAreUnit
<1> DEFINE n == nvec[level]
<1>1. TypeOK /\ ClientInv /\ LengthInv /\ SelectorInv /\ flags \in Flags
  BY DEF ReplyInv, TypeOK
<1>2. nvec = client_nvec /\ Len(nvec) \in {1, 2} /\ level \in 1 .. Len(nvec)
  BY <1>1, Matrices, FlagTypes DEF SameFlags, LengthInv
<1>3. desiredIndex # -1
  BY <1>1 DEF ClientInv
<1>4. Len(indices_) = Len(nvec)
  BY <1>1, <1>2, <1>3, Wanted, Matrices
<1>5. level \in DOMAIN query
  <2>1. Len(query) = Len(nvec)
    BY <1>1, <1>2, <1>4 DEF LengthInv, Delivered
  <2>2. DOMAIN query = 1 .. Len(query)
    <3>1. query \in Seq(Ciphertexts)
      BY <1>1 DEF TypeOK
    <3> QED
      BY <3>1, LenProperties
  <2> QED
    BY <1>2, <2>1, <2>2
<1>6. /\ n \in Nat \ {0} /\ indices_[level] \in Nat
  BY <1>1, <1>5, Arrived
<1>7. arriving(level) = CeilDiv(n, N)
  <2>1. CASE flags.via = "tcp"
    <3>1. Len(nvec) = 1 /\ CeilDiv(client_nvec[1], N) = 1 /\ level = 1
      BY <1>2, <1>4, <2>1 DEF Delivered
    <3> QED
      BY <1>2, <2>1, <3>1 DEF arriving
  <2>2. CASE flags.via # "tcp"
    BY <1>2, <2>2 DEF arriving
  <2> QED
    BY <2>1, <2>2
<1>8. Len(expanded_query) = n
  <2>1. /\ Expandable(n % N)
        /\ Len(expanded_query) = (arriving(level) - 1) * N + (n % N)
    BY <1>1, <1>5 DEF LengthInv
  <2>2. n % N # 0 /\ N \in Nat \ {0} /\ n \in Nat
    <3>1. n % N \in 2 .. N /\ N \in Nat /\ N >= 2
      BY <2>1, Degree DEF Expandable
    <3> DEFINE r == n % N
    <3> HIDE DEF r
    <3>2. r # 0
      BY <3>1 DEF r
    <3> QED
      BY <1>6, <3>1, <3>2 DEF r
  <2> HIDE DEF n
  <2>3. (CeilDiv(n, N) - 1) * N + (n % N) = n
    BY <2>2, NotFull
  <2> QED
    BY <1>7, <2>1, <2>3
<1>9. indices_[level] < n
  BY <1>1, <1>2, <1>3, WantedInside
<1> HIDE DEF n
<1>10. expanded_query \in Seq(Poly)
  BY <1>1 DEF TypeOK, Ciphertexts
<1>11. DOMAIN expanded_query = 1 .. n /\ expanded_query = [p \in 1 .. n |-> expanded_query[p]]
  BY <1>6, <1>8, <1>10
<1>12. \A p \in 1 .. n :
         expanded_query[p] =
           IF p - 1 = indices_[level] THEN Const(Pow2[server_logm(level)]) ELSE Zero
  BY <1>1, <1>5, <1>8, <1>9, <1>11 DEF SelectorInv
<1> QED
  BY <1>11, <1>12 DEF n

\* Between two programs with the same flags, each dimension's selectors are
\* zero but for the one at the client's coordinate, however many ciphertexts
\* the query has and whatever is left for the last of them.
THEOREM SelectorsAtCoordinate == Spec => []SelectorsAreUnit
<1>1. ReplyInv => SelectorsAreUnit
  BY SelectorsAre
<1> QED
  BY <1>1, ReplyAsSent, PTL

-----------------------------------------------------------------------------
\* A query that is served arrives as a whole, and in the server's matrix.
LEMMA ServedArrives ==
  ASSUME ReplyInv, Served, pc \in {"expanding", "multiplying"}
  PROVE  /\ level \in DOMAIN query /\ level \in DOMAIN indices_
         /\ Expands(level)
<1>1. TypeOK /\ ClientInv /\ LengthInv /\ flags \in Flags
  BY DEF ReplyInv, TypeOK
<1>2. /\ Len(nvec) = Len(client_nvec) /\ level \in 1 .. Len(nvec)
      /\ Len(query) = Len(nvec)
  BY <1>1 DEF Served, LengthInv
<1>3. desiredIndex # -1
  BY <1>1 DEF ClientInv
<1>4. DOMAIN indices_ = 1 .. Len(nvec)
  BY <1>1, <1>2, <1>3, Wanted, Matrices
<1>5. DOMAIN query = 1 .. Len(query)
  <2>1. query \in Seq(Ciphertexts)
    BY <1>1 DEF TypeOK
  <2> QED
    BY <2>1, LenProperties
<1> QED
  BY <1>2, <1>4, <1>5 DEF Served

\* Whether a query is served does not change after it was generated.
LEMMA ServedStays ==
  ASSUME UNCHANGED <<flags, desiredIndex, indices_>>
  PROVE  Served' = Served
<1>1. /\ nvec' = nvec /\ client_nvec' = client_nvec
      /\ \A i : arriving(i)' = arriving(i)
  BY FlagsStay
<1>2. \A i : Expands(i)' = Expands(i)
  BY <1>1 DEF Expands
<1> QED
  BY <1>1, <1>2 DEF Served

\* A query whose coordinate meets the end of a ciphertext, or that leaves the
\* logarithm of zero, cannot be expanded.
LEMMA QueryFails ==
  ASSUME ReplyInv, NEW k \in 0 .. flags.client_n - 1, generate_query(k), pc' = "failed"
  PROVE  ~ Served'
<1> DEFINE at == compute_indices(k, client_nvec)
           selected == [i \in DOMAIN at |-> query_ciphertexts(at[i], client_nvec[i], N)]
           outside == \E i \in DOMAIN at : \E j \in DOMAIN selected[i] : N \in selected[i][j]
           bad(i) == (at[i] > 0 /\ at[i] % N = 0) \/ client_nvec[i] % N = 0
<1>1. indices_' = at /\ flags' = flags /\ (outside \/ log_of_zero(at))
  BY DEF generate_query
<1>2. /\ flags.client_d \in {1, 2} /\ flags.client_n \in Nat
      /\ client_nvec \in [1 .. flags.client_d -> Nat \ {0}]
  BY FlagTypes, Matrices DEF ReplyInv, TypeOK
<1>3. at \in [1 .. flags.client_d -> Nat] /\ N \in Nat \ {0}
  <2>1. k \in Nat
    BY <1>2
  <2>2. at \in [1 .. flags.client_d -> Nat]
    BY <1>2, <2>1, Coordinates
  <2> HIDE DEF at
  <2>3. N \in Nat \ {0}
    BY Degree
  <2> QED
    BY <2>2, <2>3
<1> HIDE DEF at
<1>4. \E i \in DOMAIN at : bad(i)
  <2>1. ASSUME NEW i \in DOMAIN at, NEW j \in DOMAIN selected[i], N \in selected[i][j]
        PROVE  at[i] > 0 /\ at[i] % N = 0
    <3> DEFINE a == at[i]
               n == client_nvec[i]
               b == N * (j - 1)
    <3>1. a \in Nat /\ n \in Nat \ {0} /\ selected[i] = query_ciphertexts(a, n, N)
      BY <1>2, <1>3, <2>1
    <3> HIDE DEF a, n, selected
    <3>2. CeilDiv(n, N) \in Nat
      BY <1>3, <3>1, CeilDivIs
    <3>3. /\ j \in 1 .. CeilDiv(n, N)
          /\ N \in IF a > N * j \/ a < b THEN {} ELSE {a - b}
      BY <2>1, <3>1 DEF query_ciphertexts
    <3>4. j \in Nat \ {0}
      BY <3>2, <3>3
    <3>5. N = a - b
      BY <3>3
    <3>6. N * j = b + N /\ b \in Nat
      BY <1>3, <3>4
    <3> DEFINE m == N * j
    <3> HIDE DEF b, m
    <3>7. a = m
      BY <1>3, <3>1, <3>5, <3>6 DEF m
    <3>8. a = j * N + 0 /\ 0 \in 0 .. N - 1
      <4>1. m = j * N /\ m \in Nat
        BY <1>3, <3>4 DEF m
      <4> QED
        BY <1>3, <3>7, <4>1
    <3>9. a % N = 0
      BY <1>3, <3>4, <3>8, DivIs
    <3>10. a > 0
      BY <1>3, <3>1, <3>5, <3>6
    <3> QED
      BY <3>9, <3>10 DEF a
  <2>2. CASE outside
    BY <2>1, <2>2
  <2>3. CASE log_of_zero(at)
    BY <2>3 DEF log_of_zero
  <2> QED
    BY <1>1, <2>2, <2>3
<1>5. PICK i \in DOMAIN at : bad(i)
  BY <1>4
<1>6. client_nvec' = client_nvec
  BY <1>1, FlagsStay
<1>7. ~ Expands(i)'
  <2>1. indices_'[i] = at[i] /\ client_nvec'[i] = client_nvec[i]
    BY <1>1, <1>6
  <2> QED
    BY <1>5, <2>1 DEF Expands
<1>8. i \in DOMAIN indices_'
  BY <1>1
<1> QED
  BY <1>7, <1>8 DEF Served

\* Of a query that is served each row can be expanded.
LEMMA ExpansionFails ==
  ASSUME ReplyInv, expand, pc' = "failed"
  PROVE  ~ Served
<1> SUFFICES ASSUME Served PROVE FALSE
  OBVIOUS
<1> DEFINE z == nvec[level] % N
           count(j) == IF j = Len(query[level]) THEN z ELSE N
<1>1. pc = "expanding"
  BY DEF expand
<1>2. level \in DOMAIN query /\ Expands(level)
  BY <1>1, ServedArrives
<1>3. PICK j \in DOMAIN query[level] : ~ Expandable(count(j))
  BY <1>2, Zenon DEF expand
<1>4. nvec[level] \in Nat
  BY <1>1, <1>2, Arrived DEF ReplyInv
<1>5. N \in Nat /\ N >= 2
  BY Degree
<1>6. z \in 0 .. N - 1 /\ z >= 2
  <2>1. z >= 2
    BY <1>2 DEF Expands
  <2>2. N \in Nat \ {0}
    BY <1>5
  <2>3. z \in 0 .. N - 1
    BY <1>4, <2>2, QuotientIs
  <2> QED
    BY <2>1, <2>3
<1> HIDE DEF z
<1>7. z \in 2 .. N /\ N \in 2 .. N
  BY <1>5, <1>6
<1> QED
  BY <1>3, <1>7 DEF Expandable

\* There are selectors for all places, and the database is as the flag says.
LEMMA MultiplyFails ==
  ASSUME ReplyInv, multiply, pc' = "failed"
  PROVE  wrong_form \/ ~ Served
<1>1. pc = "multiplying"
  BY DEF multiply
<1>2. finish_level(IF Len(expanded_query) >= nvec[level]
                   THEN select(Len(cur) \div nvec[level], nvec[level])
                   ELSE [k \in 1 .. Len(cur) \div nvec[level] |-> Zero]) => pc' # "failed"
  BY DEF finish_level
<1>3. wrong_form \/ ~ (Len(expanded_query) >= nvec[level])
  BY <1>2, Zenon DEF multiply
<1>4. CASE ~ (Len(expanded_query) >= nvec[level])
  <2> SUFFICES ASSUME Served PROVE FALSE
    OBVIOUS
  <2>1. level \in DOMAIN query /\ Expands(level)
    BY <1>1, ServedArrives
  <2>2. Len(expanded_query) = (arriving(level) - 1) * N + (nvec[level] % N)
    BY <1>1, <2>1 DEF ReplyInv, LengthInv
  <2> QED
    BY <1>4, <2>1, <2>2 DEF Expands
<1> QED
  BY <1>3, <1>4

\* In the wrong form is a database that a reply has spoilt.
LEMMA WrongForm ==
  ASSUME ReplyInv, wrong_form
  PROVE  ntt /\ is_db_preprocessed_ = FALSE
<1>1. ntt \in BOOLEAN /\ is_db_preprocessed_ \in BOOLEAN /\ (is_db_preprocessed_ => ntt)
  BY DEF ReplyInv, TypeOK
<1> QED
  BY <1>1 DEF wrong_form

-----------------------------------------------------------------------------
\* A polynomial scaled twice is scaled by the product of the two,
LEMMA ScaledTwice ==
  ASSUME NEW f \in Poly, NEW a \in Nat, NEW b \in Nat
  PROVE  Scaled(Scaled(f, a), b) = Scaled(f, (b * a) % t)
<1>1. t \in Nat \ {0} /\ N \in Nat
  BY Degree
<1>2. ASSUME NEW i \in 0 .. N - 1
      PROVE  (((f[i] * a) % t) * b) % t = (f[i] * ((b * a) % t)) % t
  <2> DEFINE x == f[i]
             p == x * a
             r == p % t
             q == b * a
             s == q % t
  <2>1. x \in Nat
    BY <1>1, ZeroOne
  <2> HIDE DEF x
  <2>2. p \in Nat /\ q \in Nat /\ p * b = q * x
    BY <2>1
  <2> HIDE DEF p, q
  <2>3. r \in Nat /\ r % t = p % t /\ s \in Nat /\ s % t = q % t
    <3>1. r \in 0 .. t - 1 /\ s \in 0 .. t - 1
      BY <1>1, <2>2, QuotientIs
    <3> HIDE DEF r, s
    <3>2. r % t = r /\ s % t = s
      BY <1>1, <3>1, SmallMod
    <3> QED
      BY <1>1, <3>1, <3>2 DEF r, s
  <2> HIDE DEF r, s
  <2>4. (r * b) % t = (p * b) % t
    <3>1. Congruent(t, r, p)
      BY <2>3 DEF Congruent
    <3>2. Congruent(t, r * b, p * b)
      BY <1>1, <2>2, <2>3, <3>1, CongruentTimes
    <3> QED
      BY <3>2 DEF Congruent
  <2>5. (s * x) % t = (q * x) % t
    <3>1. Congruent(t, s, q)
      BY <2>3 DEF Congruent
    <3>2. Congruent(t, s * x, q * x)
      BY <1>1, <2>1, <2>2, <2>3, <3>1, CongruentTimes
    <3> QED
      BY <3>2 DEF Congruent
  <2>6. s * x = x * s
    BY <2>1, <2>3
  <2>7. (r * b) % t = (x * s) % t
    BY <2>2, <2>4, <2>5, <2>6
  <2> QED
    BY <2>7 DEF r, s, p, q, x
<1>3. ASSUME NEW i \in 0 .. N - 1
      PROVE  Scaled(Scaled(f, a), b)[i] = Scaled(f, (b * a) % t)[i]
  <2> DEFINE c == (b * a) % t
  <2>1. Scaled(f, a)[i] = (f[i] * a) % t
    BY DEF Scaled
  <2>2. Scaled(Scaled(f, a), b)[i] = (Scaled(f, a)[i] * b) % t
    BY DEF Scaled
  <2>3. Scaled(f, c)[i] = (f[i] * c) % t
    BY DEF Scaled
  <2> QED
    BY <1>2, <2>1, <2>2, <2>3
<1>4. \A g, c : /\ DOMAIN Scaled(g, c) = 0 .. N - 1
                /\ Scaled(g, c) = [i \in 0 .. N - 1 |-> Scaled(g, c)[i]]
  BY DEF Scaled
<1> DEFINE u == Scaled(Scaled(f, a), b)
           v == Scaled(f, (b * a) % t)
<1>5. u = [i \in 0 .. N - 1 |-> u[i]] /\ v = [i \in 0 .. N - 1 |-> v[i]]
  BY <1>4
<1>6. \A i \in 0 .. N - 1 : u[i] = v[i]
  BY <1>3
<1> HIDE DEF u, v
<1>7. u = v
  BY <1>5, <1>6
<1> QED
  BY <1>7 DEF u, v

\* so that the scale one leaves it alone, and the scale zero leaves nothing.
LEMMA ScaledByOne ==
  ASSUME NEW f \in Poly
  PROVE  Scaled(f, 1) = f /\ Scaled(f, 0) = Zero
<1>1. t \in Nat \ {0} /\ N \in Nat /\ 0 % t = 0
  BY Degree, SmallMod
<1>2. \A i \in 0 .. N - 1 : (f[i] * 1) % t = f[i] /\ (f[i] * 0) % t = 0
  <2>1. ASSUME NEW i \in 0 .. N - 1 PROVE (f[i] * 1) % t = f[i] /\ (f[i] * 0) % t = 0
    <3> DEFINE x == f[i]
    <3>1. x \in 0 .. t - 1
      BY ZeroOne
    <3> HIDE DEF x
    <3>2. x \in Nat /\ x % t = x
      BY <1>1, <3>1, SmallMod
    <3>3. x * 1 = x /\ x * 0 = 0
      BY <3>2
    <3> QED
      BY <1>1, <3>2, <3>3 DEF x
  <2> QED
    BY <2>1
<1>3. f = [i \in 0 .. N - 1 |-> f[i]]
  BY DEF Poly
<1>4. Scaled(f, 1) = [i \in 0 .. N - 1 |-> f[i]]
  BY <1>2 DEF Scaled
<1>5. Scaled(f, 0) = [i \in 0 .. N - 1 |-> 0]
  BY <1>2 DEF Scaled
<1>6. Zero = [i \in 0 .. N - 1 |-> 0]
  BY <1>1 DEF Zero, Const
<1> QED
  BY <1>3, <1>4, <1>5, <1>6

\* Nothing is added by zero.
LEMMA PlusZero ==
  ASSUME NEW f \in Poly
  PROVE  Plus(Zero, f) = f /\ Plus(f, Zero) = f
<1>1. t \in Nat \ {0} /\ N \in Nat /\ 0 % t = 0
  BY Degree, SmallMod
<1>2. \A i \in 0 .. N - 1 : (0 + f[i]) % t = f[i] /\ (f[i] + 0) % t = f[i]
  <2>1. ASSUME NEW i \in 0 .. N - 1
        PROVE  (0 + f[i]) % t = f[i] /\ (f[i] + 0) % t = f[i]
    <3> DEFINE x == f[i]
    <3>1. x \in 0 .. t - 1
      BY ZeroOne
    <3> HIDE DEF x
    <3>2. x \in Nat /\ x % t = x
      BY <1>1, <3>1, SmallMod
    <3>3. 0 + x = x /\ x + 0 = x
      BY <3>2
    <3> QED
      BY <3>2, <3>3 DEF x
  <2> QED
    BY <2>1
<1>3. f = [i \in 0 .. N - 1 |-> f[i]]
  BY DEF Poly
<1>4. \A i \in 0 .. N - 1 : Zero[i] = 0
  BY <1>1 DEF Zero, Const
<1>5. Plus(Zero, f) = [i \in 0 .. N - 1 |-> f[i]]
  BY <1>2, <1>4 DEF Plus
<1>6. Plus(f, Zero) = [i \in 0 .. N - 1 |-> f[i]]
  BY <1>2, <1>4 DEF Plus
<1> QED
  BY <1>3, <1>5, <1>6

\* If nothing but the first number is added, that is the sum.
LEMMA TotalOfFirst ==
  ASSUME NEW n \in Nat \ {0}, NEW h \in [0 .. n - 1 -> Nat], \A i \in 1 .. n - 1 : h[i] = 0
  PROVE  Total(h, n) = h[0]
<1>1. PICK s \in [0 .. n -> Nat] :
        /\ s[0] = 0 /\ \A i \in 0 .. n - 1 : s[i + 1] = s[i] + h[i]
        /\ Total(h, n) = s[n]
  BY TotalIs
<1> DEFINE S == {i \in 0 .. n : i = 0 \/ s[i] = h[0]}
<1>2. 0 \in S
  OBVIOUS
<1>3. ASSUME NEW i \in 0 .. n - 1, i \in S PROVE i + 1 \in S
  <2>1. i + 1 \in 0 .. n /\ s[i + 1] = s[i] + h[i] /\ h[0] \in Nat
    BY <1>1
  <2>2. CASE i = 0
    BY <1>1, <2>1, <2>2
  <2>3. CASE i # 0
    <3>1. i \in 1 .. n - 1 /\ s[i] = h[0]
      BY <1>3, <2>3
    <3>2. h[i] = 0
      BY <3>1
    <3> QED
      BY <2>1, <3>1, <3>2
  <2> QED
    BY <2>2, <2>3
<1> HIDE DEF S
<1>4. \A i \in 0 .. n : i \in S
  BY <1>2, <1>3, UpTo
<1>5. n \in S
  BY <1>4
<1> QED
  BY <1>1, <1>5 DEF S

\* A constant multiplies all coefficients.
LEMMA TimesConst ==
  ASSUME NEW a \in Nat, NEW g \in Poly
  PROVE  Times(Const(a), g) = Scaled(g, a)
<1> DEFINE f == Const(a)
           h(c) == [i \in 0 .. N - 1 |->
                      f[i] * (IF i <= c THEN g[c - i] ELSE t - g[N + c - i])]
<1>1. t \in Nat \ {0} /\ N \in Nat \ {0} /\ 0 \in 0 .. N - 1
  BY Degree
<1>2. f[0] = a % t /\ \A i \in 1 .. N - 1 : f[i] = 0
  BY <1>1 DEF Const
<1> HIDE DEF f
<1>3. a % t \in Nat
  BY <1>1, QuotientIs
<1>4. ASSUME NEW c \in 0 .. N - 1
      PROVE  Total(h(c), N) % t = (g[c] * a) % t
  <2> DEFINE u == h(c)
             x == g[c]
             r == a % t
  <2>1. x \in Nat /\ c \in Nat
    BY <1>1, ZeroOne
  <2>2. u[0] = r * x
    BY <1>1, <1>2, <2>1
  <2>3. ASSUME NEW i \in 1 .. N - 1 PROVE u[i] = 0
    <3> DEFINE y == IF i <= c THEN g[c - i] ELSE t - g[N + c - i]
    <3>1. y \in Int
      <4>1. CASE i <= c
        <5>1. c - i \in 0 .. N - 1
          BY <4>1, <1>1
        <5> QED
          BY <4>1, <5>1, <1>1, ZeroOne
      <4>2. CASE ~ (i <= c)
        <5>1. N + c - i \in 0 .. N - 1
          BY <4>2, <1>1
        <5>2. g[N + c - i] \in 0 .. t - 1
          BY <5>1, ZeroOne
        <5> QED
          BY <4>2, <5>2, <1>1
      <4> QED
        BY <4>1, <4>2
    <3>2. i \in 0 .. N - 1
      BY <1>1
    <3>3. u[i] = f[i] * y
      BY <3>2
    <3> HIDE DEF y
    <3> QED
      BY <1>2, <3>1, <3>3
  <2>4. u \in [0 .. N - 1 -> Nat]
    <3>1. u = [i \in 0 .. N - 1 |-> u[i]]
      OBVIOUS
    <3> HIDE DEF u
    <3>2. r * x \in Nat
      BY <1>3, <2>1
    <3>3. \A i \in 0 .. N - 1 : i = 0 \/ i \in 1 .. N - 1
      BY <1>1
    <3>4. \A i \in 0 .. N - 1 : u[i] \in Nat
      BY <2>2, <2>3, <3>2, <3>3
    <3> QED
      BY <3>1, <3>4
  <2> HIDE DEF u
  <2>5. Total(u, N) = u[0]
    BY <1>1, <2>3, <2>4, TotalOfFirst
  <2>6. (r * x) % t = (a * x) % t
    <3>1. r % t = a % t
      BY TermIs
    <3> HIDE DEF r, x
    <3>2. Congruent(t, r, a) /\ r \in Nat
      BY <1>3, <3>1 DEF Congruent, r
    <3>3. Congruent(t, r * x, a * x)
      BY <1>1, <2>1, <3>2, CongruentTimes
    <3> QED
      BY <3>3 DEF Congruent
  <2> HIDE DEF x
  <2>7. a * x = x * a
    BY <2>1
  <2>8. Total(u, N) % t = (x * a) % t
    BY <2>2, <2>5, <2>6, <2>7
  <2> QED
    BY <2>8 DEF u, x
<1>5. Times(f, g) = [c \in 0 .. N - 1 |-> Total(h(c), N) % t]
  BY DEF Times
<1> HIDE DEF h
<1>6. Times(f, g) = [c \in 0 .. N - 1 |-> (g[c] * a) % t]
  BY <1>4, <1>5
<1> QED
  BY <1>6 DEF Scaled, f

-----------------------------------------------------------------------------
\* The selectors are zero but for the one at coordinate a, which is c.
OnlyAt(a, c) ==
  \A p \in DOMAIN expanded_query :
    expanded_query[p] = IF p - 1 = a THEN Const(c) ELSE Zero

\* Then what they select is what is at this coordinate, times c.
LEMMA OneSelected ==
  ASSUME NEW product \in Nat, NEW n \in Nat \ {0},
         expanded_query \in Seq(Poly), n <= Len(expanded_query),
         cur \in Seq(Poly), n * product <= Len(cur),
         NEW a \in 0 .. n - 1, NEW c \in Nat, OnlyAt(a, c)
  PROVE  /\ \A k \in 1 .. product : place(k - 1, a, product, n) + 1 \in 1 .. Len(cur)
         /\ select(product, n) =
              [k \in 1 .. product |-> Scaled(cur[place(k - 1, a, product, n) + 1], c)]
<1> DEFINE at(k, j) == cur[place(k - 1, j - 1, product, n) + 1]
<1>1. /\ select(product, n) \in [1 .. product -> Poly]
      /\ \A k \in 1 .. product, j \in 1 .. n :
           place(k - 1, j - 1, product, n) + 1 \in 1 .. Len(cur)
      /\ \A k \in 1 .. product : \E s \in [0 .. n -> Poly] :
           /\ s[0] = Zero
           /\ \A j \in 1 .. n : s[j] = Plus(s[j - 1], Times(expanded_query[j], at(k, j)))
           /\ select(product, n)[k] = s[n]
  BY Selecting
<1>2. a + 1 \in 1 .. n /\ (a + 1) - 1 = a
  OBVIOUS
<1>3. \A j \in 1 .. n : expanded_query[j] = IF j = a + 1 THEN Const(c) ELSE Const(0)
  <2>1. \A j \in 1 .. n : j \in DOMAIN expanded_query /\ (j - 1 = a <=> j = a + 1)
    OBVIOUS
  <2> QED
    BY <2>1 DEF OnlyAt, Zero
<1>4. \A k \in 1 .. product, j \in 1 .. n : at(k, j) \in Poly
  <2>1. ASSUME NEW k \in 1 .. product, NEW j \in 1 .. n PROVE at(k, j) \in Poly
    <3> DEFINE x == place(k - 1, j - 1, product, n) + 1
    <3>1. x \in 1 .. Len(cur)
      BY <1>1
    <3> HIDE DEF x
    <3>2. cur[x] \in Poly
      BY <3>1, ElementOfSeq
    <3> QED
      BY <3>2 DEF x
  <2> QED
    BY <2>1
<1> HIDE DEF at
<1>5. \A k \in 1 .. product, j \in 1 .. n :
        Times(expanded_query[j], at(k, j)) =
          IF j = a + 1 THEN Scaled(at(k, a + 1), c) ELSE Zero
  <2>1. ASSUME NEW k \in 1 .. product, NEW j \in 1 .. n
        PROVE  Times(expanded_query[j], at(k, j)) =
                 IF j = a + 1 THEN Scaled(at(k, a + 1), c) ELSE Zero
    <3>1. at(k, j) \in Poly /\ 0 \in Nat
      BY <1>4
    <3>2. Times(Const(c), at(k, j)) = Scaled(at(k, j), c)
      BY <3>1, TimesConst
    <3>3. Times(Const(0), at(k, j)) = Zero
      BY <3>1, TimesConst, ScaledByOne
    <3> QED
      BY <1>3, <3>2, <3>3
  <2> QED
    BY <2>1
<1>6. ASSUME NEW k \in 1 .. product
      PROVE  select(product, n)[k] = Scaled(at(k, a + 1), c)
  <2> DEFINE f == Scaled(at(k, a + 1), c)
  <2>1. PICK s \in [0 .. n -> Poly] :
          /\ s[0] = Zero
          /\ \A j \in 1 .. n : s[j] = Plus(s[j - 1], Times(expanded_query[j], at(k, j)))
          /\ select(product, n)[k] = s[n]
    BY <1>1
  <2>2. f \in Poly /\ Zero \in Poly
    BY <1>2, <1>4, ScaledType, ZeroOne
  <2> HIDE DEF f
  <2>3. \A j \in 1 .. n : s[j] = Plus(s[j - 1], IF j = a + 1 THEN f ELSE Zero)
    BY <1>5, <2>1 DEF f
  <2> DEFINE S == {i \in 0 .. n : s[i] = IF i <= a THEN Zero ELSE f}
  <2>4. 0 \in S
    BY <2>1
  <2>5. ASSUME NEW i \in 0 .. n - 1, i \in S PROVE i + 1 \in S
    <3>1. i + 1 \in 1 .. n /\ (i + 1) - 1 = i /\ i + 1 \in 0 .. n
      OBVIOUS
    <3>2. s[i + 1] = Plus(s[i], IF i = a THEN f ELSE Zero)
      <4>1. i + 1 = a + 1 <=> i = a
        OBVIOUS
      <4> QED
        BY <2>3, <3>1, <4>1
    <3>3. CASE i < a
      <4>1. i + 1 <= a /\ i # a /\ s[i] = Zero
        BY <2>5, <3>3
      <4> QED
        BY <2>2, <3>1, <3>2, <4>1, PlusZero
    <3>4. CASE i = a
      <4>1. ~ (i + 1 <= a) /\ s[i] = Zero
        BY <2>5, <3>4
      <4> QED
        BY <2>2, <3>1, <3>2, <3>4, <4>1, PlusZero
    <3>5. CASE i > a
      <4>1. ~ (i + 1 <= a) /\ i # a /\ s[i] = f
        BY <2>5, <3>5
      <4> QED
        BY <2>2, <3>1, <3>2, <4>1, PlusZero
    <3> QED
      BY <3>3, <3>4, <3>5
  <2> HIDE DEF S
  <2>6. \A i \in 0 .. n : i \in S
    BY <2>4, <2>5, UpTo
  <2>7. n \in S /\ ~ (n <= a)
    BY <2>6
  <2> QED
    BY <2>1, <2>7 DEF S, f
<1>7. \A k \in 1 .. product :
        /\ at(k, a + 1) = cur[place(k - 1, a, product, n) + 1]
        /\ place(k - 1, a, product, n) + 1 \in 1 .. Len(cur)
  BY <1>1, <1>2 DEF at
<1> DEFINE r == select(product, n)
<1>8. r = [k \in 1 .. product |-> r[k]]
  BY <1>1
<1> HIDE DEF r
<1>9. r = [k \in 1 .. product |-> Scaled(cur[place(k - 1, a, product, n) + 1], c)]
  BY <1>6, <1>7, <1>8 DEF r
<1> QED
  BY <1>7, <1>9 DEF r

-----------------------------------------------------------------------------
\* One digit more of a number.
LEMMA NextDigit ==
  ASSUME NEW w \in Nat, NEW p \in Nat \ {0}, NEW b \in Nat \ {0}
  PROVE  w % (p * b) = (w % p) + ((w \div p) % b) * p
<1> DEFINE q == w \div p
           r == w % p
           y == q \div b
           d == q % b
<1>1. q \in Nat /\ r \in 0 .. p - 1 /\ w = q * p + r
  BY QuotientIs
<1> HIDE DEF q, r
<1>2. y \in Nat /\ d \in 0 .. b - 1 /\ q = y * b + d
  BY <1>1, QuotientIs
<1> HIDE DEF y, d
<1> DEFINE s == p * b
           u == r + d * p
<1>3. s \in Nat \ {0} /\ u \in 0 .. s - 1
  <2> DEFINE v == d * p
  <2>1. v \in Nat /\ (d + 1) * p = v + p /\ s \in Nat
    BY <1>2
  <2>2. (d + 1) * p <= b * p
    <3>1. d + 1 \in Nat /\ d + 1 <= b /\ b \in Nat /\ p \in Nat
      BY <1>2
    <3> QED
      BY ONLY <3>1, TimesMonotone
  <2>3. b * p = s
    OBVIOUS
  <2> HIDE DEF v, s
  <2>4. v + p <= s
    BY <2>1, <2>2, <2>3
  <2>5. s # 0
    BY <2>1, <2>4
  <2>6. r + v \in 0 .. s - 1
    BY <1>1, <2>1, <2>4
  <2> QED
    BY <2>1, <2>5, <2>6 DEF v
<1>4. w = y * s + u
  <2>1. q * p = y * s + d * p
    <3>1. (y * b + d) * p = (y * b) * p + d * p /\ (y * b) * p = y * s
      BY <1>2
    <3> QED
      BY <1>2, <3>1
  <2> DEFINE x == y * s
             v == d * p
             z == q * p
  <2>2. x \in Nat /\ v \in Nat /\ z \in Nat
    BY <1>1, <1>2, <1>3
  <2> HIDE DEF x, v, z
  <2>3. w = z + r /\ z = x + v
    BY <1>1, <2>1 DEF x, v, z
  <2>4. w = x + (r + v)
    BY <1>1, <2>2, <2>3
  <2> QED
    BY <2>4 DEF x, v
<1> HIDE DEF s, u
<1>5. w % s = u
  BY <1>2, <1>3, <1>4, DivIs
<1> QED
  BY <1>5 DEF s, u, d, q, r

\* What the client composes of the digits of a number is the number.
LEMMA DigitsMakeNumber ==
  ASSUME NEW w \in 0 .. Pow2[logq] - 1, NEW h,
         h = [k \in 0 .. digits - 1 |->
                ((w \div Pow2[logt * k]) % Pow2[logt]) * Pow2[logt * k]]
  PROVE  Total(h, digits) = w
<1> DEFINE P(k) == Pow2[logt * k]
           B == Pow2[logt]
<1>1. digits \in Nat \ {0} /\ logt \in Nat \ {0} /\ logq \in Nat \ {0}
  BY Digits, Degree, PirReplyAssumption
<1>2. B \in Nat \ {0} /\ \A k \in Nat : P(k) \in Nat \ {0} /\ P(k + 1) = P(k) * B
  <2>1. ASSUME NEW k \in Nat PROVE P(k) \in Nat \ {0} /\ P(k + 1) = P(k) * B
    <3>1. logt * k \in Nat /\ logt * (k + 1) = logt * k + logt
      BY <1>1
    <3> QED
      BY <1>1, <3>1, Pow2Type, Pow2Sum
  <2> QED
    BY <1>1, <2>1, Pow2Type
<1>3. w \in Nat
  <2>1. Pow2[logq] \in Nat
    BY <1>1, Pow2Type
  <2> QED
    BY <2>1
<1>4. P(0) = 1
  <2>1. logt * 0 = 0
    BY <1>1
  <2> QED
    BY <2>1, Pow2Is
<1>5. w < P(digits)
  <2> DEFINE n == logt * digits
             v == Pow2[logq]
             z == Pow2[n]
  <2>1. logq <= n /\ n \in Nat
    <3>1. logq <= digits * logt
      BY <1>1, CeilDivIs DEF digits
    <3>2. digits * logt = logt * digits /\ logt * digits \in Nat
      BY <1>1
    <3> QED
      BY <3>1, <3>2
  <2> HIDE DEF n
  <2>2. v <= z
    <3>1. logq < n \/ logq = n
      BY <1>1, <2>1
    <3>2. logq < n => v < z
      BY <1>1, <2>1, Pow2Grows
    <3>3. v \in Nat /\ z \in Nat
      BY <1>1, <2>1, Pow2Type
    <3> HIDE DEF v
    <3>4. logq = n => v = z
      BY DEF v
    <3> HIDE DEF z
    <3> QED
      BY <3>1, <3>2, <3>3, <3>4
  <2>3. v \in Nat /\ z \in Nat
    BY <1>1, <2>1, Pow2Type
  <2>4. w \in 0 .. v - 1
    OBVIOUS
  <2> HIDE DEF v, z
  <2>5. w < z
    BY <1>3, <2>2, <2>3, <2>4
  <2> QED
    BY <2>5 DEF z, n
<1> HIDE DEF P, B
<1>6. h = [k \in 0 .. digits - 1 |-> ((w \div P(k)) % B) * P(k)]
  BY DEF P, B
<1>7. \A k \in 0 .. digits - 1 : h[k] = ((w \div P(k)) % B) * P(k) /\ h[k] \in Nat
  <2>1. ASSUME NEW k \in 0 .. digits - 1 PROVE ((w \div P(k)) % B) * P(k) \in Nat
    <3> DEFINE q == w \div P(k)
               d == q % B
    <3>1. P(k) \in Nat \ {0}
      <4>1. k \in Nat
        OBVIOUS
      <4> QED
        BY <1>2, <4>1
    <3>2. q \in Nat
      BY <1>3, <3>1, QuotientIs
    <3> HIDE DEF q
    <3>3. d \in 0 .. B - 1
      BY <1>2, <3>2, QuotientIs
    <3> HIDE DEF d
    <3>4. d * P(k) \in Nat
      <4>1. d \in Nat
        BY <1>2, <3>3
      <4> QED
        BY <3>1, <4>1
    <3> QED
      BY <3>4 DEF d, q
  <2> QED
    BY <1>6, <2>1
<1>8. h \in [0 .. digits - 1 -> Nat]
  BY <1>6, <1>7
<1>9. PICK s \in [0 .. digits -> Nat] :
        /\ s[0] = 0 /\ \A i \in 0 .. digits - 1 : s[i + 1] = s[i] + h[i]
        /\ Total(h, digits) = s[digits]
  BY <1>1, <1>8, TotalIs
<1> DEFINE S == {i \in 0 .. digits : s[i] = w % P(i)}
<1>10. 0 \in S
  <2>1. w % 1 = 0
    BY <1>3
  <2> QED
    BY <1>1, <1>4, <1>9, <2>1
<1>11. ASSUME NEW i \in 0 .. digits - 1, i \in S PROVE i + 1 \in S
  <2>1. i \in Nat /\ i + 1 \in 0 .. digits
    BY <1>1
  <2>2. P(i) \in Nat \ {0} /\ P(i + 1) = P(i) * B
    BY <1>2, <2>1
  <2>3. w % (P(i) * B) = (w % P(i)) + ((w \div P(i)) % B) * P(i)
    BY <1>2, <1>3, <2>2, NextDigit
  <2>4. s[i + 1] = (w % P(i)) + ((w \div P(i)) % B) * P(i)
    BY <1>7, <1>9, <1>11
  <2> QED
    BY <2>1, <2>2, <2>3, <2>4
<1> HIDE DEF S
<1>12. \A i \in 0 .. digits : i \in S
  BY <1>1, <1>10, <1>11, UpTo
<1>13. s[digits] = w % P(digits)
  BY <1>1, <1>12 DEF S
<1>14. w % P(digits) = w
  <2> DEFINE z == P(digits)
  <2>1. z \in Nat \ {0} /\ w < z
    BY <1>1, <1>2, <1>5
  <2> HIDE DEF z
  <2>2. w \in 0 .. z - 1
    BY <1>3, <2>1
  <2>3. w % z = w
    BY <2>1, <2>2, SmallMod
  <2> QED
    BY <2>3 DEF z
<1> QED
  BY <1>9, <1>13, <1>14

\* compose_to_ciphertext undoes decompose_to_plaintexts_ptr.
LEMMA Recomposed ==
  ASSUME NEW words \in [1 .. 2 -> [0 .. N - 1 -> 0 .. Pow2[logq] - 1]]
  PROVE  compose_to_ciphertext(decompose_to_plaintexts_ptr(words)) = words
<1> DEFINE plains == decompose_to_plaintexts_ptr(words)
           h(i, m) == [k \in 0 .. digits - 1 |->
                         plains[(i - 1) * digits + k + 1][m] * Pow2[logt * k]]
<1>1. digits \in Nat \ {0} /\ expansion_ratio = 2 * digits
  BY Digits
<1>2. ASSUME NEW e \in 1 .. expansion_ratio, NEW m \in 0 .. N - 1
      PROVE  plains[e][m] =
               (words[(e - 1) \div digits + 1][m] \div Pow2[logt * ((e - 1) % digits)])
                 % Pow2[logt]
  BY DEF decompose_to_plaintexts_ptr
<1> HIDE DEF plains
<1>3. ASSUME NEW i \in 1 .. 2, NEW m \in 0 .. N - 1
      PROVE  Total(h(i, m), digits) = words[i][m]
  <2> DEFINE w == words[i][m]
             g == [k \in 0 .. digits - 1 |->
                     ((w \div Pow2[logt * k]) % Pow2[logt]) * Pow2[logt * k]]
  <2>1. w \in 0 .. Pow2[logq] - 1
    OBVIOUS
  <2>2. ASSUME NEW k \in 0 .. digits - 1
        PROVE  plains[(i - 1) * digits + k + 1][m] = (w \div Pow2[logt * k]) % Pow2[logt]
    <3> DEFINE e == (i - 1) * digits + k + 1
               x == e - 1
    <3>1. e \in 1 .. expansion_ratio /\ x = (i - 1) * digits + k /\ i - 1 \in Nat
      <4>1. i = 1 \/ i = 2
        OBVIOUS
      <4>2. CASE i = 1
        BY <1>1, <4>2
      <4>3. CASE i = 2
        BY <1>1, <4>3
      <4> QED
        BY <4>1, <4>2, <4>3
    <3>2. plains[e][m] = (words[(e - 1) \div digits + 1][m] \div Pow2[logt * ((e - 1) % digits)])
                           % Pow2[logt]
      BY <1>2, <3>1
    <3> HIDE DEF x
    <3>3. x \div digits = i - 1 /\ x % digits = k
      <4> DEFINE j == i - 1
      <4>1. /\ digits \in Nat \ {0} /\ j \in Nat /\ k \in 0 .. digits - 1
            /\ x = j * digits + k
        BY <1>1, <3>1
      <4> HIDE DEF j
      <4>2. x \div digits = j /\ x % digits = k
        BY ONLY <4>1, DivIs
      <4> QED
        BY <4>2 DEF j
    <3>4. (e - 1) \div digits = i - 1 /\ (e - 1) % digits = k /\ (i - 1) + 1 = i
      BY <3>3 DEF x
    <3> HIDE DEF e
    <3>5. plains[e][m] = (words[i][m] \div Pow2[logt * k]) % Pow2[logt]
      BY <3>2, <3>4
    <3> QED
      BY <3>5 DEF e
  <2>3. h(i, m) = g
    BY <2>2
  <2> HIDE DEF w, h
  <2>4. Total(g, digits) = w
    BY <2>1, DigitsMakeNumber
  <2> QED
    BY <2>3, <2>4 DEF w
<1>4. compose_to_ciphertext(plains) = [i \in 1 .. 2 |-> [m \in 0 .. N - 1 |-> Total(h(i, m), digits)]]
  BY DEF compose_to_ciphertext
<1> HIDE DEF h
<1>5. \A i \in 1 .. 2 : [m \in 0 .. N - 1 |-> Total(h(i, m), digits)] = words[i]
  <2>1. ASSUME NEW i \in 1 .. 2
        PROVE  [m \in 0 .. N - 1 |-> Total(h(i, m), digits)] = words[i]
    <3>1. words[i] = [m \in 0 .. N - 1 |-> words[i][m]]
      OBVIOUS
    <3>2. [m \in 0 .. N - 1 |-> Total(h(i, m), digits)] = [m \in 0 .. N - 1 |-> words[i][m]]
      BY <1>3
    <3> QED
      BY <3>1, <3>2
  <2> QED
    BY <2>1
<1>6. words = [i \in 1 .. 2 |-> words[i]]
  OBVIOUS
<1>7. compose_to_ciphertext(plains) = [i \in 1 .. 2 |-> words[i]]
  BY <1>4, <1>5
<1> QED
  BY <1>6, <1>7 DEF plains

-----------------------------------------------------------------------------
\* A query that is served: its coordinates, in the server's matrix, are those
\* of the index that the client wants, and each has a scale on either side.
LEMMA ServedIs ==
  ASSUME TypeOK, ClientInv, desiredIndex # -1, Served, pc # "failed"
  PROVE  /\ Len(nvec) \in {1, 2} /\ Len(client_nvec) = Len(nvec)
         /\ Len(nvec) = 2 => flags.via # "tcp"
         /\ desiredIndex \in 0 .. Product(nvec) - 1 /\ DOMAIN indices_ = 1 .. Len(nvec)
         /\ \A i \in 1 .. Len(nvec) :
              /\ nvec[i] \in Nat \ {0} /\ indices_[i] \in 0 .. nvec[i] - 1
              /\ Pow2[server_logm(i)] \in Nat /\ inverse_scales_[i] \in Nat
         /\ Len(nvec) = 1 => desiredIndex = indices_[1]
         /\ Len(nvec) = 2 => desiredIndex = indices_[2] + indices_[1] * nvec[2]
<1>1. /\ flags \in Flags /\ flags.d \in {1, 2} /\ Len(nvec) = flags.d
      /\ nvec \in [1 .. flags.d -> Nat \ {0}]
      /\ Len(client_nvec) = flags.client_d /\ Len(nvec) = Len(client_nvec)
      /\ flags.client_n \in Nat
  BY FlagTypes, Matrices DEF TypeOK, Served
<1>2. /\ desiredIndex \in 0 .. flags.client_n - 1 /\ indices_ \in [1 .. flags.d -> Nat]
      /\ indices_ = compute_indices(desiredIndex, nvec)
  BY <1>1, Wanted DEF Served
<1>3. desiredIndex \in Nat /\ DOMAIN indices_ = 1 .. Len(nvec)
  BY <1>1, <1>2
<1>4. ASSUME NEW i \in 1 .. Len(nvec)
      PROVE  /\ nvec[i] \in Nat \ {0} /\ indices_[i] \in 0 .. nvec[i] - 1
             /\ Pow2[server_logm(i)] \in Nat /\ inverse_scales_[i] \in Nat
  <2>1. nvec[i] \in Nat \ {0} /\ indices_[i] \in Nat /\ Expands(i)
    BY <1>1, <1>2, <1>3 DEF Served
  <2>2. indices_[i] \in 0 .. nvec[i] - 1
    BY <2>1 DEF Expands
  <2>3. CeilLog2(nvec[i] % N) \in 0 .. logN /\ logN \in Nat
    <3>1. nvec[i] % N # 0
      <4> DEFINE m == nvec[i] % N
      <4>1. m >= 2
        BY <2>1 DEF Expands
      <4> HIDE DEF m
      <4>2. m # 0
        BY <4>1
      <4> QED
        BY <4>2 DEF m
    <3> QED
      BY <2>1, <3>1, LastSize, Degree
  <2>4. server_logm(i) \in Nat
    BY <2>3 DEF server_logm
  <2>5. inverse_scales_[i] \in 1 .. t - 1
    <3>1. desiredIndex >= 0
      BY <1>3
    <3>2. DOMAIN inverse_scales_ = DOMAIN indices_
      BY <3>1 DEF ClientInv
    <3> QED
      BY <1>3, <3>2 DEF TypeOK
  <2>6. inverse_scales_[i] \in Nat
    BY <2>5, Degree
  <2> QED
    BY <2>1, <2>2, <2>4, <2>6, Pow2Type
<1>5. ASSUME Len(nvec) = 1 PROVE desiredIndex = indices_[1]
  BY <1>2, <1>3, <1>5, OneCoordinate
<1>6. ASSUME Len(nvec) = 2 PROVE desiredIndex = indices_[2] + indices_[1] * nvec[2]
  <2> DEFINE b == nvec[2]
             k == desiredIndex
  <2>1. b \in Nat \ {0} /\ k \in Nat
    BY <1>3, <1>4, <1>6
  <2>2. indices_[1] = k \div b /\ indices_[2] = k % b
    BY <1>2, <1>6, <2>1, TwoCoordinates, ZenonT(30)
  <2> HIDE DEF b, k
  <2>3. k = (k \div b) * b + (k % b) /\ k \div b \in Nat /\ k % b \in Nat
    <3>1. k \div b \in Nat /\ k % b \in 0 .. b - 1 /\ k = (k \div b) * b + (k % b)
      BY <2>1, QuotientIs
    <3> QED
      BY <2>1, <3>1
  <2> DEFINE q == k \div b
             r == k % b
             x == q * b
  <2>4. x \in Nat
    BY <2>1, <2>3
  <2> HIDE DEF q, r, x
  <2>5. k = r + x
    BY <2>3, <2>4 DEF q, r, x
  <2> QED
    BY <2>2, <2>5 DEF k, b, q, r, x
<1>7. desiredIndex \in 0 .. Product(nvec) - 1
  <2> DEFINE k == desiredIndex
             b == nvec[1]
             c == nvec[2]
             q == indices_[1]
             r == indices_[2]
  <2>1. CASE Len(nvec) = 1
    <3>1. 1 \in 1 .. Len(nvec) /\ nvec \in [1 .. 1 -> Nat \ {0}]
      BY <1>1, <2>1
    <3>2. Product(nvec) = nvec[1]
      BY <3>1, ProductOfOne
    <3>3. indices_[1] \in 0 .. nvec[1] - 1
      BY <1>4, <3>1
    <3> QED
      BY <1>5, <2>1, <3>2, <3>3
  <2>2. CASE Len(nvec) = 2
    <3>1. 1 \in 1 .. Len(nvec) /\ 2 \in 1 .. Len(nvec) /\ nvec \in [1 .. 2 -> Nat \ {0}]
      BY <1>1, <2>2
    <3>2. Product(nvec) = b * c
      BY <3>1, ProductOfTwo
    <3>3. b \in Nat \ {0} /\ c \in Nat \ {0} /\ q \in 0 .. b - 1 /\ r \in 0 .. c - 1
      BY <1>4, <3>1
    <3>4. k = r + q * c
      BY <1>6, <2>2
    <3> HIDE DEF k, b, c, q, r
    <3>5. (q + 1) * c <= b * c
      <4>1. q + 1 \in Nat /\ q + 1 <= b /\ b \in Nat /\ c \in Nat
        BY <3>3
      <4> QED
        BY ONLY <4>1, TimesMonotone
    <3> DEFINE x == q * c
               y == b * c
    <3>6. x \in Nat /\ y \in Nat /\ (q + 1) * c = x + c
      BY <3>3
    <3>7. x + c <= y /\ k = r + x
      BY <3>4, <3>5, <3>6
    <3> HIDE DEF x, y
    <3>8. k \in 0 .. y - 1
      BY <3>3, <3>6, <3>7
    <3> QED
      BY <3>2, <3>8 DEF y, k
  <2> QED
    BY <1>1, <2>1, <2>2
<1> QED
  BY <1>1, <1>3, <1>4, <1>5, <1>6, <1>7 DEF Served

\* What multiply selects of a query that is served.
LEMMA SelectedIs ==
  ASSUME ReplyInv, Served, pc = "multiplying"
  PROVE  LET n_i == nvec[level]
             product == Len(cur) \div n_i
             logm == server_logm(level)
         IN  /\ Len(expanded_query) >= n_i
             /\ \A k \in 1 .. product :
                  place(k - 1, indices_[level], product, n_i) + 1 \in 1 .. Len(cur)
             /\ select(product, n_i) =
                  [k \in 1 .. product |->
                     Scaled(cur[place(k - 1, indices_[level], product, n_i) + 1], Pow2[logm])]
<1> DEFINE n_i == nvec[level]
           product == Len(cur) \div n_i
           a == indices_[level]
           c == Pow2[server_logm(level)]
<1>1. /\ TypeOK /\ ClientInv /\ LengthInv /\ SelectorInv /\ flags \in Flags
      /\ cur \in Seq(Poly) /\ expanded_query \in Seq(Poly)
  BY DEF ReplyInv, TypeOK, Ciphertexts
<1>2. level \in DOMAIN query /\ level \in DOMAIN indices_ /\ Expands(level)
  BY ServedArrives
<1>3. /\ level \in 1 .. Len(nvec)
      /\ Len(cur) = IF level = 1 THEN Product(nvec) ELSE nvec[2] * expansion_ratio
      /\ Len(expanded_query) = (arriving(level) - 1) * N + (nvec[level] % N)
  BY <1>1, <1>2 DEF LengthInv
<1>4. n_i \in Nat \ {0} /\ product \in Nat /\ n_i * product = Len(cur)
  BY <1>1, <1>3, LevelSizes
<1>5. a \in 0 .. n_i - 1 /\ c \in Nat
  <2>1. desiredIndex # -1
    BY <1>1 DEF ClientInv
  <2> QED
    BY <1>1, <1>3, <2>1, ServedIs
<1>6. Len(expanded_query) >= n_i /\ n_i <= Len(expanded_query)
  <2>1. Len(expanded_query) >= n_i
    BY <1>2, <1>3 DEF Expands
  <2>2. Len(expanded_query) \in Nat
    BY <1>1
  <2> QED
    BY <1>4, <2>1, <2>2
<1>7. OnlyAt(a, c)
  <2>1. a < Len(expanded_query)
    <3>1. Len(expanded_query) \in Nat
      BY <1>1
    <3> HIDE DEF a, n_i
    <3> QED
      BY <1>4, <1>5, <1>6, <3>1
  <2> QED
    BY <1>1, <1>2, <2>1 DEF SelectorInv, OnlyAt
<1> HIDE DEF n_i, a, c, product
<1>8. n_i * product <= Len(cur)
  <2>1. Len(cur) \in Nat
    BY <1>1
  <2> QED
    BY <1>4, <2>1
<1>9. /\ \A k \in 1 .. product : place(k - 1, a, product, n_i) + 1 \in 1 .. Len(cur)
      /\ select(product, n_i) =
           [k \in 1 .. product |-> Scaled(cur[place(k - 1, a, product, n_i) + 1], c)]
  BY <1>1, <1>4, <1>5, <1>6, <1>7, <1>8, OneSelected
<1> QED
  BY <1>6, <1>9 DEF n_i, a, c, product

-----------------------------------------------------------------------------
\* What the values of a query in progress depend on stays.
LEMMA ValuesStay ==
  ASSUME UNCHANGED <<flags, desiredIndex, indices_, inverse_scales_>>
  PROVE  /\ nvec' = nvec /\ client_nvec' = client_nvec /\ db_' = db_ /\ Served' = Served
         /\ \A i : server_logm(i)' = server_logm(i) /\ left_over(i)' = left_over(i)
         /\ InnerUndone' = InnerUndone
<1>1. nvec' = nvec /\ client_nvec' = client_nvec /\ \A i : arriving(i)' = arriving(i)
  BY FlagsStay
<1>2. Served' = Served
  BY ServedStays
<1>3. \A i : server_logm(i)' = server_logm(i)
  BY <1>1 DEF server_logm
<1>4. db_' = db_
  BY <1>1 DEF db_
<1>5. \A i : left_over(i)' = left_over(i)
  BY <1>3 DEF left_over
<1>6. InnerUndone' = InnerUndone
  BY <1>5 DEF InnerUndone
<1> QED
  BY <1>1, <1>2, <1>3, <1>4, <1>5, <1>6

\* A sequence of one is its element.
LEMMA OneOf ==
  ASSUME NEW S, NEW s \in Seq(S), Len(s) = 1
  PROVE  s = <<s[1]>> /\ SubSeq(s, 1, 1) = s /\ s[1] \in S
<1>1. 1 \in 1 .. Len(s)
  OBVIOUS
<1>2. s[1] \in S
  BY <1>1, ElementOfSeq
<1>3. SubSeq(s, 1, Len(s)) = s
  BY SubSeqFull
<1> DEFINE u == <<s[1]>>
<1>4. u \in Seq(S) /\ Len(u) = 1 /\ u[1] = s[1]
  BY <1>2
<1> HIDE DEF u
<1>5. \A i \in 1 .. Len(s) : s[i] = u[i]
  BY <1>4
<1>6. s = u
  BY <1>4, <1>5, SeqEqual
<1> QED
  BY <1>2, <1>3, <1>6 DEF u

\* One dimension: what is selected is the reply.
LEMMA OneDimension ==
  ASSUME ReplyInv, ValueInv, Served, pc = "multiplying", Len(nvec) = 1,
         NEW selected,
         selected = select(Len(cur) \div nvec[level], nvec[level]),
         finish_level(selected)
  PROVE  /\ reply' = <<Scaled(Plain(desiredIndex), Pow2[server_logm(1)])>>
         /\ layer' = 1 /\ pc' = "decoding"
<1>1. TypeOK /\ ClientInv /\ LengthInv /\ flags \in Flags /\ desiredIndex # -1
  BY DEF ReplyInv, TypeOK, ClientInv
<1>2. /\ level = 1 /\ cur = db_
      /\ Len(cur) = IF level = 1 THEN Product(nvec) ELSE nvec[2] * expansion_ratio
      /\ level \in 1 .. Len(nvec)
  <2>1. /\ level \in 1 .. Len(nvec)
        /\ Len(cur) = IF level = 1 THEN Product(nvec) ELSE nvec[2] * expansion_ratio
    BY <1>1 DEF LengthInv
  <2>2. level = 1
    BY <2>1
  <2> QED
    BY <2>1, <2>2 DEF ValueInv
<1>3. Len(cur) \div nvec[level] = 1
  BY <1>1, <1>2, LevelSizes
<1> DEFINE a == indices_[1]
           c == Pow2[server_logm(1)]
<1>4. /\ nvec[1] \in Nat \ {0} /\ a \in 0 .. nvec[1] - 1 /\ c \in Nat
      /\ desiredIndex = a
  BY <1>1, <1>2, ServedIs
<1>5. /\ place(1 - 1, a, 1, nvec[1]) + 1 \in 1 .. Len(cur)
      /\ selected = [k \in 1 .. 1 |-> Scaled(cur[place(k - 1, a, 1, nvec[1]) + 1], c)]
  <2>1. 1 \in 1 .. 1
    OBVIOUS
  <2> QED
    BY <1>2, <1>3, <2>1, SelectedIs
<1>6. place(1 - 1, a, 1, nvec[1]) = a
  BY <1>4 DEF place
<1>7. cur[a + 1] = Plain(a)
  <2>1. DOMAIN cur = 1 .. Len(cur)
    BY <1>1 DEF TypeOK, Ciphertexts
  <2>2. a + 1 \in DOMAIN db_ /\ (a + 1) - 1 = a
    BY <1>2, <1>4, <1>5, <1>6, <2>1
  <2>3. DOMAIN db_ = 1 .. Product(nvec)
    BY DEF db_
  <2> HIDE DEF a
  <2>4. db_[a + 1] = Plain((a + 1) - 1)
    BY <2>2, <2>3 DEF db_
  <2> QED
    BY <1>2, <2>2, <2>4
<1> HIDE DEF a, c
<1>8. selected[1] = Scaled(Plain(a), c)
  BY <1>5, <1>6, <1>7
<1>9. Scaled(Plain(a), c) \in Poly
  <2>1. a \in 0 .. Product(nvec) - 1
    BY <1>1, <1>4, ServedIs DEF a
  <2>2. Plain(a) \in Poly
    BY <1>1, <2>1, PlainIs
  <2> QED
    BY <1>4, <2>2, ScaledType
<1>10. selected = <<Scaled(Plain(a), c)>> /\ SubSeq(selected, 1, 1) = selected
  <2> DEFINE f == Scaled(Plain(a), c)
  <2>1. selected \in [1 .. 1 -> Poly]
    <3>1. DOMAIN selected = 1 .. 1 /\ selected = [k \in 1 .. 1 |-> selected[k]]
      BY <1>5
    <3>2. \A k \in 1 .. 1 : selected[k] \in Poly
      <4>1. \A k \in 1 .. 1 : k = 1
        OBVIOUS
      <4> QED
        BY <1>8, <1>9, <4>1
    <3> QED
      BY <3>1, <3>2
  <2>2. selected \in Seq(Poly) /\ Len(selected) = 1
    BY <2>1, LenIs
  <2> QED
    BY <1>8, <2>2, OneOf
<1>11. /\ reply' = IF flags.via = "tcp" THEN SubSeq(selected, 1, 1) ELSE selected
       /\ layer' = 1 /\ pc' = "decoding"
  BY <1>2 DEF finish_level
<1> QED
  BY <1>4, <1>10, <1>11 DEF a, c

\* The first of two dimensions: one plaintext of each column is selected.
LEMMA FirstOfTwo ==
  ASSUME ReplyInv, ValueInv, Served, pc = "multiplying", Len(nvec) = 2, level = 1,
         NEW selected,
         selected = select(Len(cur) \div nvec[level], nvec[level]),
         finish_level(selected),
         UNCHANGED <<flags, desiredIndex, indices_, inverse_scales_>>
  PROVE  /\ Intermediate' /\ level' # 1 /\ pc' = "expanding"
         /\ Decomposed'
<1> DEFINE n == nvec[1]
           n_2 == nvec[2]
           a == indices_[1]
           c == Pow2[server_logm(1)]
<1>1. TypeOK /\ ClientInv /\ LengthInv /\ flags \in Flags /\ desiredIndex # -1
  BY DEF ReplyInv, TypeOK, ClientInv
<1>2. /\ cur = db_ /\ Len(cur) = Product(nvec)
  BY <1>1 DEF ValueInv, LengthInv
<1>3. Len(cur) \div nvec[level] = n_2
  <2>1. /\ level \in 1 .. Len(nvec)
        /\ Len(cur) = IF level = 1 THEN Product(nvec) ELSE nvec[2] * expansion_ratio
    BY <1>1 DEF LengthInv
  <2> QED
    BY <1>1, <2>1, LevelSizes
<1>4. /\ n \in Nat \ {0} /\ n_2 \in Nat \ {0} /\ a \in 0 .. n - 1 /\ c \in Nat
  <2>1. 1 \in 1 .. Len(nvec) /\ 2 \in 1 .. Len(nvec)
    OBVIOUS
  <2> QED
    BY <1>1, <2>1, ServedIs
<1>5. /\ \A k \in 1 .. n_2 : place(k - 1, a, n_2, n) + 1 \in 1 .. Len(cur)
      /\ selected = [k \in 1 .. n_2 |-> Scaled(cur[place(k - 1, a, n_2, n) + 1], c)]
  BY <1>3, SelectedIs
<1>6. ASSUME NEW k \in 1 .. n_2
      PROVE  cur[place(k - 1, a, n_2, n) + 1] = Plain(k - 1 + a * n_2)
  <2> DEFINE x == place(k - 1, a, n_2, n)
  <2>1. x \in Nat /\ x = (k - 1) + a * n_2
    <3>1. a \in Nat /\ k - 1 \in Nat
      BY <1>4
    <3>2. a * n_2 \in Nat
      BY <1>4, <3>1
    <3> QED
      BY <3>1, <3>2 DEF place
  <2>2. x + 1 \in 1 .. Len(cur)
    BY <1>5
  <2> HIDE DEF x
  <2>3. x + 1 \in 1 .. Product(nvec) /\ (x + 1) - 1 = x
    BY <1>2, <2>1, <2>2
  <2>4. db_[x + 1] = Plain((x + 1) - 1)
    BY <2>3 DEF db_
  <2>5. cur[x + 1] = Plain(x)
    BY <1>2, <2>3, <2>4
  <2>6. cur[x + 1] = Plain(k - 1 + a * n_2)
    BY <2>1, <2>5
  <2> QED
    BY <2>6 DEF x
<1> HIDE DEF n, n_2, a, c
<1>7. selected = [k \in 1 .. n_2 |-> Scaled(Plain(k - 1 + a * n_2), c)]
  BY <1>5, <1>6
<1>8. DOMAIN selected = 1 .. n_2
  BY <1>7
<1>9. /\ \E seed \in {x \in Seeds : fits(x, selected)} :
           intermediateCtxts' = [k \in DOMAIN selected |->
             [enc |-> selected[k], words |-> Words(seed, k)]]
      /\ cur' = FlattenSeq([k \in DOMAIN selected |->
                  decompose_to_plaintexts_ptr(intermediateCtxts'[k].words)])
      /\ level' = level + 1 /\ pc' = "expanding"
  BY DEF finish_level
<1>10. PICK seed \in {x \in Seeds : fits(x, selected)} :
         intermediateCtxts' = [k \in DOMAIN selected |->
           [enc |-> selected[k], words |-> Words(seed, k)]]
  BY <1>9
<1>10a. ASSUME NEW j \in DOMAIN intermediateCtxts', NEW k \in DOMAIN intermediateCtxts',
               intermediateCtxts'[j].words = intermediateCtxts'[k].words
        PROVE  intermediateCtxts'[j].enc = intermediateCtxts'[k].enc
  <2>1. j \in DOMAIN selected /\ k \in DOMAIN selected
    BY <1>10
  <2>2. /\ intermediateCtxts'[j].words = Words(seed, j) /\ intermediateCtxts'[j].enc = selected[j]
        /\ intermediateCtxts'[k].words = Words(seed, k) /\ intermediateCtxts'[k].enc = selected[k]
    BY <1>10, <2>1
  <2>3. Words(seed, j) = Words(seed, k)
    BY <1>10a, <2>2
  <2>4. selected[j] = selected[k]
    BY <2>1, <2>3 DEF fits
  <2> QED
    BY <2>2, <2>4
<1>11. intermediateCtxts' =
         [k \in 1 .. n_2 |->
            [enc |-> Scaled(Plain(k - 1 + a * n_2), c), words |-> Words(seed, k)]]
  BY <1>7, <1>8, <1>10
<1>12. Intermediate'
  <2>1. nvec'[2] = n_2 /\ server_logm(1)' = server_logm(1) /\ indices_'[1] = a
    BY ValuesStay DEF n_2, a
  <2>2. (\E s \in Seeds :
           intermediateCtxts =
             [k \in 1 .. nvec[2] |->
                [enc |-> Scaled(Plain(k - 1 + indices_[1] * nvec[2]), Pow2[server_logm(1)]),
                 words |-> Words(s, k)]])'
    BY <1>11, <2>1 DEF c
  <2>3. (\A j, k \in DOMAIN intermediateCtxts :
           intermediateCtxts[j].words = intermediateCtxts[k].words =>
             intermediateCtxts[j].enc = intermediateCtxts[k].enc)'
    BY <1>10a
  <2> QED
    BY <2>2, <2>3 DEF Intermediate
<1>13. /\ DOMAIN intermediateCtxts' = 1 .. n_2
       /\ \A k \in 1 .. n_2 : intermediateCtxts'[k].words = Words(seed, k)
  BY <1>11
<1> DEFINE s == [k \in 1 .. nvec[2] |-> decompose_to_plaintexts_ptr(Words(seed, k))]
<1>14. cur' = FlattenSeq(s)
  <2>1. [k \in DOMAIN selected |-> decompose_to_plaintexts_ptr(intermediateCtxts'[k].words)] = s
    BY <1>8, <1>13 DEF n_2
  <2> QED
    BY <1>9, <2>1
<1>15. \A k \in 1 .. n_2 :
         /\ Len(s[k]) = expansion_ratio /\ DOMAIN s[k] = 1 .. expansion_ratio
         /\ \A e \in 1 .. expansion_ratio :
              FlattenSeq(s)[(k - 1) * expansion_ratio + e] = s[k][e]
  BY <1>1, RowsDecomposed DEF n_2
<1>16. \A k \in 1 .. n_2 : s[k] = decompose_to_plaintexts_ptr(Words(seed, k))
  BY DEF n_2
<1> HIDE DEF s
<1>17. ASSUME NEW k \in DOMAIN intermediateCtxts'
       PROVE  LET plains == decompose_to_plaintexts_ptr(intermediateCtxts'[k].words)
              IN  \A e \in DOMAIN plains : cur'[(k - 1) * Len(plains) + e] = plains[e]
  <2>1. k \in 1 .. n_2
    BY <1>13
  <2>2. decompose_to_plaintexts_ptr(intermediateCtxts'[k].words) = s[k]
    BY <1>13, <1>16, <2>1
  <2>3. \A e \in DOMAIN s[k] : cur'[(k - 1) * Len(s[k]) + e] = s[k][e]
    BY <1>14, <1>15, <2>1
  <2> QED
    BY <2>2, <2>3
<1>18. Decomposed'
  BY <1>17 DEF Decomposed
<1> QED
  BY <1>9, <1>12, <1>18

\* The second: one digit each of the words of one ciphertext.
LEMMA SecondOfTwo ==
  ASSUME ReplyInv, ValueInv, Served, pc = "multiplying", Len(nvec) = 2, level = 2,
         NEW selected,
         selected = select(Len(cur) \div nvec[level], nvec[level]),
         finish_level(selected),
         UNCHANGED <<flags, desiredIndex, indices_, inverse_scales_>>
  PROVE  /\ Intermediate' /\ layer' = 1 /\ pc' = "decoding"
         /\ LET plains == decompose_to_plaintexts_ptr(intermediateCtxts'[indices_[2] + 1].words)
            IN  reply' = [e \in DOMAIN plains |-> Scaled(plains[e], Pow2[server_logm(2)])]
<1> DEFINE n == nvec[2]
           a == indices_[2]
           c == Pow2[server_logm(2)]
           k == a + 1
           plains == decompose_to_plaintexts_ptr(intermediateCtxts[k].words)
<1>1. TypeOK /\ ClientInv /\ LengthInv /\ flags \in Flags /\ desiredIndex # -1
  BY DEF ReplyInv, TypeOK, ClientInv
<1>2. Intermediate /\ Decomposed
  <2>1. level # 1
    OBVIOUS
  <2> QED
    BY <2>1 DEF ValueInv
<1>3. Len(cur) \div nvec[level] = expansion_ratio /\ expansion_ratio \in Nat \ {0}
  <2>1. /\ level \in 1 .. Len(nvec)
        /\ Len(cur) = IF level = 1 THEN Product(nvec) ELSE nvec[2] * expansion_ratio
    BY <1>1 DEF LengthInv
  <2> QED
    BY <1>1, <2>1, LevelSizes, Digits
<1>4. /\ n \in Nat \ {0} /\ a \in 0 .. n - 1 /\ c \in Nat /\ flags.via # "tcp"
  <2>1. 2 \in 1 .. Len(nvec)
    OBVIOUS
  <2> QED
    BY <1>1, <2>1, ServedIs
<1>5. selected = [e \in 1 .. expansion_ratio |->
                    Scaled(cur[place(e - 1, a, expansion_ratio, n) + 1], c)]
  BY <1>3, SelectedIs
<1>6. PICK seed \in Seeds :
        intermediateCtxts =
          [j \in 1 .. n |->
             [enc |-> Scaled(Plain(j - 1 + indices_[1] * n), Pow2[server_logm(1)]),
              words |-> Words(seed, j)]]
  BY <1>2 DEF Intermediate
<1>7. k \in 1 .. n /\ k - 1 = a
  BY <1>4
<1>8. k \in DOMAIN intermediateCtxts /\ plains = decompose_to_plaintexts_ptr(Words(seed, k))
  BY <1>6, <1>7
<1>9. Len(plains) = expansion_ratio /\ DOMAIN plains = 1 .. expansion_ratio
  <2> DEFINE s == [j \in 1 .. nvec[2] |-> decompose_to_plaintexts_ptr(Words(seed, j))]
  <2>1. \A j \in 1 .. nvec[2] : Len(s[j]) = expansion_ratio /\ DOMAIN s[j] = 1 .. expansion_ratio
    BY <1>1, RowsDecomposed
  <2>2. s[k] = plains
    BY <1>7, <1>8
  <2> HIDE DEF s, plains
  <2> QED
    BY <1>7, <2>1, <2>2
<1>10. \A e \in DOMAIN plains : cur[(k - 1) * Len(plains) + e] = plains[e]
  BY <1>2, <1>8 DEF Decomposed
<1> HIDE DEF plains, k
<1>11. ASSUME NEW e \in 1 .. expansion_ratio
       PROVE  cur[place(e - 1, a, expansion_ratio, n) + 1] = plains[e]
  <2>1. cur[a * expansion_ratio + e] = plains[e]
    BY <1>7, <1>9, <1>10
  <2>2. place(e - 1, a, expansion_ratio, n) + 1 = a * expansion_ratio + e
    <3> DEFINE x == a * expansion_ratio
    <3>1. x \in Nat
      BY <1>3, <1>4
    <3> HIDE DEF x
    <3>2. ((e - 1) + x) + 1 = x + e
      BY <3>1
    <3> QED
      BY <3>2 DEF place, x
  <2> QED
    BY <2>1, <2>2
<1> HIDE DEF a, n, c
<1>12. selected = [e \in DOMAIN plains |-> Scaled(plains[e], c)]
  BY <1>5, <1>9, <1>11
<1>13. /\ reply' = IF flags.via = "tcp" THEN SubSeq(selected, 1, 1) ELSE selected
       /\ layer' = 1 /\ pc' = "decoding" /\ intermediateCtxts' = intermediateCtxts
  BY DEF finish_level
<1>14. Intermediate'
  <2>1. nvec' = nvec /\ server_logm(1)' = server_logm(1) /\ indices_' = indices_
    BY ValuesStay
  <2>2. (\E s \in Seeds :
           intermediateCtxts =
             [j \in 1 .. nvec[2] |->
                [enc |-> Scaled(Plain(j - 1 + indices_[1] * nvec[2]), Pow2[server_logm(1)]),
                 words |-> Words(s, j)]])'
    BY <1>6, <1>13, <2>1 DEF n
  <2>3. (\A j, i \in DOMAIN intermediateCtxts :
           intermediateCtxts[j].words = intermediateCtxts[i].words =>
             intermediateCtxts[j].enc = intermediateCtxts[i].enc)'
    BY <1>2, <1>13 DEF Intermediate
  <2> QED
    BY <2>2, <2>3 DEF Intermediate
<1> QED
  BY <1>4, <1>12, <1>13, <1>14 DEF plains, k, a, c

-----------------------------------------------------------------------------
\* The last layer undoes the scale of the first dimension.
LEMMA LastLayer ==
  ASSUME ReplyInv, ValueInv, Served, decode_layer, ~ (layer < Len(client_nvec)),
         InnerUndone, whole
  PROVE  pc' = "idle" /\ result' = Scaled(Plain(desiredIndex), left_over(1))
<1>1. /\ TypeOK /\ ClientInv /\ LengthInv /\ pc = "decoding" /\ desiredIndex # -1
      /\ flags \in Flags
  BY DEF ReplyInv, TypeOK, ClientInv, decode_layer
<1>2. /\ Len(nvec) \in {1, 2} /\ Len(client_nvec) = Len(nvec)
      /\ desiredIndex \in 0 .. Product(nvec) - 1
      /\ Pow2[server_logm(1)] \in Nat /\ inverse_scales_[1] \in Nat
  <2>1. /\ Len(nvec) \in {1, 2} /\ Len(client_nvec) = Len(nvec)
        /\ desiredIndex \in 0 .. Product(nvec) - 1
        /\ \A i \in 1 .. Len(nvec) : Pow2[server_logm(i)] \in Nat /\ inverse_scales_[i] \in Nat
    BY <1>1, ServedIs
  <2>2. 1 \in 1 .. Len(nvec)
    BY <2>1
  <2> QED
    BY <2>1, <2>2
<1>3. layer = Len(client_nvec) /\ layer = Len(nvec)
  BY <1>1, <1>2 DEF LengthInv
<1> DEFINE f == Plain(desiredIndex)
           c == Pow2[server_logm(1)]
           b == inverse_scales_[1]
<1>4. reply = <<Scaled(f, c)>>
  BY <1>1, <1>3 DEF ValueInv
<1>5. f \in Poly
  BY <1>1, <1>2, PlainIs
<1>6. result' = tempplain[1] /\ pc' = "idle"
  BY <1>4 DEF decode_layer, finish_reply
<1>7. Len(client_nvec) - layer + 1 = 1
  BY <1>2, <1>3
<1>8. tempplain[1] = Scaled(Scaled(f, c), b)
  BY <1>4, <1>7 DEF tempplain
<1> HIDE DEF f, c, b
<1>9. Scaled(Scaled(f, c), b) = Scaled(f, (b * c) % t)
  BY <1>2, <1>5, ScaledTwice DEF b, c
<1>10. (b * c) % t = left_over(1)
  BY DEF left_over, b, c
<1> QED
  BY <1>6, <1>8, <1>9, <1>10 DEF f

\* The one before it finds the ciphertext of which the reply has the digits.
LEMMA DigitsFound ==
  ASSUME ReplyInv, ValueInv, Served, pc = "decoding", layer < Len(client_nvec),
         left_over(2) = 1
  PROVE  /\ Len(nvec) = 2 /\ layer = 1 /\ groups = 1 .. 1
         /\ known(combined(1)) # {}
         /\ \A stray : decrypt(combined(1), stray) =
                         Scaled(Plain(desiredIndex), Pow2[server_logm(1)])
<1>1. /\ TypeOK /\ ClientInv /\ LengthInv /\ pc = "decoding" /\ desiredIndex # -1
      /\ flags \in Flags
  BY DEF ReplyInv, TypeOK, ClientInv
<1>2. /\ Len(nvec) \in {1, 2} /\ Len(client_nvec) = Len(nvec) /\ layer \in 1 .. Len(client_nvec)
  BY <1>1, ServedIs DEF LengthInv
<1>3. Len(nvec) = 2 /\ layer = 1
  <2> DEFINE x == Len(nvec)
  <2>1. x \in {1, 2} /\ layer \in 1 .. x /\ layer < x
    BY <1>2
  <2> HIDE DEF x
  <2>2. x = 2 /\ layer = 1
    BY <2>1
  <2> QED
    BY <2>2 DEF x
<1> DEFINE n == nvec[2]
           a == indices_[2]
           k == a + 1
           c == Pow2[server_logm(2)]
           b == inverse_scales_[2]
           er == expansion_ratio
           plains == decompose_to_plaintexts_ptr(intermediateCtxts[k].words)
<1>4. /\ n \in Nat \ {0} /\ a \in 0 .. n - 1 /\ c \in Nat /\ b \in Nat
      /\ desiredIndex = a + indices_[1] * n /\ indices_[1] \in Nat
  <2>1. 2 \in 1 .. Len(nvec) /\ 1 \in 1 .. Len(nvec)
    BY <1>3
  <2> QED
    BY <1>1, <1>3, <2>1, ServedIs
<1>5. er \in Nat /\ er \in Nat \ {0}
  BY Digits
<1>6. /\ Intermediate
      /\ reply = [e \in DOMAIN plains |-> Scaled(plains[e], c)]
  <2>1. layer < Len(nvec) /\ pc \in {"expanding", "multiplying", "decoding"}
    BY <1>1, <1>3
  <2> QED
    BY <1>1, <2>1 DEF ValueInv
<1>7. PICK seed \in Seeds :
        intermediateCtxts =
          [j \in 1 .. n |->
             [enc |-> Scaled(Plain(j - 1 + indices_[1] * n), Pow2[server_logm(1)]),
              words |-> Words(seed, j)]]
  BY <1>6 DEF Intermediate
<1>8. k \in 1 .. n /\ k - 1 = a
  <2>1. n \in Nat \ {0} /\ a \in 0 .. n - 1
    BY <1>4
  <2> HIDE DEF n, a
  <2> QED
    BY <2>1
<1>9. k \in DOMAIN intermediateCtxts /\ plains = decompose_to_plaintexts_ptr(Words(seed, k))
  BY <1>7, <1>8
<1>10. \A j \in 1 .. n : Words(seed, j) \in [1 .. 2 -> [0 .. N - 1 -> 0 .. Pow2[logq] - 1]]
  BY <1>1, <1>3, WordsAre
<1>11. /\ plains \in Seq(Poly) /\ Len(plains) = er /\ DOMAIN plains = 1 .. er
  <2> DEFINE w == Words(seed, k)
  <2>1. w \in [1 .. 2 -> [0 .. N - 1 -> 0 .. Pow2[logq] - 1]]
    BY <1>8, <1>10
  <2> HIDE DEF w
  <2>2. w \in [1 .. 2 -> [0 .. N - 1 -> Nat]]
    <3>1. 0 .. Pow2[logq] - 1 \subseteq Nat
      OBVIOUS
    <3> QED
      BY <2>1, <3>1
  <2>3. plains = decompose_to_plaintexts_ptr(w)
    BY <1>9 DEF w
  <2> HIDE DEF plains
  <2>4. plains \in Seq(Poly) /\ Len(plains) = er
    BY <2>2, <2>3, DecomposedIs
  <2> QED
    BY <2>4, LenProperties
<1> HIDE DEF plains
<1>12. tempplain = plains
  <2>1. Len(client_nvec) - layer + 1 = 2
    BY <1>2, <1>3
  <2>2. DOMAIN reply = DOMAIN plains
    BY <1>6
  <2>3. ASSUME NEW e \in DOMAIN plains PROVE Scaled(reply[e], b) = plains[e]
    <3>1. plains[e] \in Poly
      BY <1>11, <2>3, ElementOfSeq
    <3>2. reply[e] = Scaled(plains[e], c)
      BY <1>6, <2>3
    <3>3. Scaled(Scaled(plains[e], c), b) = Scaled(plains[e], (b * c) % t)
      BY <1>4, <3>1, ScaledTwice
    <3>4. (b * c) % t = 1
      BY DEF left_over
    <3> QED
      BY <3>1, <3>2, <3>3, <3>4, ScaledByOne
  <2>4. tempplain = [e \in DOMAIN plains |-> Scaled(reply[e], b)]
    BY <2>1, <2>2 DEF tempplain
  <2>5. plains = [e \in DOMAIN plains |-> plains[e]]
    BY <1>11
  <2> HIDE DEF b, c
  <2> QED
    BY <2>3, <2>4, <2>5
<1>13. Len(reply) = er /\ Len(reply) \div er = 1
  <2>1. Len(reply) = er
    BY <1>6, <1>11, LenIs
  <2> HIDE DEF er
  <2>2. er \div er = 1
    BY <1>5
  <2> QED
    BY <2>1, <2>2
<1>15. combined(1) = Words(seed, k)
  <2>1. (1 - 1) * er + 1 = 1 /\ 1 * er = er
    BY <1>5
  <2>2. SubSeq(plains, 1, er) = plains
    BY <1>11, SubSeqFull
  <2>3. Words(seed, k) \in [1 .. 2 -> [0 .. N - 1 -> 0 .. Pow2[logq] - 1]]
    BY <1>8, <1>10
  <2>4. compose_to_ciphertext(plains) = Words(seed, k)
    BY <1>9, <2>3, Recomposed
  <2>5. combined(1) = compose_to_ciphertext(SubSeq(plains, 1, er))
    BY <1>12, <2>1 DEF combined, first
  <2> QED
    BY <2>2, <2>4, <2>5
<1>16. /\ known(combined(1)) # {}
       /\ \A stray : decrypt(combined(1), stray) =
                       Scaled(Plain(desiredIndex), Pow2[server_logm(1)])
  <2> DEFINE f == Scaled(Plain(desiredIndex), Pow2[server_logm(1)])
             j == CHOOSE i \in known(combined(1)) : TRUE
  <2>1. intermediateCtxts[k].words = combined(1)
    BY <1>7, <1>8, <1>15
  <2>2. k \in known(combined(1))
    BY <1>9, <2>1 DEF known
  <2>3. j \in known(combined(1))
    BY <2>2
  <2>4. j \in DOMAIN intermediateCtxts /\ intermediateCtxts[j].words = combined(1)
    BY <2>3 DEF known
  <2>5. intermediateCtxts[k].enc = f
    BY <1>4, <1>7, <1>8
  <2> HIDE DEF j, f
  <2>6. intermediateCtxts[j].enc = intermediateCtxts[k].enc
    BY <1>6, <1>9, <2>1, <2>4 DEF Intermediate
  <2>7. \A stray : decrypt(combined(1), stray) = intermediateCtxts[j].enc
    BY <2>2 DEF decrypt, j
  <2> QED
    BY <2>2, <2>5, <2>6, <2>7 DEF f
<1> QED
  BY <1>3, <1>13, <1>16 DEF groups

\* So it decrypts to that plaintext of the row, if the digits were all there.
LEMMA FirstLayer ==
  ASSUME ReplyInv, ValueInv, Served, decode_layer, layer < Len(client_nvec),
         left_over(2) = 1, whole'
  PROVE  /\ reply' = <<Scaled(Plain(desiredIndex), Pow2[server_logm(1)])>>
         /\ layer' = Len(nvec) /\ pc' = "decoding"
<1> DEFINE f == Scaled(Plain(desiredIndex), Pow2[server_logm(1)])
<1>1. pc = "decoding"
  BY DEF decode_layer
<1>2. /\ Len(nvec) = 2 /\ layer = 1 /\ groups = 1 .. 1
      /\ known(combined(1)) # {}
      /\ \A stray : decrypt(combined(1), stray) = f
  BY <1>1, DigitsFound
<1>3. PICK overread \in SUBSET {g \in groups : trimmed(g)}, stray \in [groups -> Garbled] :
        /\ whole' = (whole /\ overread = {})
        /\ \/ /\ reply' = Composed(overread, stray) /\ layer' = layer + 1 /\ pc' = pc
           \/ /\ \E g \in groups : g \in overread \/ known(combined(g)) = {}
              /\ pc' = "failed" /\ reply' = reply /\ layer' = layer
  BY LayerComposed, Zenon
<1>4. overread = {} /\ \A g \in groups : g = 1
  <2>1. overread = {}
    BY ONLY <1>3, whole', Zenon
  <2>2. \A g \in groups : g = 1
    BY ONLY <1>2
  <2> QED
    BY ONLY <2>1, <2>2
<1>5. reply' = Composed(overread, stray) /\ layer' = layer + 1 /\ pc' = pc
  BY <1>2, <1>3, <1>4
<1>6. f \in Poly
  <2>1. TypeOK /\ ClientInv /\ desiredIndex # -1 /\ flags \in Flags /\ pc # "failed"
    BY <1>1 DEF ReplyInv, TypeOK, ClientInv
  <2>2. /\ desiredIndex \in 0 .. Product(nvec) - 1
        /\ \A i \in 1 .. Len(nvec) : Pow2[server_logm(i)] \in Nat
    BY <2>1, ServedIs
  <2>3. Pow2[server_logm(1)] \in Nat
    BY <1>2, <2>2
  <2>4. Plain(desiredIndex) \in Poly
    BY <2>1, <2>2, PlainIs
  <2> QED
    BY <2>3, <2>4, ScaledType
<1>7. Composed(overread, stray) = [g \in 1 .. 1 |-> f]
  <2>1. \A g \in groups : decrypt(combined(g), stray[g]) = f
    BY <1>2, <1>4
  <2> HIDE DEF f
  <2>2. Composed(overread, stray) = [g \in groups |-> f]
    BY <1>4, <2>1 DEF Composed
  <2> QED
    BY <1>2, <2>2
<1> HIDE DEF f
<1>8. reply' \in [1 .. 1 -> Poly] /\ reply'[1] = f
  BY <1>5, <1>6, <1>7
<1>9. reply' \in Seq(Poly) /\ Len(reply') = 1
  BY <1>8, LenIs
<1>10. reply' = <<f>>
  BY <1>8, <1>9, OneOf
<1>11. layer' = Len(nvec)
  BY <1>2, <1>5
<1> QED
  BY <1>1, <1>5, <1>10, <1>11 DEF f

-----------------------------------------------------------------------------
\* Steps that leave the values alone.
LEMMA ValuesKept ==
  ASSUME ValueInv, PlaintextRetrieved,
         UNCHANGED <<flags, desiredIndex, indices_, inverse_scales_>>,
         UNCHANGED <<level, cur, intermediateCtxts, reply, layer, result, whole>>,
         pc' = pc \/ pc' = "failed" \/ (pc = "expanding" /\ pc' = "multiplying")
  PROVE  ValueInv' /\ PlaintextRetrieved'
<1>1. /\ nvec' = nvec /\ db_' = db_ /\ (Served' <=> Served)
      /\ \A i : server_logm(i)' = server_logm(i) /\ left_over(i)' = left_over(i)
      /\ (InnerUndone' <=> InnerUndone)
  BY ValuesStay
<1>2. CASE pc' = "failed"
  BY <1>2 DEF ValueInv, PlaintextRetrieved
<1>3. CASE pc' = pc \/ (pc = "expanding" /\ pc' = "multiplying")
  <2>1. /\ pc' \in {"expanding", "multiplying", "decoding"} <=>
             pc \in {"expanding", "multiplying", "decoding"}
        /\ pc' = "decoding" <=> pc = "decoding"
        /\ pc' = "idle" <=> pc = "idle"
    BY <1>3
  <2>2. Intermediate' <=> Intermediate
    BY <1>1 DEF Intermediate
  <2>3. Decomposed' <=> Decomposed
    BY DEF Decomposed
  <2>4. PlaintextRetrieved'
    BY <1>1, <2>1 DEF PlaintextRetrieved
  <2>5. ValueInv'
    <3>1. SUFFICES ASSUME (pc \in {"expanding", "multiplying", "decoding"} /\ Served)'
                   PROVE  (/\ pc # "decoding" =>
                                IF level = 1 THEN cur = db_ ELSE Intermediate /\ Decomposed
                           /\ pc = "decoding" /\ layer < Len(nvec) =>
                                /\ Intermediate
                                /\ LET plains == decompose_to_plaintexts_ptr(
                                                   intermediateCtxts[indices_[2] + 1].words)
                                       logm == server_logm(2)
                                   IN  reply = [e \in DOMAIN plains |-> Scaled(plains[e], Pow2[logm])]
                           /\ pc = "decoding" /\ layer = Len(nvec) /\ InnerUndone /\ whole =>
                                reply = <<Scaled(Plain(desiredIndex), Pow2[server_logm(1)])>>)'
      BY <3>1 DEF ValueInv
    <3>2. pc \in {"expanding", "multiplying", "decoding"} /\ Served
      BY <1>1, <2>1, <3>1
    <3>3. (pc # "decoding" => IF level = 1 THEN cur = db_ ELSE Intermediate /\ Decomposed)'
      BY <1>1, <2>1, <2>2, <2>3, <3>2 DEF ValueInv
    <3>4. (pc = "decoding" /\ layer < Len(nvec) =>
             /\ Intermediate
             /\ LET plains == decompose_to_plaintexts_ptr(
                                intermediateCtxts[indices_[2] + 1].words)
                    logm == server_logm(2)
                IN  reply = [e \in DOMAIN plains |-> Scaled(plains[e], Pow2[logm])])'
      BY <1>1, <2>1, <2>2, <3>2 DEF ValueInv
    <3>5. (pc = "decoding" /\ layer = Len(nvec) /\ InnerUndone /\ whole =>
             reply = <<Scaled(Plain(desiredIndex), Pow2[server_logm(1)])>>)'
      BY <1>1, <2>1, <3>2 DEF ValueInv
    <3> QED
      BY <3>3, <3>4, <3>5
  <2> QED
    BY <2>4, <2>5
<1> QED
  BY <1>2, <1>3

\* A level that multiply finishes.
LEMMA MultiplyValue ==
  ASSUME ReplyInv, ValueInv, PlaintextRetrieved, multiply
  PROVE  ValueInv' /\ PlaintextRetrieved'
<1> DEFINE n_i == nvec[level]
           product == Len(cur) \div n_i
           selected == select(product, n_i)
<1>1. /\ pc = "multiplying"
      /\ UNCHANGED <<flags, desiredIndex, indices_, inverse_scales_, result, whole>>
  BY DEF multiply, client
<1>2. /\ nvec' = nvec /\ (Served' <=> Served) /\ \A i : server_logm(i)' = server_logm(i)
  BY <1>1, ValuesStay
<1>3. CASE pc' = "failed" /\ UNCHANGED <<level, cur, intermediateCtxts, reply, layer>>
  BY <1>1, <1>3, ValuesKept
<1>4. CASE ~ Served
  <2>1. ValueInv'
    BY <1>2, <1>4 DEF ValueInv
  <2>2. PlaintextRetrieved'
    BY <1>2, <1>4 DEF PlaintextRetrieved
  <2> QED
    BY <2>1, <2>2
<1>5. CASE Served /\ ~ (pc' = "failed" /\ UNCHANGED <<level, cur, intermediateCtxts, reply, layer>>)
  <2>1. Len(expanded_query) >= n_i
    BY <1>1, <1>5, SelectedIs
  <2>2. finish_level(selected)
    BY <1>5, <2>1 DEF multiply
  <2>3. /\ Len(nvec) \in {1, 2} /\ level \in 1 .. Len(nvec)
    <3>1. TypeOK /\ ClientInv /\ LengthInv /\ desiredIndex # -1
      BY <1>1 DEF ReplyInv, ClientInv
    <3> QED
      BY <1>1, <1>5, <3>1, ServedIs DEF LengthInv
  <2> HIDE DEF selected
  <2>4. selected = select(Len(cur) \div nvec[level], nvec[level])
    BY DEF selected
  <2>5. pc' \in {"expanding", "decoding"} /\ pc' # "idle"
    BY <2>2 DEF finish_level
  <2>6. PlaintextRetrieved'
    BY <2>5 DEF PlaintextRetrieved
  <2>7. CASE Len(nvec) = 1
    <3>1. /\ reply' = <<Scaled(Plain(desiredIndex), Pow2[server_logm(1)])>>
          /\ layer' = 1 /\ pc' = "decoding"
      BY <1>1, <1>5, <2>2, <2>4, <2>7, OneDimension
    <3>2. ~ (layer' < Len(nvec')) /\ pc' = "decoding" /\ desiredIndex' = desiredIndex
      BY <1>1, <1>2, <2>7, <3>1
    <3> QED
      BY <1>1, <1>2, <2>6, <3>1, <3>2 DEF ValueInv
  <2>8. CASE Len(nvec) = 2 /\ level = 1
    <3>1. Intermediate' /\ level' # 1 /\ pc' = "expanding" /\ Decomposed'
      BY <1>1, <1>5, <2>2, <2>4, <2>8, FirstOfTwo
    <3>2. pc' # "decoding"
      BY <3>1
    <3>3. ValueInv'
      BY <3>1, <3>2 DEF ValueInv
    <3> QED
      BY <2>6, <3>3
  <2>9. CASE Len(nvec) = 2 /\ level = 2
    <3>1. /\ Intermediate' /\ layer' = 1 /\ pc' = "decoding"
          /\ LET plains == decompose_to_plaintexts_ptr(intermediateCtxts'[indices_[2] + 1].words)
             IN  reply' = [e \in DOMAIN plains |-> Scaled(plains[e], Pow2[server_logm(2)])]
      BY <1>1, <1>5, <2>2, <2>4, <2>9, SecondOfTwo
    <3>2. layer' < Len(nvec') /\ layer' # Len(nvec') /\ indices_' = indices_
      BY <1>1, <1>2, <2>9, <3>1
    <3>3. ValueInv'
      BY <1>2, <3>1, <3>2 DEF ValueInv
    <3> QED
      BY <2>6, <3>3
  <2>10. Len(nvec) = 1 \/ (Len(nvec) = 2 /\ level = 1) \/ (Len(nvec) = 2 /\ level = 2)
    <3> DEFINE x == Len(nvec)
    <3>1. x \in {1, 2} /\ level \in 1 .. x
      BY <2>3
    <3> HIDE DEF x
    <3>2. x = 1 \/ (x = 2 /\ level = 1) \/ (x = 2 /\ level = 2)
      BY <3>1
    <3> QED
      BY <3>2 DEF x
  <2> QED
    BY <2>7, <2>8, <2>9, <2>10
<1> QED
  BY <1>3, <1>4, <1>5

\* A layer of the reply.
LEMMA DecodeValue ==
  ASSUME ReplyInv, ValueInv, PlaintextRetrieved, decode_layer
  PROVE  ValueInv' /\ PlaintextRetrieved'
<1>1. /\ pc = "decoding" /\ UNCHANGED <<flags, desiredIndex, indices_, inverse_scales_>>
  BY DEF decode_layer, client
<1>2. /\ nvec' = nvec /\ client_nvec' = client_nvec /\ (Served' <=> Served)
      /\ \A i : server_logm(i)' = server_logm(i) /\ left_over(i)' = left_over(i)
      /\ (InnerUndone' <=> InnerUndone)
  BY <1>1, ValuesStay
<1>3. CASE ~ Served
  <2>1. ValueInv'
    BY <1>2, <1>3 DEF ValueInv
  <2>2. PlaintextRetrieved'
    BY <1>2, <1>3 DEF PlaintextRetrieved
  <2> QED
    BY <2>1, <2>2
<1>4. CASE Served /\ ~ (layer < Len(client_nvec))
  <2>1. pc' \in {"idle", "failed"} /\ whole' = whole
    BY <1>4 DEF decode_layer, finish_reply
  <2>2. ValueInv'
    BY <2>1 DEF ValueInv
  <2>3. ASSUME InnerUndone', whole'
        PROVE  result' = Scaled(Plain(desiredIndex'), left_over(1)')
    <3>1. InnerUndone /\ whole
      BY <1>2, <2>1, <2>3
    <3>2. result' = Scaled(Plain(desiredIndex), left_over(1))
      BY <1>4, <3>1, LastLayer
    <3> QED
      BY <1>1, <1>2, <3>2
  <2>4. PlaintextRetrieved'
    BY <2>3 DEF PlaintextRetrieved
  <2> QED
    BY <2>2, <2>4
<1>5. CASE Served /\ layer < Len(client_nvec)
  <2>1. pc' \in {"decoding", "failed"}
    BY <1>1, <1>5 DEF decode_layer, compose_layer
  <2>2. PlaintextRetrieved'
    BY <2>1 DEF PlaintextRetrieved
  <2>3. ASSUME pc' = "decoding"
        PROVE  layer' = Len(nvec) /\ ~ (layer' < Len(nvec))
    <3>1. /\ Len(nvec) \in {1, 2} /\ Len(client_nvec) = Len(nvec)
          /\ layer \in 1 .. Len(client_nvec)
      <4>1. TypeOK /\ ClientInv /\ LengthInv /\ desiredIndex # -1 /\ pc # "failed"
        BY <1>1 DEF ReplyInv, ClientInv
      <4> QED
        BY <1>1, <1>5, <4>1, ServedIs DEF LengthInv
    <3>2. layer' = layer + 1
      BY <1>5, <2>3 DEF decode_layer, compose_layer
    <3> DEFINE x == Len(nvec)
    <3>3. x \in {1, 2} /\ layer \in 1 .. x /\ layer < x
      BY <1>5, <3>1
    <3> HIDE DEF x
    <3>4. layer' = x /\ ~ (layer' < x)
      BY <3>2, <3>3
    <3> QED
      BY <3>4 DEF x
  <2>4. ASSUME pc' = "decoding", InnerUndone', whole'
        PROVE  (reply = <<Scaled(Plain(desiredIndex), Pow2[server_logm(1)])>>)'
    <3>1. 2 \in DOMAIN indices_
      <4>1. TypeOK /\ ClientInv /\ LengthInv /\ desiredIndex # -1 /\ pc # "failed"
        BY <1>1 DEF ReplyInv, ClientInv
      <4>2. /\ Len(nvec) \in {1, 2} /\ Len(client_nvec) = Len(nvec)
            /\ layer \in 1 .. Len(client_nvec) /\ DOMAIN indices_ = 1 .. Len(nvec)
        BY <1>1, <1>5, <4>1, ServedIs DEF LengthInv
      <4> DEFINE x == Len(nvec)
      <4>3. x \in {1, 2} /\ layer \in 1 .. x /\ layer < x
        BY <1>5, <4>2
      <4> HIDE DEF x
      <4>4. 2 \in 1 .. x
        BY <4>3
      <4> QED
        BY <4>2, <4>4 DEF x
    <3>2. left_over(2) = 1
      BY <1>2, <2>4, <3>1 DEF InnerUndone
    <3>3. reply' = <<Scaled(Plain(desiredIndex), Pow2[server_logm(1)])>>
      BY <1>5, <2>4, <3>2, FirstLayer
    <3> QED
      BY <1>1, <1>2, <3>3
  <2>5. CASE pc' = "failed"
    BY <2>2, <2>5 DEF ValueInv
  <2>6. CASE pc' = "decoding"
    <3>1. ValueInv'
      BY <1>2, <2>3, <2>4, <2>6 DEF ValueInv
    <3> QED
      BY <2>2, <3>1
  <2> QED
    BY <2>1, <2>5, <2>6
<1> QED
  BY <1>3, <1>4, <1>5

\* No step breaks it: the others leave the values alone or start anew.
LEMMA RetrievalNext ==
  ASSUME ReplyInv, ValueInv, PlaintextRetrieved, [Next]_vars
  PROVE  ValueInv' /\ PlaintextRetrieved'
<1>1. ASSUME UNCHANGED vars PROVE ValueInv' /\ PlaintextRetrieved'
  <2>1. /\ UNCHANGED <<flags, desiredIndex, indices_, inverse_scales_>>
        /\ UNCHANGED <<level, cur, intermediateCtxts, reply, layer, result, whole>> /\ pc' = pc
    BY <1>1 DEF vars, client, server, decoding
  <2> QED
    BY <2>1, ValuesKept
<1>2. ASSUME replace_database PROVE ValueInv' /\ PlaintextRetrieved'
  <2>1. /\ UNCHANGED <<flags, desiredIndex, indices_, inverse_scales_>>
        /\ UNCHANGED <<level, cur, intermediateCtxts, reply, layer, result, whole>> /\ pc' = pc
    BY <1>2 DEF replace_database, client, server, decoding
  <2> QED
    BY <2>1, ValuesKept
<1>3. ASSUME preprocess_database PROVE ValueInv' /\ PlaintextRetrieved'
  <2>1. /\ UNCHANGED <<flags, desiredIndex, indices_, inverse_scales_>>
        /\ UNCHANGED <<level, cur, intermediateCtxts, reply, layer, result, whole>>
        /\ pc' = pc \/ pc' = "failed"
    BY <1>3 DEF preprocess_database, client, server, decoding
  <2> QED
    BY <2>1, ValuesKept
<1>4. ASSUME NEW k \in 0 .. flags.client_n - 1, generate_query(k)
      PROVE  ValueInv' /\ PlaintextRetrieved'
  <2>1. pc' \in {"queried", "failed"}
    BY <1>4 DEF generate_query
  <2> QED
    BY <2>1 DEF ValueInv, PlaintextRetrieved
<1>5. ASSUME generate_reply PROVE ValueInv' /\ PlaintextRetrieved'
  <2>1. /\ pc' = "expanding" /\ level' = 1 /\ cur' = db_
        /\ UNCHANGED <<flags, desiredIndex, indices_, inverse_scales_>>
    BY <1>5 DEF generate_reply, client
  <2>2. cur' = db_' /\ pc' # "decoding" /\ pc' # "idle"
    BY <2>1, ValuesStay
  <2> QED
    BY <2>1, <2>2 DEF ValueInv, PlaintextRetrieved
<1>6. ASSUME expand PROVE ValueInv' /\ PlaintextRetrieved'
  <2>1. /\ UNCHANGED <<flags, desiredIndex, indices_, inverse_scales_>>
        /\ UNCHANGED <<level, cur, intermediateCtxts, reply, layer, result, whole>>
        /\ pc = "expanding" /\ pc' \in {"multiplying", "failed"}
    BY <1>6 DEF expand, client, decoding
  <2> QED
    BY <2>1, ValuesKept
<1>7. ASSUME multiply PROVE ValueInv' /\ PlaintextRetrieved'
  BY <1>7, MultiplyValue
<1>8. ASSUME decode_layer PROVE ValueInv' /\ PlaintextRetrieved'
  BY <1>8, DecodeValue
<1>9. ASSUME Stopped PROVE ValueInv' /\ PlaintextRetrieved'
  BY <1>1, <1>9 DEF Stopped
<1> QED
  BY <1>1, <1>2, <1>3, <1>4, <1>5, <1>6, <1>7, <1>8, <1>9 DEF Next

\* What the server selects from and the client decodes, of a query that is
\* served, are the plaintexts of the database with the digits of the words of
\* those of one column in between: generate_reply and decode_reply, followed
\* from the first multiplication to the last decryption.
THEOREM RetrievalKept == Spec => []RetrievalInv
<1>1. Init => RetrievalInv
  <2>1. Init => ValueInv
    BY DEF Init, ValueInv
  <2>2. Init => PlaintextRetrieved
    BY DEF Init, PlaintextRetrieved
  <2> QED
    BY <2>1, <2>2, ReplyInit DEF RetrievalInv
<1>2. RetrievalInv /\ [Next]_vars => RetrievalInv'
  BY ReplyNext, RetrievalNext DEF RetrievalInv
<1> QED
  BY <1>1, <1>2, PTL DEF Spec

\* A query that is served ends with the plaintext at the client's index, times
\* what the client makes of the scale of the first dimension: decode_reply gets
\* what generate_query asked for, in one dimension or two, for every database,
\* the one that gen_database fills with a single value included, every degree
\* and all moduli; in two dimensions unless the client reads coefficients behind
\* a plaintext that decrypt trimmed, and they are not zero.
THEOREM PlaintextsRetrieved == Spec => []PlaintextRetrieved
<1>1. RetrievalInv => PlaintextRetrieved
  BY DEF RetrievalInv
<1> QED
  BY <1>1, RetrievalKept, PTL

-----------------------------------------------------------------------------
\* One ciphertext is left in the last layer, and the one before it finds that of
\* the digits, if they are all there.
LEMMA DecodingFails ==
  ASSUME ReplyInv, ValueInv, decode_layer, pc' = "failed"
  PROVE  ~ Served \/ ~ InnerUndone \/ ~ whole'
<1> SUFFICES ASSUME Served, InnerUndone, whole' PROVE FALSE
  OBVIOUS
<1>1. pc = "decoding"
  BY DEF decode_layer
<1>2. Complete
  BY DEF Served, Complete
<1>3. /\ layer \in 1 .. Len(client_nvec) /\ Len(client_nvec) \in {1, 2}
      /\ Len(reply) = IF layer = Len(client_nvec) THEN 1 ELSE expansion_ratio
  BY <1>1, <1>2, FlagTypes, Matrices DEF ReplyInv, TypeOK, LengthInv
<1> DEFINE d == Len(client_nvec)
<1>4. CASE ~ (layer < d)
  <2>1. Len(reply) # 1
    BY <1>4 DEF decode_layer, finish_reply
  <2>2. d \in {1, 2} /\ layer \in 1 .. d /\ ~ (layer < d)
    BY <1>3, <1>4
  <2> HIDE DEF d
  <2>3. layer = d
    BY <2>2
  <2> QED
    BY <1>3, <2>1, <2>3 DEF d
<1>5. CASE layer < d
  <2>1. 2 \in DOMAIN indices_
    <3>1. TypeOK /\ ClientInv /\ desiredIndex # -1 /\ pc # "failed"
      BY <1>1 DEF ReplyInv, ClientInv
    <3>2. d = Len(nvec) /\ DOMAIN indices_ = 1 .. Len(nvec)
      BY <3>1, ServedIs
    <3>3. d \in {1, 2} /\ layer \in 1 .. d /\ layer < d
      BY <1>3, <1>5
    <3> HIDE DEF d
    <3>4. 2 \in 1 .. d
      BY <3>3
    <3> QED
      BY <3>2, <3>4
  <2>2. left_over(2) = 1
    BY <2>1 DEF InnerUndone
  <2>3. pc' = "decoding"
    BY <1>5, <2>2, FirstLayer
  <2> QED
    BY <2>3
<1> QED
  BY <1>4, <1>5

\* No step fails without one of these reasons.
LEMMA FailureNext ==
  ASSUME ReplyInv, ValueInv, FailureExplained, [Next]_vars
  PROVE  FailureExplained'
<1> DEFINE Explained == \/ ntt' /\ ~ is_db_preprocessed_'
                        \/ ~ Served'
                        \/ ~ InnerUndone'
                        \/ ~ whole'
<1> SUFFICES ASSUME pc' = "failed" PROVE Explained
  BY DEF FailureExplained
<1>1. ASSUME UNCHANGED vars PROVE Explained
  <2>1. /\ pc = "failed" /\ whole' = whole
        /\ UNCHANGED <<ntt, is_db_preprocessed_>>
        /\ UNCHANGED <<flags, desiredIndex, indices_, inverse_scales_>>
    BY <1>1 DEF vars, database, client, decoding
  <2>2. Served' = Served /\ InnerUndone' = InnerUndone
    BY <2>1, ValuesStay
  <2> QED
    BY <2>1, <2>2 DEF FailureExplained
<1>2. CASE replace_database
  BY <1>2 DEF replace_database, Between
<1>3. CASE preprocess_database
  BY <1>3 DEF preprocess_database, Between, database
<1>4. CASE \E k \in 0 .. flags.client_n - 1 : generate_query(k)
  BY <1>4, QueryFails
<1>5. CASE generate_reply
  BY <1>5 DEF generate_reply
<1>6. CASE expand
  <2>1. UNCHANGED <<flags, desiredIndex, indices_>>
    BY <1>6 DEF expand, client
  <2> QED
    BY <1>6, <2>1, ServedStays, ExpansionFails
<1>7. CASE multiply
  <2>1. UNCHANGED <<flags, desiredIndex, indices_>>
    BY <1>7 DEF multiply, client
  <2>2. Served' = Served
    BY <2>1, ServedStays
  <2>3. CASE wrong_form
    <3>1. ntt /\ is_db_preprocessed_ = FALSE
      BY <2>3, WrongForm
    <3> QED
      BY <1>7, <3>1 DEF multiply
  <2>4. wrong_form \/ ~ Served
    BY <1>7, MultiplyFails
  <2> QED
    BY <2>2, <2>3, <2>4
<1>8. CASE decode_layer
  <2>1. UNCHANGED <<flags, desiredIndex, indices_, inverse_scales_>>
    BY <1>8 DEF decode_layer, client
  <2>2. Served' = Served /\ InnerUndone' = InnerUndone
    BY <2>1, ValuesStay
  <2> QED
    BY <1>8, <2>2, DecodingFails
<1>9. CASE Stopped
  BY <1>1, <1>9 DEF Stopped
<1> QED
  BY <1>1, <1>2, <1>3, <1>4, <1>5, <1>6, <1>7, <1>8, <1>9 DEF Next

\* A query or its reply only fails where the code asserts or SEAL throws: on a
\* query that is not served, on a database that an earlier generate_reply
\* transformed without saying so, or on a ciphertext that was composed with the
\* wrong scale or from coefficients that a plaintext did not have.
THEOREM FailuresExplained == Spec => []FailureExplained
<1>1. Init => FailureExplained
  BY DEF Init, FailureExplained
<1>2. RetrievalInv /\ FailureExplained /\ [Next]_vars => FailureExplained'
  BY FailureNext DEF RetrievalInv
<1> QED
  BY <1>1, <1>2, RetrievalKept, PTL DEF Spec

-----------------------------------------------------------------------------
\* A number without divisors divides no product of two smaller ones: the least
\* positive m for which s divides m * x divides s, because the rest of s divided
\* by it would be a smaller one.
LEMMA PrimeProduct ==
  ASSUME NEW s \in Nat \ {0}, \A a \in 2 .. s - 1 : s % a # 0,
         NEW e \in 1 .. s - 1, NEW x \in 1 .. s - 1
  PROVE  (e * x) % s # 0
<1> SUFFICES ASSUME (e * x) % s = 0 PROVE FALSE
  OBVIOUS
<1> DEFINE S == {m \in Nat \ {0} : (m * x) % s = 0}
           m == Min(S)
<1>1. S \in SUBSET Nat /\ e \in S
  OBVIOUS
<1>2. m \in S /\ \A y \in S : m <= y
  BY <1>1, MinOf
<1>3. m \in 1 .. s - 1 /\ (m * x) % s = 0
  <2>1. m \in Nat \ {0} /\ m <= e /\ (m * x) % s = 0
    BY <1>1, <1>2
  <2> HIDE DEF m
  <2>2. m \in 1 .. s - 1
    BY <2>1
  <2> QED
    BY <2>1, <2>2
<1>4. \A y \in Nat \ {0} : (y * x) % s = 0 => m <= y
  BY <1>2
<1> HIDE DEF S, m
<1>5. m # 1
  <2>1. (1 * x) % s = x
    BY SmallMod
  <2> QED
    BY <1>3, <2>1
<1> DEFINE q == s \div m
           r == s % m
<1>6. q \in Nat /\ r \in 0 .. m - 1 /\ s = q * m + r
  <2>1. s \in Nat /\ m \in Nat \ {0}
    BY <1>3
  <2> QED
    BY ONLY <2>1, QuotientIs
<1> HIDE DEF q, r
<1>7. (r * x) % s = 0
  <2> DEFINE u == m * x
             v == u \div s
  <2>1. u \in Nat /\ v \in Nat /\ u = v * s
    <3>1. u \in Nat /\ u % s = 0
      BY <1>3
    <3> HIDE DEF u
    <3>2. v \in Nat /\ u = v * s + (u % s)
      BY <3>1, QuotientIs
    <3> HIDE DEF v
    <3>3. v * s \in Nat
      BY <3>2
    <3> QED
      BY <3>1, <3>2, <3>3
  <2>2. r * x + q * u = x * s
    <3>1. (q * m + r) * x = q * (m * x) + r * x
      BY <1>3, <1>6
    <3>2. s * x = x * s
      OBVIOUS
    <3>3. q * (m * x) \in Nat /\ r * x \in Nat
      BY <1>3, <1>6
    <3> QED
      BY <1>6, <3>1, <3>2, <3>3
  <2> HIDE DEF u, v
  <2>3. q * u = (q * v) * s
    BY <1>6, <2>1
  <2>4. r * x \in Nat /\ q * v \in Nat /\ 0 \in Nat /\ x \in Nat
    BY <1>6, <2>1
  <2>5. r * x + (q * v) * s = 0 + x * s
    <3>1. x * s \in Nat
      OBVIOUS
    <3> QED
      BY <2>2, <2>3, <3>1
  <2> DEFINE w == r * x
             z == q * v
  <2>6. w \in Nat /\ z \in Nat /\ 0 \in Nat /\ x \in Nat /\ w + z * s = 0 + x * s
    BY <2>4, <2>5
  <2> HIDE DEF w, z
  <2>7. w % s = 0 % s
    BY ONLY <2>6, s \in Nat \ {0}, SameRemainder
  <2> QED
    BY <2>7 DEF w
<1>8. r = 0
  <2>1. CASE r \in Nat \ {0}
    BY <1>3, <1>4, <1>6, <1>7, <2>1
  <2> QED
    BY <1>6, <2>1
<1>9. q * m = s /\ (q * m) % m = 0
  <2>1. m \in Nat \ {0}
    BY <1>3
  <2>2. (q * m) % m = 0
    BY <1>6, <2>1, MultipleMod
  <2> QED
    BY <1>6, <1>8, <2>1, <2>2
<1>10. m \in 2 .. s - 1 /\ s % m = 0
  BY <1>3, <1>5, <1>9
<1> QED
  BY <1>10

\* The plain modulus has no divisor but one and itself.
PlainModulusPrime == \A a \in 2 .. t - 1 : t % a # 0

\* A polynomial that is not zero is a multiple of itself only once.
LEMMA OnlyOnce ==
  ASSUME PlainModulusPrime,
         NEW f \in Poly, f # Zero, NEW c \in 0 .. t - 1, Scaled(f, c) = f
  PROVE  c = 1
<1>1. t \in Nat \ {0} /\ t >= 3 /\ N \in Nat
  BY Degree
<1>2. PICK i \in 0 .. N - 1 : f[i] # 0
  <2>1. SUFFICES ASSUME \A i \in 0 .. N - 1 : f[i] = 0 PROVE FALSE
    OBVIOUS
  <2>2. f = [i \in 0 .. N - 1 |-> f[i]] /\ 0 % t = 0
    BY <1>1 DEF Poly
  <2>3. f = Zero
    BY <2>1, <2>2 DEF Zero, Const
  <2> QED
    BY <2>3
<1> DEFINE x == f[i]
<1>3. x \in 1 .. t - 1
  <2>1. x \in 0 .. t - 1
    BY ZeroOne
  <2> QED
    BY <1>1, <1>2, <2>1
<1>4. (x * c) % t = x
  BY DEF Scaled
<1> HIDE DEF x
<1>5. c # 0
  <2>1. x * 0 = 0 /\ 0 % t = 0
    BY <1>1, <1>3
  <2> QED
    BY <1>3, <1>4, <2>1
<1>6. ASSUME c >= 2 PROVE FALSE
  <2> DEFINE e == c - 1
             y == x * c
             z == e * x
  <2>1. e \in 1 .. t - 1
    BY <1>1, <1>6
  <2>2. z % t # 0
    BY <1>1, <1>3, <2>1, PrimeProduct DEF PlainModulusPrime
  <2>3. y = z + x /\ y \in Nat /\ z \in Nat /\ x \in Nat
    BY <1>1, <1>3, <1>6
  <2> HIDE DEF e, y, z
  <2> DEFINE p == y \div t
  <2>4. p \in Nat /\ y = p * t + x
    <3>1. p \in Nat /\ y = p * t + (y % t)
      BY <1>1, <2>3, QuotientIs
    <3> QED
      BY <1>4, <3>1 DEF y
  <2> HIDE DEF p
  <2>5. z = p * t
    <3>1. p * t \in Nat
      BY <1>1, <2>4
    <3> QED
      BY <2>3, <2>4, <3>1
  <2>6. z % t = 0
    BY <1>1, <2>4, <2>5, MultipleMod
  <2> QED
    BY <2>2, <2>6
<1> QED
  BY <1>1, <1>5, <1>6

\* No plaintext that the server may be asked for is zero.
NoneIsZero ==
  \A f \in Flags :
    \A k \in 0 .. Product(get_dimensions(f.n, f.d)) - 1 : Plain(k) # Zero

\* A prime plain modulus and plaintexts that are not zero show a wrong scale of
\* the first dimension, where the scale of the second is right: what the client
\* decodes then is not the plaintext, but another multiple of it.
THEOREM WrongScalesShow ==
  ASSUME PlainModulusPrime, NoneIsZero
  PROVE  Spec => []WrongScaleShows
<1>1. ASSUME RetrievalInv, pc = "idle", desiredIndex >= 0, Served, InnerUndone, whole,
             result = Plain(desiredIndex)
      PROVE  left_over(1) = 1
  <2>1. TypeOK /\ ClientInv /\ desiredIndex # -1 /\ pc # "failed" /\ flags \in Flags
    <3>1. TypeOK /\ ClientInv
      BY <1>1 DEF RetrievalInv, ReplyInv
    <3> QED
      BY <1>1, <3>1 DEF TypeOK
  <2>2. /\ Len(nvec) \in {1, 2} /\ desiredIndex \in 0 .. Product(nvec) - 1
        /\ DOMAIN indices_ = 1 .. Len(nvec)
        /\ \A i \in 1 .. Len(nvec) :
             Pow2[server_logm(i)] \in Nat /\ inverse_scales_[i] \in Nat
    BY <1>1, <2>1, ServedIs
  <2>3. result = Scaled(Plain(desiredIndex), left_over(1))
    BY <1>1 DEF RetrievalInv, PlaintextRetrieved
  <2>4. Plain(desiredIndex) \in Poly /\ Plain(desiredIndex) # Zero
    BY <2>1, <2>2, PirReplyAssumption DEF NoneIsZero, nvec
  <2>5. left_over(1) \in 0 .. t - 1
    <3> DEFINE a == inverse_scales_[1]
               b == Pow2[server_logm(1)]
    <3>1. a \in Nat /\ b \in Nat
      <4>1. 1 \in 1 .. Len(nvec)
        BY <2>2
      <4> QED
        BY <2>2, <4>1
    <3> HIDE DEF a, b
    <3>2. a * b \in Nat /\ t \in Nat \ {0}
      BY <3>1, Degree
    <3>3. (a * b) % t \in 0 .. t - 1
      BY <3>2, QuotientIs
    <3> QED
      BY <3>3 DEF left_over, a, b
  <2> QED
    BY <1>1, <2>3, <2>4, <2>5, OnlyOnce
<1>2. RetrievalInv => WrongScaleShows
  BY <1>1 DEF WrongScaleShows
<1> QED
  BY <1>2, RetrievalKept, PTL

-----------------------------------------------------------------------------
\* What flags and coordinates promise is served, and its scales are undone: the
\* coordinates lie in the matrix, the lengths leave room for their selectors,
\* and no logarithm is stale.
LEMMA PromisedIsServed ==
  ASSUME TypeOK, ClientInv, desiredIndex # -1, desiredIndex \in promised(flags)
  PROVE  /\ Served /\ SameFlags /\ Delivered
         /\ \A i \in DOMAIN nvec : nvec[i] % N # 0 /\ ~ Stale(i)
<1>1. /\ flags \in Flags /\ flags.d \in {1, 2} /\ flags.client_d \in {1, 2}
      /\ nvec \in [1 .. flags.d -> Nat \ {0}] /\ Len(nvec) = flags.d
      /\ Len(client_nvec) = flags.client_d
  BY FlagTypes, Matrices DEF TypeOK
<1>2. /\ nvec = client_nvec
      /\ flags.via = "tcp" => Len(nvec) = 1 /\ nvec[1] <= N
      /\ dependable(compute_indices(desiredIndex, nvec), nvec)
  BY Zenon DEF promised, nvec, client_nvec
<1>3. /\ indices_ = compute_indices(desiredIndex, client_nvec)
      /\ indices_ \in [1 .. flags.client_d -> Nat] /\ Len(indices_) = flags.client_d
  BY Wanted
<1>4. dependable(indices_, nvec) /\ indices_ = compute_indices(desiredIndex, nvec)
  BY <1>2, <1>3
<1>5. DOMAIN indices_ = 1 .. Len(nvec) /\ DOMAIN nvec = 1 .. Len(nvec)
      /\ Len(indices_) = Len(nvec)
  BY <1>1, <1>2, <1>3
<1>6. N \in Nat \ {0} /\ N >= 2
  BY Degree
<1>7. ASSUME NEW i \in 1 .. Len(nvec)
      PROVE  /\ nvec[i] \in Nat \ {0} /\ nvec[i] % N >= 2
             /\ ~ (indices_[i] > 0 /\ indices_[i] % N = 0)
             /\ ~ Stale(i)
             /\ nvec[i] % N # 0
  <2>1. nvec[i] \in Nat \ {0}
    BY <1>1
  <2>2. /\ nvec[i] % N >= 2
        /\ ~ (indices_[i] > 0 /\ indices_[i] % N = 0)
        /\ \/ InLast(indices_[i], nvec[i])
           \/ \A e \in 1 .. i - 1 : InLast(indices_[e], nvec[e]) =>
                (logN - CeilLog2(nvec[e] % N)) % (2 * logt) = 0
    BY <1>4, <1>5 DEF dependable
  <2>3. ~ Stale(i)
    BY <2>2, Zenon DEF Stale
  <2>4. nvec[i] % N # 0
    <3> DEFINE x == nvec[i] % N
    <3>1. x >= 2
      BY <2>2
    <3> HIDE DEF x
    <3>2. x # 0
      BY <3>1
    <3> QED
      BY <3>2 DEF x
  <2> QED
    BY <2>1, <2>2, <2>3, <2>4
<1>8. ASSUME flags.via = "tcp"
      PROVE  Len(nvec) = 1 /\ CeilDiv(nvec[1], N) = 1
  <2>1. Len(nvec) = 1 /\ nvec[1] <= N /\ 1 \in 1 .. Len(nvec)
    BY <1>2, <1>8
  <2>2. nvec[1] \in Nat \ {0} /\ nvec[1] % N # 0
    BY <1>7, <2>1
  <2> DEFINE n == nvec[1]
             q == CeilDiv(n, N)
  <2>3. n \in Nat \ {0} /\ n <= N
    BY <2>1, <2>2
  <2> HIDE DEF n
  <2>4. q \in Nat /\ n <= q * N
    BY <1>6, <2>3, CeilDivIs
  <2>5. n <= 1 * N
    BY <1>6, <2>3
  <2>6. q <= 1
    BY <1>6, <2>3, <2>5, CeilDivLeast
  <2> HIDE DEF q
  <2>7. q # 0
    <3>1. 0 * N = 0
      BY <1>6
    <3> QED
      BY <2>3, <2>4, <3>1
  <2>8. q = 1
    BY <2>4, <2>6, <2>7
  <2> QED
    BY <2>1, <2>8 DEF q, n
<1>9. ASSUME NEW i \in 1 .. Len(nvec) PROVE Expands(i)
  <2>1. indices_[i] < nvec[i]
    <3>1. i \in 1 .. Len(client_nvec)
      BY <1>2
    <3>2. indices_[i] < client_nvec[i]
      BY <3>1, WantedInside
    <3> QED
      BY <1>2, <3>2
  <2>2. arriving(i) = CeilDiv(nvec[i], N)
    <3>1. CASE flags.via = "tcp"
      <4>1. i = 1
        BY <1>8, <3>1
      <4> QED
        BY <1>8, <3>1, <4>1 DEF arriving
    <3>2. CASE flags.via # "tcp"
      BY <1>2, <3>2 DEF arriving
    <3> QED
      BY <3>1, <3>2
  <2> DEFINE n == nvec[i]
             a == arriving(i)
             z == n % N
  <2>3. n \in Nat /\ z # 0 /\ N \in Nat \ {0}
    BY <1>6, <1>7
  <2>4. (CeilDiv(n, N) - 1) * N + (n % N) = n
    BY ONLY <2>3, NotFull DEF z
  <2>5. (a - 1) * N + z = n
    BY <2>2, <2>4
  <2> HIDE DEF a, z
  <2>6. (a - 1) * N + z >= n
    BY <2>3, <2>5
  <2> QED
    BY <1>2, <1>7, <2>1, <2>6 DEF Expands, a, z
<1>10. Served
  BY <1>2, <1>4, <1>5, <1>9 DEF Served
<1>11. Delivered
  BY <1>2, <1>5, <1>8 DEF Delivered
<1> QED
  BY <1>2, <1>5, <1>7, <1>10, <1>11 DEF SameFlags

\* So the client's scales undo those of the server.
LEMMA PromisedIsUndone ==
  ASSUME ReplyInv, desiredIndex # -1, desiredIndex \in promised(flags),
         pc \notin {"idle", "failed"}
  PROVE  \A i \in DOMAIN indices_ : left_over(i) = 1
<1>1. TypeOK /\ ClientInv
  BY DEF ReplyInv
<1>2. /\ Served /\ SameFlags /\ Delivered
      /\ \A i \in DOMAIN nvec : nvec[i] % N # 0 /\ ~ Stale(i)
  BY <1>1, PromisedIsServed
<1>3. DOMAIN indices_ = 1 .. Len(nvec) /\ DOMAIN nvec = 1 .. Len(nvec)
  <2>1. flags \in Flags
    BY <1>1 DEF TypeOK
  <2> QED
    BY <1>1, <1>2, <2>1, Wanted, Matrices DEF Served
<1>4. ASSUME NEW i \in DOMAIN indices_ PROVE left_over(i) = 1
  <2>1. i \in DOMAIN nvec /\ \A e \in 1 .. i : nvec[e] % N # 0
    BY <1>2, <1>3
  <2>2. ScalesUndone
    BY <1>1, ScalesAre
  <2> QED
    BY <1>2, <2>1, <2>2 DEF ScalesUndone
<1> QED
  BY <1>4

\* As an implication, to be used of the next state too.
LEMMA PromisesHold ==
  ReplyInv /\ desiredIndex >= 0 /\ desiredIndex \in promised(flags) => Served
<1> SUFFICES ASSUME ReplyInv, desiredIndex >= 0, desiredIndex \in promised(flags)
             PROVE  Served
  OBVIOUS
<1>1. TypeOK /\ ClientInv /\ desiredIndex # -1
  BY DEF ReplyInv
<1> QED
  BY <1>1, PromisedIsServed

\* The phases of the abstract service.
LEMMA PhasesAre ==
  /\ pc = "failed" => phase = "failed"
  /\ pc = "idle" => phase = "idle"
  /\ pc = "queried" => phase = "asked"
  /\ pc \in {"expanding", "multiplying"} =>
       phase = IF level = 1 THEN "asked" ELSE "selected"
  /\ pc = "decoding" => phase = "selected"
BY DEF phase

\* The same of the next state.
LEMMA PhasesNext ==
  /\ pc' = "failed" => phase' = "failed"
  /\ pc' = "idle" => phase' = "idle"
  /\ pc' = "queried" => phase' = "asked"
  /\ pc' \in {"expanding", "multiplying"} =>
       phase' = IF level' = 1 THEN "asked" ELSE "selected"
  /\ pc' = "decoding" => phase' = "selected"
BY DEF phase

\* What the service shows is the same.
LEMMA Unseen ==
  ASSUME UNCHANGED <<flags, desiredIndex, form, phase, got, whole>>
  PROVE  UNCHANGED Abstract!serviceVars
BY DEF Abstract!serviceVars

\* Each action is one of the service, or is not seen: a new database,
LEMMA ReplaceShown ==
  ASSUME ReplyInv, replace_database
  PROVE  Abstract!Replace
<1>1. /\ pc \in {"idle", "queried"} /\ pc' = pc /\ level' = level /\ ntt' = FALSE
      /\ UNCHANGED <<flags, desiredIndex, result, whole>>
  BY DEF replace_database, Between, client, server, decoding
<1>2. phase \in {"idle", "asked"} /\ phase' = phase
  BY <1>1, PhasesAre, PhasesNext
<1>3. form' = "raw" /\ got' = got
  BY <1>1 DEF form, got
<1> QED
  BY <1>1, <1>2, <1>3 DEF Abstract!Replace

\* its preparation, at which SEAL throws if it is spoilt,
LEMMA PrepareShown ==
  ASSUME ReplyInv, preprocess_database
  PROVE  Abstract!Prepare \/ Abstract!Fail
<1>1. /\ pc \in {"idle", "queried"} /\ ~ is_db_preprocessed_
      /\ UNCHANGED <<flags, desiredIndex, result, level, whole>>
  BY DEF preprocess_database, Between, client, server, decoding
<1>2. phase \in {"idle", "asked"}
  BY <1>1, PhasesAre
<1>3. CASE ntt
  <2>1. pc' = "failed" /\ ntt' = ntt /\ is_db_preprocessed_' = is_db_preprocessed_
    BY <1>3 DEF preprocess_database, database
  <2>2. form = "spoilt" /\ form' = form /\ got' = Zero /\ phase' = "failed"
    BY <1>1, <1>3, <2>1, PhasesNext DEF form, got
  <2> QED
    BY <1>1, <1>2, <2>2 DEF Abstract!Fail
<1>4. CASE ~ ntt
  <2>1. pc' = pc /\ ntt' = TRUE /\ is_db_preprocessed_' = TRUE
    BY <1>4 DEF preprocess_database
  <2>2. form = "raw" /\ form' = "prepared" /\ got' = got /\ phase' = phase
    BY <1>1, <1>4, <2>1, PhasesAre, PhasesNext DEF form, got
  <2> QED
    BY <1>1, <1>2, <2>2 DEF Abstract!Prepare
<1> QED
  BY <1>3, <1>4

\* a query, which cannot be made for every index,
LEMMA QueryShown ==
  ASSUME ReplyInv, ReplyInv', NEW k \in 0 .. flags.client_n - 1, generate_query(k)
  PROVE  Abstract!Ask
<1>1. /\ pc = "idle" /\ pc' \in {"queried", "failed"} /\ desiredIndex' = k
      /\ whole' = TRUE
      /\ UNCHANGED <<flags, ntt, is_db_preprocessed_>>
  BY DEF generate_query, database
<1>2. k \in Nat
  <2>1. flags.client_n \in Nat
    BY FlagTypes DEF ReplyInv, TypeOK
  <2> QED
    BY <2>1
<1>3. phase = "idle" /\ form' = form /\ got' = Zero
  BY <1>1, PhasesAre DEF form, got
<1>4. CASE pc' = "queried"
  BY <1>1, <1>2, <1>3, <1>4, PhasesNext DEF Abstract!Ask
<1>5. CASE pc' = "failed"
  <2>1. ~ Served'
    BY <1>5, QueryFails
  <2>2. (desiredIndex >= 0)'
    BY <1>1, <1>2
  <2>3. (ReplyInv /\ desiredIndex >= 0 /\ desiredIndex \in promised(flags) => Served)'
    BY PromisesHold, PTL
  <2>4. desiredIndex' \notin promised(flags)
    BY <1>1, <2>1, <2>2, <2>3
  <2> QED
    BY <1>1, <1>2, <1>3, <1>5, <2>4, PhasesNext DEF Abstract!Ask
<1> QED
  BY <1>1, <1>4, <1>5

\* its transmission, which leaves some of it behind,
LEMMA SendShown ==
  ASSUME ReplyInv, generate_reply
  PROVE  UNCHANGED Abstract!serviceVars
<1>1. /\ pc = "queried" /\ pc' = "expanding" /\ level' = 1
      /\ UNCHANGED <<flags, ntt, is_db_preprocessed_, desiredIndex, whole>>
  BY DEF generate_reply, database, client, decoding
<1>2. phase' = phase
  BY <1>1, PhasesAre, PhasesNext
<1>3. form' = form /\ got' = got
  BY <1>1 DEF form, got
<1> QED
  BY <1>1, <1>2, <1>3, Unseen

\* A query under way that is not served was not promised.
LEMMA NotPromised ==
  ASSUME ReplyInv, pc \notin {"idle", "failed"}, ~ Served
  PROVE  desiredIndex \notin promised(flags)
<1>1. TypeOK /\ ClientInv /\ desiredIndex # -1
  BY DEF ReplyInv, ClientInv
<1> QED
  BY <1>1, PromisedIsServed

\* its expansion,
LEMMA ExpandShown ==
  ASSUME ReplyInv, expand
  PROVE  Abstract!Fail \/ UNCHANGED Abstract!serviceVars
<1>1. /\ pc = "expanding" /\ pc' \in {"multiplying", "failed"}
      /\ UNCHANGED <<flags, ntt, is_db_preprocessed_, desiredIndex, level, whole>>
  BY DEF expand, database, client, decoding
<1>2. form' = form /\ got = Zero /\ got' = Zero
  BY <1>1 DEF form, got
<1>3. CASE pc' = "multiplying"
  <2>1. phase' = phase
    BY <1>1, <1>3, PhasesAre, PhasesNext
  <2> QED
    BY <1>1, <1>2, <2>1, Unseen
<1>4. CASE pc' = "failed"
  <2>1. phase \in {"asked", "selected"} /\ phase' = "failed"
    BY <1>1, <1>4, PhasesAre, PhasesNext
  <2>2. desiredIndex \notin promised(flags)
    BY <1>1, <1>4, ExpansionFails, NotPromised
  <2> QED
    BY <1>1, <1>2, <2>1, <2>2 DEF Abstract!Fail
<1> QED
  BY <1>1, <1>3, <1>4

\* its products, of which those of the first level use the database, whatever
\* the number of dimensions,
LEMMA MultiplyShown ==
  ASSUME ReplyInv, multiply
  PROVE  Abstract!Select \/ Abstract!Fail \/ UNCHANGED Abstract!serviceVars
<1>1. /\ pc = "multiplying" /\ is_db_preprocessed_' = is_db_preprocessed_
      /\ ntt' = (ntt \/ (~ is_db_preprocessed_ /\ level = 1))
      /\ UNCHANGED <<flags, desiredIndex, whole>>
  BY DEF multiply, client
<1>2. /\ ntt \in BOOLEAN /\ is_db_preprocessed_ \in BOOLEAN
      /\ is_db_preprocessed_ => ntt
      /\ level \in 0 .. 2 /\ level >= 1
  BY <1>1 DEF ReplyInv, TypeOK, LengthInv
<1>3. phase = IF level = 1 THEN "asked" ELSE "selected"
  BY <1>1, PhasesAre
<1>4. CASE pc' = "failed"
  <2>1. phase' = "failed" /\ got' = Zero
    BY <1>4, PhasesNext DEF got
  <2>2. form' \in {form, "spoilt"}
    BY <1>1, <1>2 DEF form
  <2>3. CASE wrong_form
    <3>1. form = "spoilt"
      BY <2>3, WrongForm DEF form
    <3>2. phase = "asked"
      BY <1>3, <2>3 DEF wrong_form
    <3> QED
      BY <1>1, <2>1, <2>2, <3>1, <3>2 DEF Abstract!Fail
  <2>4. CASE ~ Served
    <3>1. desiredIndex \notin promised(flags)
      BY <1>1, <2>4, NotPromised
    <3> QED
      BY <1>1, <1>3, <2>1, <2>2, <3>1 DEF Abstract!Fail
  <2> QED
    BY <1>4, <2>3, <2>4, MultiplyFails
<1>5. CASE pc' # "failed"
  <2>1. /\ ~ wrong_form
        /\ pc' = "decoding" \/ (pc' = "expanding" /\ level' = level + 1)
    BY <1>5, Zenon DEF multiply, finish_level
  <2>2. phase' = "selected" /\ got' = Zero /\ got = Zero
    <3>1. level + 1 # 1
      BY <1>2
    <3> QED
      BY <1>1, <2>1, <3>1, PhasesNext DEF got
  <2>3. CASE level = 1
    <3>1. ntt = is_db_preprocessed_
      BY <1>2, <2>1, <2>3 DEF wrong_form
    <3>2. form # "spoilt" /\ form' = IF form = "raw" THEN "spoilt" ELSE form
      BY <1>1, <1>2, <2>3, <3>1 DEF form
    <3> QED
      BY <1>1, <1>3, <2>2, <2>3, <3>2 DEF Abstract!Select
  <2>4. CASE level # 1
    <3>1. form' = form
      BY <1>1, <1>2, <2>4 DEF form
    <3> QED
      BY <1>1, <1>3, <2>2, <2>4, <3>1, Unseen
  <2> QED
    BY <2>3, <2>4
<1> QED
  BY <1>4, <1>5

\* and its decoding: what is decoded in the end is the plaintext promised, unless
\* the ciphertexts between the layers were composed of too little.
LEMMA DecodeShown ==
  ASSUME ReplyInv, ValueInv, PlaintextRetrieved', decode_layer
  PROVE  \/ Abstract!Damage \/ Abstract!Answer \/ Abstract!Fail
         \/ UNCHANGED Abstract!serviceVars
<1>1. /\ pc = "decoding" /\ pc' \in {"decoding", "idle", "failed"}
      /\ UNCHANGED <<flags, ntt, is_db_preprocessed_, desiredIndex, indices_, inverse_scales_>>
  BY DEF decode_layer, compose_layer, finish_reply, database, client
<1>2. form' = form /\ phase = "selected"
  BY <1>1, PhasesAre DEF form
<1>3. whole' = whole \/ (fragile(flags) /\ whole' = FALSE)
  <2>1. CASE layer < Len(client_nvec)
    <3>1. layer \in 1 .. Len(client_nvec)
      BY <1>1 DEF ReplyInv, LengthInv
    <3>2. flags.client_d \in {1, 2} /\ Len(client_nvec) = flags.client_d
      BY FlagTypes, Matrices DEF ReplyInv, TypeOK
    <3>3. fragile(flags)
      BY <2>1, <3>1, <3>2 DEF fragile
    <3>4. whole \in BOOLEAN
      BY DEF ReplyInv, TypeOK
    <3>5. PICK overread \in SUBSET {g \in groups : trimmed(g)} :
            whole' = (whole /\ overread = {})
      BY <2>1, LayerComposed, Zenon
    <3> QED
      BY <3>3, <3>4, <3>5, Zenon
  <2>2. CASE ~ (layer < Len(client_nvec))
    BY <2>2 DEF decode_layer, finish_reply
  <2> QED
    BY <2>1, <2>2
<1>4. /\ Served' = Served /\ InnerUndone' = InnerUndone
      /\ \A i : left_over(i)' = left_over(i)
  BY <1>1, ValuesStay
<1>5. ASSUME desiredIndex \in promised(flags)
      PROVE  /\ flags \in Flags /\ desiredIndex # -1
             /\ Served /\ InnerUndone
             /\ \A i \in DOMAIN indices_ : left_over(i) = 1
  <2>1. TypeOK /\ ClientInv /\ desiredIndex # -1 /\ flags \in Flags
    BY <1>1 DEF ReplyInv, ClientInv, TypeOK
  <2>2. Served /\ \A i \in DOMAIN indices_ : left_over(i) = 1
    BY <1>1, <1>5, <2>1, PromisedIsServed, PromisedIsUndone
  <2> QED
    BY <2>1, <2>2 DEF InnerUndone
<1>6. CASE pc' = "decoding"
  <2>1. phase' = phase /\ got' = got
    BY <1>1, <1>6, PhasesAre, PhasesNext DEF got
  <2>2. CASE whole' = whole
    BY <1>1, <1>2, <2>1, <2>2, Unseen
  <2>3. CASE fragile(flags) /\ whole' = FALSE
    BY <1>1, <1>2, <2>1, <2>3 DEF Abstract!Damage
  <2> QED
    BY <1>3, <2>2, <2>3
<1>7. CASE pc' = "failed"
  <2>1. phase' = "failed" /\ got' = Zero
    BY <1>7, PhasesNext DEF got
  <2>2. desiredIndex \notin promised(flags) \/ ~ whole'
    BY <1>5, <1>7, DecodingFails
  <2> QED
    BY <1>1, <1>2, <1>3, <2>1, <2>2 DEF Abstract!Fail
<1>8. CASE pc' = "idle"
  <2>1. phase' = "idle" /\ got' = result'
    BY <1>8, PhasesNext DEF got
  <2>2. ~ (layer < Len(client_nvec))
    BY <1>1, <1>8 DEF decode_layer, compose_layer
  <2>3. whole' = whole
    BY <2>2 DEF decode_layer, finish_reply
  <2>4. ASSUME desiredIndex \in promised(flags), whole PROVE got' = Plain(desiredIndex)
    <3>1. TypeOK /\ ClientInv
      BY DEF ReplyInv
    <3>2. /\ Len(nvec) \in {1, 2} /\ DOMAIN indices_ = 1 .. Len(nvec)
          /\ desiredIndex \in 0 .. Product(nvec) - 1
      BY <1>1, <1>5, <2>4, <3>1, ServedIs
    <3>3. left_over(1) = 1
      <4>1. 1 \in 1 .. Len(nvec)
        BY <3>2
      <4> QED
        BY <1>5, <2>4, <3>2, <4>1
    <3>4. desiredIndex' >= 0
      BY <1>1, <3>2
    <3>5. Served' /\ InnerUndone' /\ whole' /\ left_over(1)' = 1
      BY <1>4, <1>5, <2>3, <2>4, <3>3
    <3>6. result' = Scaled(Plain(desiredIndex), 1)
      BY <1>1, <1>8, <3>4, <3>5 DEF PlaintextRetrieved
    <3>7. Plain(desiredIndex) \in Poly
      BY <1>5, <2>4, <3>2, PlainIs
    <3> QED
      BY <2>1, <3>6, <3>7, ScaledByOne
  <2> QED
    BY <1>1, <1>2, <2>1, <2>3, <2>4 DEF Abstract!Answer
<1> QED
  BY <1>1, <1>6, <1>7, <1>8

\* Each step is one of the service, or not seen.
LEMMA ServiceStep ==
  RetrievalInv /\ RetrievalInv' /\ [Next]_vars
    => [Abstract!ServiceNext]_(Abstract!serviceVars)
<1> SUFFICES ASSUME RetrievalInv, RetrievalInv', [Next]_vars
             PROVE  Abstract!ServiceNext \/ UNCHANGED Abstract!serviceVars
  OBVIOUS
<1>1. ReplyInv /\ ReplyInv' /\ ValueInv /\ PlaintextRetrieved'
  BY DEF RetrievalInv
<1>2. ASSUME UNCHANGED vars PROVE UNCHANGED Abstract!serviceVars
  <2>1. UNCHANGED <<flags, desiredIndex, pc, level, result, whole, ntt, is_db_preprocessed_>>
    BY <1>2 DEF vars, database, client, server, decoding
  <2>2. UNCHANGED <<form, phase, got>>
    BY <2>1 DEF form, phase, got
  <2> QED
    BY <2>1, <2>2, Unseen
<1>3. CASE replace_database
  BY <1>1, <1>3, ReplaceShown DEF Abstract!ServiceNext
<1>4. CASE preprocess_database
  BY <1>1, <1>4, PrepareShown DEF Abstract!ServiceNext
<1>5. CASE \E k \in 0 .. flags.client_n - 1 : generate_query(k)
  BY <1>1, <1>5, QueryShown DEF Abstract!ServiceNext
<1>6. CASE generate_reply
  BY <1>1, <1>6, SendShown
<1>7. CASE expand
  BY <1>1, <1>7, ExpandShown DEF Abstract!ServiceNext
<1>8. CASE multiply
  BY <1>1, <1>8, MultiplyShown DEF Abstract!ServiceNext
<1>9. CASE decode_layer
  BY <1>1, <1>9, DecodeShown DEF Abstract!ServiceNext
<1>10. CASE Stopped
  BY <1>2, <1>10 DEF Stopped
<1> QED
  BY <1>2, <1>3, <1>4, <1>5, <1>6, <1>7, <1>8, <1>9, <1>10 DEF Next

\* PIRClient and PIRServer are a plaintext service, whatever the database, the
\* dimensions, the degree and the moduli: an index that the flags promise is
\* answered with its plaintext, whatever was replaced and preprocessed before;
\* only a spoilt database or an index that is not promised fails; and after the
\* first level a spoilt database does no more harm.  Columns of the database may
\* be equal, as those of gen_database all are.  A client of two dimensions can
\* damage the reply, where it reads behind a plaintext that decrypt trimmed.
THEOREM RetrievalImplemented == Spec => ImplementsPlaintextService
<1>1. Init => Abstract!ServiceInit
  <2> SUFFICES ASSUME Init PROVE Abstract!ServiceInit
    OBVIOUS
  <2>1. pc = "idle" /\ ntt = TRUE /\ is_db_preprocessed_ = TRUE /\ desiredIndex = -1
        /\ result = Zero /\ whole = TRUE
    BY DEF Init
  <2> QED
    BY <2>1, PhasesAre DEF form, got, Abstract!ServiceInit
<1>2. RetrievalInv /\ RetrievalInv' /\ [Next]_vars
        => [Abstract!ServiceNext]_(Abstract!serviceVars)
  BY ServiceStep
<1> QED
  BY <1>1, <1>2, RetrievalKept, PTL
     DEF Spec, ImplementsPlaintextService, Abstract!Service

\* What the service keeps.
LEMMA ServiceKeeps ==
  Abstract!Kept /\ [Abstract!ServiceNext]_(Abstract!serviceVars) => Abstract!Kept'
<1> SUFFICES ASSUME Abstract!Kept, [Abstract!ServiceNext]_(Abstract!serviceVars)
             PROVE  Abstract!Kept'
  OBVIOUS
<1>1. CASE Abstract!Replace
  <2>1. /\ phase' = phase /\ phase # "failed"
        /\ UNCHANGED <<flags, desiredIndex, got, whole>>
    BY <1>1 DEF Abstract!Replace
  <2> QED
    BY <2>1 DEF Abstract!Kept
<1>2. CASE Abstract!Prepare
  <2>1. /\ phase' = phase /\ phase # "failed"
        /\ UNCHANGED <<flags, desiredIndex, got, whole>>
    BY <1>2 DEF Abstract!Prepare
  <2> QED
    BY <2>1 DEF Abstract!Kept
<1>3. CASE Abstract!Ask
  <2>1. /\ desiredIndex' \in Nat /\ flags' = flags /\ whole' = TRUE
        /\ \/ phase' = "asked"
           \/ phase' = "failed" /\ desiredIndex' \notin promised(flags)
    BY <1>3 DEF Abstract!Ask
  <2> QED
    BY <2>1 DEF Abstract!Kept
<1>4. CASE Abstract!Select
  <2>1. /\ phase = "asked" /\ phase' = "selected"
        /\ UNCHANGED <<flags, desiredIndex, whole>>
    BY <1>4 DEF Abstract!Select
  <2> QED
    BY <2>1 DEF Abstract!Kept
<1>5. CASE Abstract!Damage
  <2>1. /\ phase = "selected" /\ phase' = "selected" /\ fragile(flags)
        /\ UNCHANGED <<flags, desiredIndex>>
    BY <1>5 DEF Abstract!Damage
  <2> QED
    BY <2>1 DEF Abstract!Kept
<1>6. CASE Abstract!Answer
  <2>1. /\ phase' = "idle" /\ UNCHANGED <<flags, desiredIndex, whole>>
        /\ desiredIndex \in promised(flags) /\ whole => got' = Plain(desiredIndex)
    BY <1>6 DEF Abstract!Answer
  <2> QED
    BY <2>1 DEF Abstract!Kept
<1>7. CASE Abstract!Fail
  <2>1. /\ phase' = "failed" /\ form' \in {form, "spoilt"}
        /\ UNCHANGED <<flags, desiredIndex>>
        /\ whole' = whole \/ fragile(flags)
        /\ \/ form = "spoilt"
           \/ phase \in {"asked", "selected"} /\ desiredIndex \notin promised(flags)
           \/ ~ whole'
    BY <1>7 DEF Abstract!Fail
  <2> QED
    BY <2>1 DEF Abstract!Kept
<1>8. CASE UNCHANGED Abstract!serviceVars
  <2>1. UNCHANGED <<flags, form, phase, desiredIndex, got, whole>>
    BY <1>8 DEF Abstract!serviceVars
  <2> QED
    BY <2>1 DEF Abstract!Kept
<1> QED
  BY <1>1, <1>2, <1>3, <1>4, <1>5, <1>6, <1>7, <1>8 DEF Abstract!ServiceNext

\* All indices of a row of one ciphertext are promised via TCP.
LEMMA OneCiphertextPromised ==
  ASSUME flags \in Flags, OneCiphertext, NEW k \in 0 .. flags.client_n - 1
  PROVE  k \in promised(flags)
<1>1. /\ flags.n \in Nat \ {0} /\ flags.d \in {1, 2} /\ flags.client_n \in Nat \ {0}
      /\ nvec \in [1 .. flags.d -> Nat \ {0}] /\ Len(nvec) = flags.d
      /\ client_nvec = nvec /\ Len(nvec) = 1 /\ nvec[1] < N /\ N \in Nat \ {0}
  BY FlagTypes, Matrices, Degree DEF OneCiphertext, SameFlags
<1> DEFINE s == nvec[1]
           at == compute_indices(k, nvec)
<1>2. s \in Nat /\ s >= 2 /\ s < N /\ k \in Nat
  BY <1>1, SidesFromTwo DEF nvec
<1>3. s % N = s
  BY <1>1, <1>2, SmallMod
<1>4. DOMAIN at = {1} /\ at[1] = k
  <2>1. at[1] = k
    BY <1>1, <1>2, OneCoordinate
  <2>2. DOMAIN at = 1 .. Len(nvec)
    BY Zenon DEF compute_indices
  <2> QED
    BY <1>1, <2>1, <2>2
<1>5. k < s
  <2>1. Product(nvec) = s
    BY <1>1, ProductOfOne
  <2>2. flags.client_n <= Product(nvec)
    BY <1>1, Matrices
  <2> QED
    BY <1>1, <1>2, <2>1, <2>2
<1>6. k % N = k
  BY <1>1, <1>2, <1>5, SmallMod
<1>7. dependable(at, nvec)
  <2>1. ASSUME NEW i \in DOMAIN at
        PROVE  /\ nvec[i] % N >= 2
               /\ ~ (at[i] > 0 /\ at[i] % N = 0)
               /\ 1 .. i - 1 = {}
    BY <1>2, <1>3, <1>4, <1>6
  <2> QED
    BY <2>1, Zenon DEF dependable
<1>8. Len(nvec) = 1 /\ nvec[1] <= N
  BY <1>1, <1>2
<1> QED
  BY <1>1, <1>7, <1>8, Zenon DEF promised, nvec, client_nvec

\* The programs with the same flags serve every query, one after the other: by
\* the service they implement, because via TCP the database is prepared once
\* and for all, and because in one dimension a reply cannot be damaged.
THEOREM ProgramsServe == Spec => []ProgramServes
<1> DEFINE Inv == Abstract!Kept /\ (flags.via = "tcp" => ntt /\ is_db_preprocessed_)
<1>1. Init => Inv
  <2> SUFFICES ASSUME Init PROVE Inv
    OBVIOUS
  <2>1. /\ pc = "idle" /\ ntt = TRUE /\ is_db_preprocessed_ = TRUE /\ desiredIndex = -1
        /\ whole = TRUE
    BY DEF Init
  <2>2. phase = "idle" /\ desiredIndex \notin Nat
    BY <2>1, PhasesAre
  <2> QED
    BY <2>1, <2>2 DEF Abstract!Kept
<1>2. RetrievalInv /\ RetrievalInv' /\ Inv /\ [Next]_vars => Inv'
  <2> SUFFICES ASSUME RetrievalInv, RetrievalInv', Inv, [Next]_vars PROVE Inv'
    OBVIOUS
  <2>1. Abstract!Kept'
    BY ServiceStep, ServiceKeeps
  <2>2. ASSUME flags'.via = "tcp" PROVE ntt' /\ is_db_preprocessed_'
    <3>1. flags' = flags
      BY Zenon DEF Next, Stopped, vars, replace_database, preprocess_database,
                   generate_query, generate_reply, expand, multiply, decode_layer
    <3>2. flags.via = "tcp" /\ ntt /\ is_db_preprocessed_
      BY <2>2, <3>1
    <3>3. CASE multiply
      BY <3>2, <3>3 DEF multiply
    <3>4. CASE UNCHANGED database
      BY <3>2, <3>4 DEF database
    <3>5. ~ replace_database /\ ~ preprocess_database
      BY <3>2 DEF replace_database, preprocess_database, Between
    <3>6. multiply \/ UNCHANGED database
      BY <3>5, Zenon
         DEF Next, Stopped, vars, generate_query, generate_reply, expand, decode_layer
    <3> QED
      BY <3>3, <3>4, <3>6
  <2> QED
    BY <2>1, <2>2
<1>3. RetrievalInv /\ Inv => ProgramServes
  <2> SUFFICES ASSUME RetrievalInv, Inv, OneCiphertext
               PROVE  /\ pc # "failed"
                      /\ pc = "idle" /\ desiredIndex >= 0 => result = Plain(desiredIndex)
    BY DEF ProgramServes
  <2>1. TypeOK /\ ClientInv /\ flags \in Flags
    BY DEF RetrievalInv, ReplyInv, TypeOK
  <2>2. ASSUME desiredIndex \in Nat
        PROVE  desiredIndex \in promised(flags)
    <3>1. desiredIndex # -1
      BY <2>2
    <3> QED
      BY <2>1, <3>1, Wanted, OneCiphertextPromised
  <2>3. form = "prepared"
    BY DEF form, OneCiphertext
  <2>4. whole
    <3>1. flags.client_d = 1
      BY <2>1, Matrices DEF OneCiphertext, SameFlags
    <3>2. ~ fragile(flags)
      BY <3>1 DEF fragile
    <3> QED
      BY <3>2, Zenon DEF Abstract!Kept
  <2>5. pc # "failed"
    BY <2>2, <2>3, <2>4, PhasesAre DEF Abstract!Kept
  <2>6. ASSUME pc = "idle", desiredIndex >= 0 PROVE result = Plain(desiredIndex)
    <3>1. desiredIndex \in Nat
      BY <2>1, <2>6 DEF TypeOK
    <3> QED
      BY <2>2, <2>4, <2>6, <3>1, PhasesAre DEF Abstract!Kept, got
  <2> QED
    BY <2>5, <2>6
<1> HIDE DEF Inv
<1> QED
  BY <1>1, <1>2, <1>3, RetrievalKept, PTL DEF Spec
=============================================================================
