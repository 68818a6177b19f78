-------------------------- MODULE ArithmeticLemmas --------------------------
(***************************************************************************)
(* What the proofs about packing, the matrix and queries need to know of   *)
(* numbers: quotients and remainders, powers of two, and the functions of  *)
(* PirParams for the one or two dimensions there are.                      *)
(***************************************************************************)
EXTENDS PirParams, Powers, SequenceTheorems, WellFoundedInduction, TLAPS

-----------------------------------------------------------------------------
\* The quotient rounded up is the least number of b that reach a.
LEMMA CeilDivIs ==
  ASSUME NEW a \in Nat, NEW b \in Nat \ {0}
  PROVE  /\ CeilDiv(a, b) \in Nat
         /\ a <= CeilDiv(a, b) * b
         /\ CeilDiv(a, b) * b < a + b
<1> DEFINE q == (a + b - 1) \div b
<1>1. a + b - 1 \in Nat
  OBVIOUS
<1>2. q \in Nat /\ q * b <= a + b - 1 /\ a + b - 1 < q * b + b
  BY <1>1
<1>3. q * b \in Nat
  BY <1>2
<1> HIDE DEF q
<1> QED
  BY <1>2, <1>3 DEF CeilDiv, q

\* No number of b less than that reaches a.
LEMMA CeilDivLeast ==
  ASSUME NEW a \in Nat, NEW b \in Nat \ {0}, NEW c \in Nat, a <= c * b
  PROVE  CeilDiv(a, b) <= c
<1> DEFINE q == CeilDiv(a, b)
<1>1. q \in Nat /\ q * b < a + b
  BY CeilDivIs
<1> HIDE DEF q
<1>2. q * b < (c + 1) * b
  <2>1. (c + 1) * b = c * b + b /\ c * b \in Nat /\ q * b \in Nat
    BY <1>1
  <2> QED
    BY <1>1, <2>1
<1>3. q < c + 1
  <2>1. ASSUME q >= c + 1 PROVE q * b >= (c + 1) * b
    BY <1>1, <2>1
  <2>2. q * b \in Nat /\ (c + 1) * b \in Nat
    BY <1>1
  <2> QED
    BY <1>1, <1>2, <2>1, <2>2
<1> QED
  BY <1>1, <1>3 DEF q

\* The quotient is what b goes into a.
LEMMA QuotientIs ==
  ASSUME NEW a \in Nat, NEW b \in Nat \ {0}
  PROVE  /\ a \div b \in Nat /\ a % b \in 0 .. b - 1
         /\ a = (a \div b) * b + (a % b)
OBVIOUS

\* Multiples grow with what is multiplied.
LEMMA TimesMonotone ==
  ASSUME NEW a \in Nat, NEW b \in Nat, NEW c \in Nat, a <= b
  PROVE  a * c <= b * c /\ c * a <= c * b
<1>1. a * c <= b * c
  OBVIOUS
<1>2. a * c = c * a /\ b * c = c * b
  OBVIOUS
<1> QED
  BY <1>1, <1>2

\* What determines quotient and remainder.
LEMMA DivIs ==
  ASSUME NEW b \in Nat \ {0}, NEW q \in Nat, NEW r \in 0 .. b - 1,
         NEW a, a = q * b + r
  PROVE  a \div b = q /\ a % b = r
<1> DEFINE d == a \div b
           m == a % b
<1>1. q * b \in Nat /\ a \in Nat
  OBVIOUS
<1>2. d \in Nat /\ m \in 0 .. b - 1 /\ a = d * b + m
  BY <1>1, QuotientIs
<1> HIDE DEF d, m
<1>3. d * b \in Nat
  BY <1>2
<1>4. ~ (d >= q + 1)
  <2>1. ASSUME d >= q + 1 PROVE d * b >= q * b + b
    <3>1. d * b >= (q + 1) * b
      BY <1>2, <2>1
    <3>2. (q + 1) * b = q * b + b
      OBVIOUS
    <3> QED
      BY <3>1, <3>2
  <2> DEFINE x == d * b
             y == q * b
  <2>2. x \in Nat /\ y \in Nat /\ y + r = x + m
    BY <1>1, <1>2, <1>3
  <2>3. d >= q + 1 => x >= y + b
    BY <2>1
  <2> HIDE DEF x, y
  <2> QED
    BY <1>2, <2>2, <2>3
<1>5. ~ (q >= d + 1)
  <2>1. ASSUME q >= d + 1 PROVE q * b >= d * b + b
    <3>1. q * b >= (d + 1) * b
      BY <1>2, <2>1
    <3>2. (d + 1) * b = d * b + b
      BY <1>2
    <3> QED
      BY <3>1, <3>2
  <2> DEFINE x == d * b
             y == q * b
  <2>2. x \in Nat /\ y \in Nat /\ y + r = x + m
    BY <1>1, <1>2, <1>3
  <2>3. q >= d + 1 => y >= x + b
    BY <2>1
  <2> HIDE DEF x, y
  <2> QED
    BY <1>2, <2>2, <2>3
<1>6. d = q
  BY <1>2, <1>4, <1>5
<1>7. m = r
  BY <1>1, <1>2, <1>6
<1> QED
  BY <1>6, <1>7 DEF d, m

\* A multiple leaves no remainder.
LEMMA MultipleMod ==
  ASSUME NEW m \in Nat, NEW s \in Nat \ {0}
  PROVE  (m * s) % s = 0
<1>1. m * s = m * s + 0 /\ 0 \in 0 .. s - 1
  OBVIOUS
<1> QED
  BY <1>1, DivIs

\* The next number is in the set if the last one is: then all of them are.
LEMMA Induction ==
  ASSUME NEW S \in SUBSET Nat, 0 \in S, \A n \in S : n + 1 \in S
  PROVE  S = Nat
<1> DEFINE T == Nat \ S
           less == OpToRel(<, Nat)
<1>1. ASSUME T # {} PROVE FALSE
  <2>1. \E m \in T : \A y \in T : ~ (<<y, m>> \in less)
    <3>1. T \subseteq Nat
      OBVIOUS
    <3> HIDE DEF T
    <3> QED
      BY <1>1, <3>1, NatLessThanWellFounded, WFMin
  <2>2. PICK m \in T : \A y \in T : ~ (<<y, m>> \in less)
    BY <2>1
  <2>3. m \in Nat /\ m # 0 /\ m \notin S
    OBVIOUS
  <2>4. m - 1 \in Nat /\ <<m - 1, m>> \in less /\ (m - 1) + 1 = m
    BY <2>3 DEF OpToRel
  <2>5. m - 1 \in S
    BY <2>2, <2>4
  <2> QED
    BY <2>3, <2>4, <2>5
<1> QED
  BY <1>1

-----------------------------------------------------------------------------
\* The equation of Pow2 has a solution: the first n + 1 powers exist for each
\* n, by induction, and are the same ones in all of these.
LEMMA Pow2Is ==
  /\ Pow2[0] = 1
  /\ \A n \in Nat : Pow2[n + 1] = 2 * Pow2[n]
<1> DEFINE F(f) == [n \in Nat |-> IF n = 0 THEN 1 ELSE 2 * f[n - 1]]
           Upto(h, n) == /\ h \in [0 .. n -> Nat] /\ h[0] = 1
                         /\ \A i \in 0 .. n - 1 : h[i + 1] = 2 * h[i]
           P(n) == \E h : Upto(h, n)
           Q(i) == \A m, n \in Nat : \A g, h :
                     i <= m /\ i <= n /\ Upto(g, m) /\ Upto(h, n) => g[i] = h[i]
<1>1. \A n \in Nat : P(n)
  <2> DEFINE S == {n \in Nat : P(n)}
  <2>1. 0 \in S
    <3>1. Upto([i \in 0 .. 0 |-> 1], 0)
      OBVIOUS
    <3> QED
      BY <3>1
  <2>2. ASSUME NEW n \in S PROVE n + 1 \in S
    <3>1. PICK h : Upto(h, n)
      BY <2>2
    <3> DEFINE g == [i \in 0 .. n + 1 |-> IF i <= n THEN h[i] ELSE 2 * h[n]]
    <3>2. g \in [0 .. n + 1 -> Nat] /\ g[0] = 1
      BY <3>1
    <3>3. \A i \in 0 .. (n + 1) - 1 : g[i + 1] = 2 * g[i]
      <4>1. ASSUME NEW i \in 0 .. (n + 1) - 1 PROVE g[i + 1] = 2 * g[i]
        <5>1. CASE i = n
          BY <3>1, <5>1
        <5>2. CASE i # n
          <6>1. i \in 0 .. n - 1 /\ i + 1 \in 0 .. n /\ i \in 0 .. n
            BY <5>2
          <6> QED
            BY <3>1, <6>1
        <5> QED
          BY <5>1, <5>2
      <4> QED
        BY <4>1
    <3>4. Upto(g, n + 1)
      BY <3>2, <3>3
    <3> HIDE DEF Upto, g
    <3>5. P(n + 1)
      BY <3>4
    <3> QED
      BY <3>5
  <2> HIDE DEF P
  <2>3. S = Nat
    <3> HIDE DEF S
    <3>1. S \in SUBSET Nat
      BY DEF S
    <3> QED
      BY <2>1, <2>2, <3>1, Induction
  <2> QED
    BY <2>3
<1>2. \A i \in Nat : Q(i)
  <2> DEFINE S == {i \in Nat : Q(i)}
  <2>1. 0 \in S
    OBVIOUS
  <2>2. ASSUME NEW i \in S PROVE i + 1 \in S
    <3>1. ASSUME NEW m \in Nat, NEW n \in Nat, NEW g, NEW h,
                 i + 1 <= m, i + 1 <= n, Upto(g, m), Upto(h, n)
          PROVE  g[i + 1] = h[i + 1]
      <4>1. i \in 0 .. m - 1 /\ i \in 0 .. n - 1 /\ i <= m /\ i <= n
        BY <3>1
      <4>2. g[i] = h[i]
        <5>1. Q(i)
          OBVIOUS
        <5> HIDE DEF Upto
        <5> QED
          BY <3>1, <4>1, <5>1
      <4>3. g[i + 1] = 2 * g[i] /\ h[i + 1] = 2 * h[i]
        BY <3>1, <4>1
      <4> QED
        BY <4>2, <4>3
    <3> HIDE DEF Upto
    <3> QED
      BY <3>1
  <2> HIDE DEF Q
  <2>3. S = Nat
    <3> HIDE DEF S
    <3>1. S \in SUBSET Nat
      BY DEF S
    <3> QED
      BY <2>1, <2>2, <3>1, Induction
  <2> QED
    BY <2>3
<1> DEFINE first(n) == CHOOSE h : Upto(h, n)
           g == [n \in Nat |-> first(n)[n]]
<1>3. \A n \in Nat : Upto(first(n), n)
  <2> HIDE DEF Upto
  <2> QED
    BY <1>1
<1> HIDE DEF first
<1>4. g[0] = 1
  BY <1>3
<1>5. ASSUME NEW n \in Nat PROVE g[n + 1] = 2 * g[n]
  <2>1. Upto(first(n + 1), n + 1) /\ Upto(first(n), n) /\ n + 1 \in Nat
    BY <1>3
  <2>2. first(n + 1)[n] = first(n)[n]
    <3> HIDE DEF Upto
    <3>1. n <= n + 1 /\ n <= n
      OBVIOUS
    <3> QED
      BY <1>2, <2>1, <3>1
  <2>3. first(n + 1)[n + 1] = 2 * first(n + 1)[n]
    <3>1. n \in 0 .. (n + 1) - 1
      OBVIOUS
    <3> QED
      BY <2>1, <3>1
  <2> QED
    BY <2>1, <2>2, <2>3
<1>6. g = F(g)
  <2> HIDE DEF g
  <2>1. ASSUME NEW n \in Nat PROVE g[n] = F(g)[n]
    <3>1. CASE n = 0
      BY <1>4, <3>1
    <3>2. CASE n # 0
      <4>1. n - 1 \in Nat /\ (n - 1) + 1 = n
        BY <3>2
      <4>2. g[(n - 1) + 1] = 2 * g[n - 1]
        BY <1>5, <4>1
      <4> QED
        BY <3>2, <4>1, <4>2
    <3> QED
      BY <3>1, <3>2
  <2>2. F(g) = [n \in Nat |-> F(g)[n]]
    OBVIOUS
  <2>3. g = [n \in Nat |-> g[n]]
    BY DEF g
  <2> HIDE DEF F
  <2> QED
    BY <2>1, <2>2, <2>3
<1> DEFINE p == CHOOSE f : f = F(f)
<1>7. p = F(p)
  <2> HIDE DEF F, g
  <2> QED
    BY <1>6
<1>8. Pow2 = p
  BY DEF Pow2
<1> HIDE DEF p
<1>9. \A n \in Nat : n + 1 # 0 /\ (n + 1) - 1 = n /\ n + 1 \in Nat
  OBVIOUS
<1> QED
  BY <1>7, <1>8, <1>9

\* Powers of two are positive, and even but for the first.
LEMMA Pow2Type ==
  \A n \in Nat : Pow2[n] \in Nat \ {0}
<1> DEFINE S == {n \in Nat : Pow2[n] \in Nat \ {0}}
<1>1. 0 \in S
  BY Pow2Is
<1>2. ASSUME NEW n \in S PROVE n + 1 \in S
  <2>1. Pow2[n + 1] = 2 * Pow2[n] /\ Pow2[n] \in Nat \ {0}
    BY Pow2Is
  <2> DEFINE x == Pow2[n]
  <2>2. x \in Nat \ {0}
    BY <2>1
  <2> HIDE DEF x
  <2>3. 2 * x \in Nat \ {0}
    BY <2>2
  <2> QED
    BY <2>1, <2>3 DEF x
<1>3. S = Nat
  <2>1. S \in SUBSET Nat
    OBVIOUS
  <2> HIDE DEF S
  <2> QED
    BY <1>1, <1>2, <2>1, Induction
<1> QED
  BY <1>3

\* Shifting by m and then by n bits.
LEMMA Pow2Sum ==
  ASSUME NEW m \in Nat, NEW n \in Nat
  PROVE  Pow2[m + n] = Pow2[m] * Pow2[n]
<1> DEFINE S == {k \in Nat : Pow2[m + k] = Pow2[m] * Pow2[k]}
           a == Pow2[m]
<1>1. a \in Nat
  BY Pow2Type
<1>2. 0 \in S
  <2>1. m + 0 = m /\ a * 1 = a
    BY <1>1
  <2> QED
    BY <2>1, Pow2Is
<1>3. ASSUME NEW k \in S PROVE k + 1 \in S
  <2> DEFINE b == Pow2[k]
             c == Pow2[m + k]
  <2>1. k \in Nat /\ c = a * b
    OBVIOUS
  <2>2. Pow2[k + 1] = 2 * b
    BY <2>1, Pow2Is
  <2>3. m + k \in Nat /\ m + (k + 1) = (m + k) + 1
    BY <2>1
  <2>4. Pow2[m + (k + 1)] = 2 * c
    BY <2>3, Pow2Is
  <2>5. b \in Nat
    BY <2>1, Pow2Type
  <2> HIDE DEF a, b, c
  <2>6. 2 * (a * b) = a * (2 * b)
    BY <1>1, <2>5
  <2>7. Pow2[m + (k + 1)] = a * Pow2[k + 1]
    BY <2>1, <2>2, <2>4, <2>6
  <2> QED
    BY <2>1, <2>7 DEF a
<1>4. S = Nat
  <2>1. S \in SUBSET Nat
    OBVIOUS
  <2> HIDE DEF S
  <2> QED
    BY <1>2, <1>3, <2>1, Induction
<1> QED
  BY <1>4

\* The numbers that a byte holds.
LEMMA EightBits == Pow2[0] = 1 /\ Pow2[1] = 2 /\ Pow2[8] = 256
<1>1. /\ Pow2[0] = 1 /\ Pow2[0 + 1] = 2 * Pow2[0] /\ Pow2[1 + 1] = 2 * Pow2[1]
      /\ Pow2[2 + 1] = 2 * Pow2[2] /\ Pow2[3 + 1] = 2 * Pow2[3]
      /\ Pow2[4 + 1] = 2 * Pow2[4] /\ Pow2[5 + 1] = 2 * Pow2[5]
      /\ Pow2[6 + 1] = 2 * Pow2[6] /\ Pow2[7 + 1] = 2 * Pow2[7]
  BY Pow2Is
<1> QED
  BY <1>1

\* Larger powers are multiples of smaller ones.
LEMMA Pow2Split ==
  ASSUME NEW m \in Nat, NEW n \in Nat, m <= n
  PROVE  Pow2[n] = Pow2[n - m] * Pow2[m]
<1>1. n - m \in Nat /\ (n - m) + m = n
  OBVIOUS
<1> QED
  BY <1>1, Pow2Sum

\* The bits of x behind those of a number: shift and add.
LEMMA BitsJoined ==
  ASSUME NEW a \in Nat, NEW s \in Nat, NEW x \in Nat, x < Pow2[s], NEW j \in Nat
  PROVE  BitOf(a * Pow2[s] + x, j) = IF j < s THEN BitOf(x, j) ELSE BitOf(a, j - s)
<1> DEFINE y == a * Pow2[s] + x
<1>1. CASE j < s
  <2> DEFINE A == Pow2[j]
             B == Pow2[s - j]
             C == Pow2[s - j - 1]
             q == x \div A
             r == x % A
  <2>1. s - j \in Nat /\ s - j - 1 \in Nat /\ (s - j - 1) + 1 = s - j
    BY <1>1
  <2>2. A \in Nat \ {0} /\ B \in Nat \ {0} /\ C \in Nat \ {0}
    BY <2>1, Pow2Type
  <2>3. Pow2[s] = B * A /\ B = 2 * C
    <3>1. Pow2[s] = B * A
      BY <1>1, Pow2Split
    <3>2. Pow2[(s - j - 1) + 1] = 2 * C
      BY <2>1, Pow2Is
    <3> QED
      BY <2>1, <3>1, <3>2
  <2>4. q \in Nat /\ r \in 0 .. A - 1 /\ x = q * A + r
    <3> HIDE DEF A
    <3> QED
      BY <2>2, QuotientIs
  <2> HIDE DEF A, B, C, q, r
  <2>5. y = (a * B + q) * A + r
    <3>1. a * (B * A) + (q * A + r) = (a * B + q) * A + r
      BY <2>2, <2>4
    <3> QED
      BY <2>3, <2>4, <3>1
  <2>6. a * B + q \in Nat
    BY <2>2, <2>4
  <2>7. y \div A = a * B + q
    <3> HIDE DEF y
    <3> DEFINE p == a * B + q
    <3>1. p \in Nat /\ y = p * A + r
      BY <2>5, <2>6
    <3> HIDE DEF p
    <3>2. y \div A = p
      BY <2>2, <2>4, <3>1, DivIs
    <3> QED
      BY <3>2 DEF p
  <2>8. (a * B + q) % 2 = q % 2
    <3> DEFINE c == a * C
    <3>1. a * (2 * C) = 2 * (a * C) /\ a * C \in Nat
      BY <2>2
    <3>2. a * B = 2 * c /\ c \in Nat
      BY <2>3, <3>1
    <3> HIDE DEF c
    <3>3. (2 * c + q) % 2 = q % 2
      BY <2>4, <3>2
    <3> QED
      BY <3>2, <3>3
  <2>9. BitOf(y, j) = (y \div A) % 2 /\ BitOf(x, j) = q % 2
    BY DEF BitOf, A, q
  <2> HIDE DEF y
  <2>10. BitOf(y, j) = BitOf(x, j)
    BY <2>7, <2>8, <2>9
  <2> QED
    BY <1>1, <2>10 DEF y
<1>2. CASE ~ (j < s)
  <2> DEFINE A == Pow2[s]
             B == Pow2[j - s]
             q == a \div B
             r == a % B
  <2>1. j - s \in Nat /\ s <= j
    BY <1>2
  <2>2. A \in Nat \ {0} /\ B \in Nat \ {0}
    BY <2>1, Pow2Type
  <2>3. Pow2[j] = B * A
    BY <2>1, Pow2Split
  <2>4. q \in Nat /\ r \in 0 .. B - 1 /\ a = q * B + r
    <3> HIDE DEF B
    <3> QED
      BY <2>2, QuotientIs
  <2>5. x < A /\ y = a * A + x
    OBVIOUS
  <2> HIDE DEF A, B, q, r, y
  <2>6. y = q * (B * A) + (r * A + x)
    <3>1. (q * B + r) * A + x = q * (B * A) + (r * A + x)
      BY <2>2, <2>4
    <3> QED
      BY <2>4, <2>5, <3>1
  <2> DEFINE R == r * A + x
             D == B * A
  <2>7. R \in 0 .. D - 1 /\ D \in Nat \ {0}
    <3>1. r * A <= (B - 1) * A
      BY <2>2, <2>4
    <3>2. (B - 1) * A = B * A - A
      BY <2>2
    <3>3. r * A \in Nat /\ B * A \in Nat
      BY <2>2, <2>4
    <3> DEFINE u == r * A
               v == B * A
    <3>4. u \in Nat /\ v \in Nat /\ u <= v - A
      BY <3>1, <3>2, <3>3
    <3> HIDE DEF u, v
    <3>5. u + x \in 0 .. v - 1 /\ v \in Nat \ {0}
      BY <2>2, <2>5, <3>4
    <3> QED
      BY <3>5 DEF u, v
  <2>8. y = q * D + R
    BY <2>6
  <2> HIDE DEF R, D
  <2>9. y \div D = q
    BY <2>4, <2>7, <2>8, DivIs
  <2>10. BitOf(y, j) = (y \div D) % 2 /\ BitOf(a, j - s) = q % 2
    BY <2>3 DEF BitOf, D, q, B
  <2> QED
    BY <1>2, <2>9, <2>10 DEF y, A
<1> QED
  BY <1>1, <1>2

\* A number of m bits has no others.
LEMMA BitsAbove ==
  ASSUME NEW m \in Nat, NEW x \in Nat, x < Pow2[m], NEW j \in Nat, j >= m
  PROVE  BitOf(x, j) = 0
<1> DEFINE A == Pow2[j]
<1>1. A \in Nat \ {0} /\ x < A
  <2> DEFINE B == Pow2[m]
             C == Pow2[j - m]
  <2>1. j - m \in Nat
    OBVIOUS
  <2>2. A = C * B /\ A \in Nat \ {0} /\ B \in Nat \ {0} /\ C \in Nat \ {0}
    BY <2>1, Pow2Split, Pow2Type
  <2>3. x < B
    OBVIOUS
  <2> HIDE DEF A, B, C
  <2>4. 1 * B <= C * B
    BY <2>2
  <2> QED
    BY <2>2, <2>3, <2>4
<1> HIDE DEF A
<1>2. x = 0 * A + x /\ x \in 0 .. A - 1
  BY <1>1
<1>3. x \div A = 0
  BY <1>1, <1>2, DivIs
<1> QED
  BY <1>3 DEF BitOf, A

\* What a shift to the left, a shift to the right and a narrower type do.
LEMMA BitsShifted ==
  ASSUME NEW x \in Nat, NEW s \in Nat, NEW j \in Nat
  PROVE  /\ BitOf(x * Pow2[s], j) = IF j < s THEN 0 ELSE BitOf(x, j - s)
         /\ BitOf(x \div Pow2[s], j) = BitOf(x, j + s)
         /\ BitOf(x % Pow2[s], j) = IF j < s THEN BitOf(x, j) ELSE 0
<1> DEFINE A == Pow2[s]
           q == x \div A
           r == x % A
<1>1. A \in Nat \ {0}
  BY Pow2Type
<1>2. q \in Nat /\ r \in 0 .. A - 1 /\ x = q * A + r
  <2> HIDE DEF A
  <2> QED
    BY <1>1, QuotientIs
<1>3. BitOf(x * A, j) = IF j < s THEN 0 ELSE BitOf(x, j - s)
  <2>1. 0 < A /\ x * A + 0 = x * A
    BY <1>1
  <2>2. BitOf(x * A + 0, j) = IF j < s THEN BitOf(0, j) ELSE BitOf(x, j - s)
    BY <2>1, BitsJoined
  <2>3. 0 < Pow2[0]
    BY Pow2Is
  <2>4. BitOf(0, j) = 0
    BY <2>3, BitsAbove
  <2> QED
    BY <2>1, <2>2, <2>4
<1> HIDE DEF q, r
<1>4. BitOf(q, j) = BitOf(x, j + s)
  <2>1. j + s \in Nat /\ ~ (j + s < s) /\ (j + s) - s = j /\ r \in Nat /\ r < A
    BY <1>1, <1>2
  <2>2. BitOf(q * A + r, j + s) = BitOf(q, (j + s) - s)
    BY <1>2, <2>1, BitsJoined
  <2> QED
    BY <1>2, <2>1, <2>2
<1>5. BitOf(r, j) = IF j < s THEN BitOf(x, j) ELSE 0
  <2>1. r \in Nat /\ r < A
    BY <1>1, <1>2
  <2>2. CASE j < s
    <3>1. BitOf(q * A + r, j) = BitOf(r, j)
      BY <1>2, <2>1, <2>2, BitsJoined
    <3> QED
      BY <1>2, <2>2, <3>1
  <2>3. CASE ~ (j < s)
    <3>1. j >= s
      BY <2>3
    <3>2. BitOf(r, j) = 0
      BY <2>1, <3>1, BitsAbove
    <3> QED
      BY <2>3, <3>2
  <2> QED
    BY <2>2, <2>3
<1> QED
  BY <1>3, <1>4, <1>5 DEF A, q, r

\* Numbers of m bits are their bits.
LEMMA BitsDetermine ==
  ASSUME NEW m \in Nat, NEW x \in 0 .. Pow2[m] - 1, NEW y \in 0 .. Pow2[m] - 1,
         \A j \in 0 .. m - 1 : BitOf(x, j) = BitOf(y, j)
  PROVE  x = y
<1> DEFINE P(n) == \A u, v \in 0 .. Pow2[n] - 1 :
                     (\A j \in 0 .. n - 1 : BitOf(u, j) = BitOf(v, j)) => u = v
           S == {n \in Nat : P(n)}
<1>1. 0 \in S
  BY Pow2Is
<1>2. ASSUME NEW n \in S PROVE n + 1 \in S
  <2> DEFINE A == Pow2[n]
  <2>1. A \in Nat \ {0} /\ Pow2[n + 1] = 2 * A /\ Pow2[1] = 2
    <3>1. Pow2[0 + 1] = 2 * Pow2[0] /\ Pow2[0] = 1
      BY Pow2Is
    <3> QED
      BY <3>1, Pow2Type, Pow2Is
  <2> SUFFICES ASSUME NEW u \in 0 .. Pow2[n + 1] - 1, NEW v \in 0 .. Pow2[n + 1] - 1,
                      \A j \in 0 .. (n + 1) - 1 : BitOf(u, j) = BitOf(v, j)
               PROVE  u = v
    <3>1. P(n + 1) => n + 1 \in S
      OBVIOUS
    <3> HIDE DEF S
    <3> QED
      BY <3>1
  <2> HIDE DEF A
  <2>2. /\ u \in Nat /\ u < 2 * A /\ v \in Nat /\ v < 2 * A
    BY <2>1
  <2>3. u \div 2 \in 0 .. A - 1 /\ v \div 2 \in 0 .. A - 1
    BY <2>1, <2>2
  <2>4. ASSUME NEW j \in 0 .. n - 1 PROVE BitOf(u \div 2, j) = BitOf(v \div 2, j)
    <3>1. j \in Nat /\ j + 1 \in 0 .. (n + 1) - 1
      OBVIOUS
    <3>2. BitOf(u \div 2, j) = BitOf(u, j + 1) /\ BitOf(v \div 2, j) = BitOf(v, j + 1)
      <4>1. BitOf(u \div Pow2[1], j) = BitOf(u, j + 1)
        BY <2>2, <3>1, BitsShifted
      <4>2. BitOf(v \div Pow2[1], j) = BitOf(v, j + 1)
        BY <2>2, <3>1, BitsShifted
      <4> QED
        BY <2>1, <4>1, <4>2
    <3> QED
      BY <3>1, <3>2
  <2>5. u \div 2 = v \div 2
    <3>1. P(n)
      OBVIOUS
    <3> QED
      BY <2>3, <2>4, <3>1 DEF A
  <2>6. u % 2 = v % 2
    <3>1. BitOf(u, 0) = BitOf(v, 0)
      OBVIOUS
    <3>2. u \div 1 = u /\ v \div 1 = v
      BY <2>2
    <3> QED
      BY <3>1, <3>2, Pow2Is DEF BitOf
  <2> QED
    BY <2>2, <2>5, <2>6
<1>3. S = Nat
  <2>1. S \in SUBSET Nat
    OBVIOUS
  <2> HIDE DEF S
  <2> QED
    BY <1>1, <1>2, <2>1, Induction
<1>4. P(m)
  BY <1>3
<1> QED
  BY <1>4

-----------------------------------------------------------------------------
\* The larger one of two numbers.
LEMMA MaxOfTwo ==
  ASSUME NEW a \in Nat, NEW b \in Nat
  PROVE  Max({a, b}) = IF a >= b THEN a ELSE b
<1> DEFINE m == IF a >= b THEN a ELSE b
<1>1. m \in {a, b} /\ \A y \in {a, b} : m >= y
  OBVIOUS
<1>2. \A x \in {a, b} : (\A y \in {a, b} : x >= y) => x = m
  OBVIOUS
<1> HIDE DEF m
<1>3. Max({a, b}) \in {a, b} /\ \A y \in {a, b} : Max({a, b}) >= y
  BY <1>1, Zenon DEF Max
<1> QED
  BY <1>2, <1>3 DEF m

-----------------------------------------------------------------------------
\* What the loops make of one side.
LEMMA ProductOfOne ==
  ASSUME NEW dims, Len(dims) = 1, dims[1] \in Nat
  PROVE  Product(dims) = dims[1]
<1> DEFINE F(f) == [i \in 0 .. 1 |-> IF i = 0 THEN 1 ELSE f[i - 1] * dims[i]]
           g == [i \in 0 .. 1 |-> IF i = 0 THEN 1 ELSE dims[1]]
           h == CHOOSE f : f = F(f)
<1>1. g = F(g)
  OBVIOUS
<1>2. h = F(h)
  BY <1>1
<1> HIDE DEF h
<1>3. h[0] = 1 /\ h[1] = h[0] * dims[1]
  BY <1>2
<1> QED
  BY <1>3 DEF Product, h

\* Two sides.
LEMMA ProductOfTwo ==
  ASSUME NEW dims, Len(dims) = 2, dims[1] \in Nat, dims[2] \in Nat
  PROVE  Product(dims) = dims[1] * dims[2]
<1> DEFINE F(f) == [i \in 0 .. 2 |-> IF i = 0 THEN 1 ELSE f[i - 1] * dims[i]]
           g == [i \in 0 .. 2 |-> IF i = 0 THEN 1
                                  ELSE IF i = 1 THEN dims[1] ELSE dims[1] * dims[2]]
           h == CHOOSE f : f = F(f)
<1>1. g = F(g)
  OBVIOUS
<1>2. h = F(h)
  BY <1>1
<1> HIDE DEF h
<1>3. h[0] = 1 /\ h[1] = h[0] * dims[1] /\ h[2] = h[1] * dims[2]
  BY <1>2
<1> QED
  BY <1>3 DEF Product, h

\* No side.
LEMMA ProductOfNone ==
  ASSUME NEW dims, Len(dims) = 0
  PROVE  Product(dims) = 1
<1> DEFINE F(f) == [i \in 0 .. 0 |-> IF i = 0 THEN 1 ELSE f[i - 1] * dims[i]]
           g == [i \in 0 .. 0 |-> 1]
           h == CHOOSE f : f = F(f)
<1>1. g = F(g)
  OBVIOUS
<1>2. h = F(h)
  BY <1>1
<1> HIDE DEF h
<1>3. h[0] = 1
  BY <1>2
<1> QED
  BY <1>3 DEF Product, h

\* The product of d sides of r, the first t one longer.
LEMMA ProductOfSides ==
  ASSUME NEW r \in Nat, NEW t \in Nat
  PROVE  /\ Product(Sides(r, 1, t)) = IF t >= 1 THEN r + 1 ELSE r
         /\ Product(Sides(r, 2, t)) = IF t >= 2 THEN (r + 1) * (r + 1)
                                      ELSE IF t = 1 THEN (r + 1) * r ELSE r * r
<1>1. Product(Sides(r, 1, t)) = IF t >= 1 THEN r + 1 ELSE r
  <2> DEFINE s == Sides(r, 1, t)
  <2>1. Len(s) = 1 /\ s[1] = (IF 1 <= t THEN r + 1 ELSE r)
    BY DEF Sides
  <2> HIDE DEF s
  <2>2. Product(s) = s[1]
    BY <2>1, ProductOfOne
  <2> QED
    BY <2>1, <2>2 DEF s
<1>2. Product(Sides(r, 2, t)) = IF t >= 2 THEN (r + 1) * (r + 1)
                                ELSE IF t = 1 THEN (r + 1) * r ELSE r * r
  <2> DEFINE s == Sides(r, 2, t)
  <2>1. /\ Len(s) = 2 /\ s[1] = (IF 1 <= t THEN r + 1 ELSE r)
        /\ s[2] = IF 2 <= t THEN r + 1 ELSE r
    BY DEF Sides
  <2> HIDE DEF s
  <2>2. Product(s) = s[1] * s[2]
    BY <2>1, ProductOfTwo
  <2> QED
    BY <2>1, <2>2 DEF s
<1> QED
  BY <1>1, <1>2

\* Some number is the largest whose square does not exceed n.
LEMMA SquareRootExists ==
  ASSUME NEW n \in Nat \ {0}
  PROVE  \E r \in 1 .. n : /\ r * r <= n /\ n < (r + 1) * (r + 1)
                          /\ \A q \in 1 .. n : q * q <= n => q <= r
<1> DEFINE T == {k \in Nat : n < k * k}
           less == OpToRel(<, Nat)
<1>1. T \subseteq Nat /\ T # {}
  <2>1. n < (n + 1) * (n + 1)
    OBVIOUS
  <2>2. n + 1 \in T
    BY <2>1
  <2> QED
    BY <2>2
<1>2. \E m \in T : \A y \in T : ~ (<<y, m>> \in less)
  <2> HIDE DEF T
  <2> QED
    BY <1>1, NatLessThanWellFounded, WFMin
<1>3. PICK m \in T : \A y \in T : ~ (<<y, m>> \in less)
  BY <1>2
<1>4. m \in Nat /\ n < m * m /\ \A y \in T : ~ (y < m)
  BY <1>3 DEF OpToRel
<1>5. m # 0 /\ m # 1
  BY <1>4
<1> DEFINE r == m - 1
<1>6. r \in Nat \ {0} /\ r + 1 = m
  BY <1>4, <1>5
<1>7. r \notin T
  BY <1>4, <1>6
<1>8. r * r <= n
  BY <1>6, <1>7
<1>9. r \in 1 .. n
  <2>1. r <= r * r
    BY <1>6
  <2>2. r * r \in Nat
    BY <1>6
  <2> HIDE DEF r
  <2> QED
    BY <1>6, <1>8, <2>1, <2>2
<1>10. ASSUME NEW q \in 1 .. n, q * q <= n PROVE q <= r
  <2>1. ASSUME q >= m PROVE q * q >= m * m
    BY <1>4, <2>1
  <2>2. q * q \in Nat /\ m * m \in Nat
    BY <1>4
  <2>3. ~ (q >= m)
    BY <1>4, <1>10, <2>1, <2>2
  <2> QED
    BY <1>4, <2>3
<1> QED
  BY <1>4, <1>6, <1>8, <1>9, <1>10

\* The rounded root of the number of plaintexts.
LEMMA FloorRootIs ==
  ASSUME NEW n \in Nat \ {0}
  PROVE  /\ FloorRoot(n, 1) = n
         /\ FloorRoot(n, 2) \in 1 .. n
         /\ FloorRoot(n, 2) * FloorRoot(n, 2) <= n
         /\ n < (FloorRoot(n, 2) + 1) * (FloorRoot(n, 2) + 1)
<1>1. FloorRoot(n, 1) = n
  <2> DEFINE S == {r \in 1 .. n : Product(Sides(r, 1, 0)) <= n}
  <2>1. S = 1 .. n
    <3>1. \A r \in 1 .. n : Product(Sides(r, 1, 0)) = r
      BY ProductOfSides
    <3> QED
      BY <3>1
  <2>2. \A x : (x \in 1 .. n /\ \A y \in 1 .. n : x >= y) <=> x = n
    OBVIOUS
  <2>3. Max(1 .. n) = n
    BY <2>2 DEF Max
  <2> QED
    BY <2>1, <2>3 DEF FloorRoot
<1>2. FloorRoot(n, 2) \in 1 .. n
      /\ FloorRoot(n, 2) * FloorRoot(n, 2) <= n
      /\ n < (FloorRoot(n, 2) + 1) * (FloorRoot(n, 2) + 1)
  <2> DEFINE S == {r \in 1 .. n : Product(Sides(r, 2, 0)) <= n}
             m == Max(S)
  <2>1. \A r \in 1 .. n : Product(Sides(r, 2, 0)) = r * r
    BY ProductOfSides
  <2>2. \A r : r \in S <=> r \in 1 .. n /\ r * r <= n
    BY <2>1
  <2> HIDE DEF S
  <2>3. PICK r \in 1 .. n : /\ r * r <= n /\ n < (r + 1) * (r + 1)
                           /\ \A q \in 1 .. n : q * q <= n => q <= r
    BY SquareRootExists
  <2>4. r \in S /\ \A y \in S : r >= y
    BY <2>2, <2>3
  <2>5. m \in S /\ \A y \in S : m >= y
    BY <2>4, Zenon DEF Max
  <2>6. m = r
    <3>1. m \in 1 .. n /\ r >= m /\ m >= r
      BY <2>2, <2>4, <2>5
    <3> HIDE DEF m
    <3> QED
      BY <3>1
  <2>7. FloorRoot(n, 2) = m
    BY DEF FloorRoot, S
  <2> QED
    BY <2>3, <2>6, <2>7
<1> QED
  BY <1>1, <1>2

\* The matrix has as many sides as dimensions, and a place for each plaintext:
\* whether or not the number of plaintexts is a square, and although the loop
\* that lengthens sides may stop before it or lengthen one too many.
LEMMA DimensionsSuffice ==
  ASSUME NEW n \in Nat \ {0}, NEW d \in {1, 2}
  PROVE  LET nvec == get_dimensions(n, d)
         IN  /\ nvec \in [1 .. d -> Nat \ {0}]
             /\ Product(nvec) \in Nat
             /\ n <= Product(nvec)
<1> DEFINE r == Max({2, FloorRoot(n, d)})
           enough == {t \in 1 .. d : Product(Sides(r, d, t)) >= n}
           exact == Product(Sides(r, d, 0)) = n
           t == IF exact \/ n = 1 THEN 0 ELSE Min(enough \cup {d})
           nvec == Sides(r, d, t)
<1>1. nvec = get_dimensions(n, d)
  BY DEF get_dimensions
<1>2. FloorRoot(n, d) \in 1 .. n
  BY FloorRootIs
<1>3. r \in Nat /\ r >= 2 /\ r >= FloorRoot(n, d)
  <2>1. r = IF 2 >= FloorRoot(n, d) THEN 2 ELSE FloorRoot(n, d)
    BY <1>2, MaxOfTwo
  <2> HIDE DEF r
  <2> QED
    BY <1>2, <2>1
<1> HIDE DEF r
<1>4. t \in 0 .. d /\ (t = 0 => exact \/ n = 1) /\ (t \in 1 .. d - 1 => t \in enough)
  <2>1. ASSUME NEW S \in SUBSET {1, 2}, S # {}
        PROVE  Min(S) \in S
    <3>1. \E x \in S : \A y \in S : x <= y
      <4>1. S = {1} \/ S = {2} \/ S = {1, 2}
        BY <2>1
      <4> QED
        BY <4>1
    <3> QED
      BY <3>1, Zenon DEF Min
  <2>2. enough \cup {d} \in SUBSET {1, 2} /\ enough \cup {d} # {}
    OBVIOUS
  <2>3. Min(enough \cup {d}) \in enough \cup {d}
    BY <2>1, <2>2
  <2>4. enough \subseteq 1 .. d
    OBVIOUS
  <2> DEFINE e == Min(enough \cup {d})
  <2>5. e \in enough \/ e = d
    BY <2>3
  <2>6. e \in 1 .. d /\ (e # d => e \in enough)
    BY <2>4, <2>5
  <2>7. t = IF exact \/ n = 1 THEN 0 ELSE e
    OBVIOUS
  <2> HIDE DEF enough, exact, e, t
  <2> QED
    BY <2>6, <2>7
<1> HIDE DEF t
<1>5. nvec \in [1 .. d -> Nat \ {0}]
  BY <1>3, <1>4 DEF Sides
<1>6. CASE d = 1
  <2>1. Product(nvec) = IF t >= 1 THEN r + 1 ELSE r
    BY <1>3, <1>4, <1>6, ProductOfSides
  <2>2. r >= n
    BY <1>3, <1>6, FloorRootIs
  <2> HIDE DEF nvec
  <2>3. Product(nvec) \in Nat /\ n <= Product(nvec)
    BY <1>3, <2>1, <2>2
  <2> QED
    BY <1>1, <1>5, <2>3
<1>7. CASE d = 2
  <2> DEFINE p(k) == Product(Sides(r, 2, k))
  <2>1. /\ p(0) = r * r /\ p(1) = (r + 1) * r /\ p(2) = (r + 1) * (r + 1)
        /\ r * r \in Nat /\ (r + 1) * r \in Nat /\ (r + 1) * (r + 1) \in Nat
    <3>1. r * r \in Nat /\ (r + 1) * r \in Nat /\ (r + 1) * (r + 1) \in Nat
      BY <1>3
    <3>2. p(0) = r * r
      BY <1>3, ProductOfSides
    <3>3. p(1) = (r + 1) * r
      BY <1>3, ProductOfSides
    <3>4. p(2) = (r + 1) * (r + 1)
      BY <1>3, ProductOfSides
    <3> QED
      BY <3>1, <3>2, <3>3, <3>4
  <2>2. n < (r + 1) * (r + 1)
    <3> DEFINE q == FloorRoot(n, 2)
    <3>1. q \in Nat /\ q <= r /\ n < (q + 1) * (q + 1)
      BY <1>2, <1>3, <1>7, FloorRootIs
    <3> HIDE DEF q
    <3>2. (q + 1) * (q + 1) <= (r + 1) * (r + 1)
      BY <1>3, <3>1
    <3>3. (q + 1) * (q + 1) \in Nat
      BY <3>1
    <3> QED
      BY <2>1, <3>1, <3>2, <3>3
  <2>3. 2 * 2 <= r * r
    BY <1>3
  <2>4. exact => p(0) = n
    BY <1>7
  <2>5. 1 \in enough => p(1) >= n
    BY <1>7
  <2>6. nvec = Sides(r, 2, t)
    BY <1>7
  <2>7. t = 0 \/ t = 1 \/ t = 2
    BY <1>4, <1>7
  <2> HIDE DEF nvec, exact, enough
  <2>8. CASE t = 0
    <3>1. Product(nvec) = p(0) /\ (exact \/ n = 1)
      BY <1>4, <2>6, <2>8
    <3> HIDE DEF p
    <3>2. Product(nvec) \in Nat /\ n <= Product(nvec)
      BY <2>1, <2>3, <2>4, <3>1
    <3> QED
      BY <1>1, <1>5, <3>2
  <2>9. CASE t = 1
    <3>1. Product(nvec) = p(1) /\ 1 \in enough
      BY <1>4, <1>7, <2>6, <2>9
    <3> HIDE DEF p
    <3>2. Product(nvec) \in Nat /\ n <= Product(nvec)
      BY <2>1, <2>5, <3>1
    <3> QED
      BY <1>1, <1>5, <3>2
  <2>10. CASE t = 2
    <3>1. Product(nvec) = p(2)
      BY <2>6, <2>10
    <3> HIDE DEF p
    <3>2. Product(nvec) \in Nat /\ n <= Product(nvec)
      BY <2>1, <2>2, <3>1
    <3> QED
      BY <1>1, <1>5, <3>2
  <2> QED
    BY <2>7, <2>8, <2>9, <2>10
<1> QED
  BY <1>6, <1>7

\* No side is shorter than two, so that what it is selected with can be expanded.
LEMMA SidesFromTwo ==
  ASSUME NEW n \in Nat \ {0}, NEW d \in {1, 2}
  PROVE  \A i \in 1 .. d : get_dimensions(n, d)[i] >= 2
<1> DEFINE r == Max({2, FloorRoot(n, d)})
           enough == {t \in 1 .. d : Product(Sides(r, d, t)) >= n}
           longer == IF Product(Sides(r, d, 0)) = n \/ n = 1 THEN 0
                     ELSE Min(enough \cup {d})
<1>1. get_dimensions(n, d) = Sides(r, d, longer)
  BY DEF get_dimensions
<1>2. r \in Nat /\ r >= 2
  <2>1. FloorRoot(n, d) \in 1 .. n
    BY FloorRootIs
  <2>2. r = IF 2 >= FloorRoot(n, d) THEN 2 ELSE FloorRoot(n, d)
    BY <2>1, MaxOfTwo
  <2> HIDE DEF r
  <2> QED
    BY <2>1, <2>2
<1> HIDE DEF r, longer
<1>3. \A i \in 1 .. d : Sides(r, d, longer)[i] \in {r, r + 1}
  BY DEF Sides
<1>4. ASSUME NEW i \in 1 .. d PROVE Sides(r, d, longer)[i] >= 2
  BY <1>2, <1>3
<1> QED
  BY <1>1, <1>4

-----------------------------------------------------------------------------
\* In one dimension the coordinate of a plaintext is its index.
LEMMA OneCoordinate ==
  ASSUME NEW k \in Nat, NEW nvec, Len(nvec) = 1
  PROVE  compute_indices(k, nvec)[1] = k
<1> DEFINE s == Stride(nvec, 1)
           F(f) == [i \in 0 .. 1 |-> IF i = 0 THEN k
                      ELSE f[i - 1] - (f[i - 1] \div Stride(nvec, i)) * Stride(nvec, i)]
           g == [i \in 0 .. 1 |-> IF i = 0 THEN k ELSE 0]
           h == CHOOSE f : f = F(f)
<1>1. s = 1
  <2> DEFINE tail == SubSeq(nvec, 1 + 1, Len(nvec))
  <2>1. Len(tail) = 0
    OBVIOUS
  <2> HIDE DEF tail
  <2>2. Product(tail) = 1
    BY <2>1, ProductOfNone
  <2> QED
    BY <2>2 DEF Stride, tail
<1>2. k \div 1 = k /\ k - k * 1 = 0
  OBVIOUS
<1>3. g = F(g)
  <2> HIDE DEF s
  <2>1. F(g)[0] = k
    OBVIOUS
  <2>2. F(g)[1] = k - (k \div Stride(nvec, 1)) * Stride(nvec, 1)
    OBVIOUS
  <2>3. F(g)[1] = 0
    BY <1>1, <1>2, <2>2 DEF s
  <2>4. \A i \in 0 .. 1 : i = 0 \/ i = 1
    OBVIOUS
  <2>5. \A i \in 0 .. 1 : F(g)[i] = g[i]
    BY <2>1, <2>3, <2>4
  <2>6. DOMAIN F(g) = 0 .. 1 /\ F(g) = [i \in 0 .. 1 |-> F(g)[i]]
    OBVIOUS
  <2> HIDE DEF F
  <2> QED
    BY <2>5, <2>6
<1>4. h = F(h)
  <2> HIDE DEF F
  <2> QED
    BY <1>3
<1> HIDE DEF h
<1>5. h[0] = k
  BY <1>4
<1>6. compute_indices(k, nvec)[1] = h[0] \div Stride(nvec, 1)
  BY DEF compute_indices, h
<1> QED
  BY <1>1, <1>2, <1>5, <1>6

\* The coordinates of a plaintext in a matrix of two sides.
LEMMA TwoCoordinates ==
  ASSUME NEW k \in Nat, NEW nvec, Len(nvec) = 2, NEW b \in Nat \ {0}, nvec[2] = b
  PROVE  /\ Stride(nvec, 1) = b /\ Stride(nvec, 2) = 1
         /\ compute_indices(k, nvec)[1] = k \div b
         /\ compute_indices(k, nvec)[2] = k % b
<1> DEFINE s(i) == Stride(nvec, i)
           F(f) == [i \in 0 .. 2 |-> IF i = 0 THEN k
                      ELSE f[i - 1] - (f[i - 1] \div Stride(nvec, i)) * Stride(nvec, i)]
           r == k - (k \div b) * b
           g == [i \in 0 .. 2 |-> IF i = 0 THEN k
                                  ELSE IF i = 1 THEN r ELSE 0]
           h == CHOOSE f : f = F(f)
<1>1. s(1) = b
  <2> DEFINE tail == SubSeq(nvec, 1 + 1, Len(nvec))
  <2>1. Len(tail) = 1 /\ tail[1] = b
    OBVIOUS
  <2> HIDE DEF tail
  <2>2. Product(tail) = b
    BY <2>1, ProductOfOne
  <2> QED
    BY <2>2 DEF Stride, tail
<1>2. s(2) = 1
  <2> DEFINE tail == SubSeq(nvec, 2 + 1, Len(nvec))
  <2>1. Len(tail) = 0
    OBVIOUS
  <2> HIDE DEF tail
  <2>2. Product(tail) = 1
    BY <2>1, ProductOfNone
  <2> QED
    BY <2>2 DEF Stride, tail
<1>3. r = k % b /\ r \in Nat /\ r \div 1 = r /\ r - r * 1 = 0
  <2>1. k \div b \in Nat /\ k % b \in 0 .. b - 1 /\ k = (k \div b) * b + (k % b)
    BY QuotientIs
  <2> DEFINE x == (k \div b) * b
             m == k % b
  <2>2. x \in Nat /\ m \in Nat /\ k = x + m
    BY <2>1
  <2> HIDE DEF x, m
  <2>3. k - x = m
    BY <2>2
  <2>4. r = m
    BY <2>3 DEF x
  <2>5. m \div 1 = m /\ m - m * 1 = 0
    BY <2>2
  <2> HIDE DEF r
  <2> QED
    BY <2>2, <2>4, <2>5 DEF m
<1>4. g = F(g)
  <2> HIDE DEF s, r
  <2>1. F(g)[0] = k
    OBVIOUS
  <2>2. F(g)[1] = r
    <3>1. F(g)[1] = k - (k \div Stride(nvec, 1)) * Stride(nvec, 1)
      OBVIOUS
    <3> QED
      BY <1>1, <3>1 DEF s, r
  <2>3. F(g)[2] = 0
    <3>1. F(g)[2] = r - (r \div Stride(nvec, 2)) * Stride(nvec, 2)
      OBVIOUS
    <3> QED
      BY <1>2, <1>3, <3>1 DEF s
  <2>4. \A i \in 0 .. 2 : i = 0 \/ i = 1 \/ i = 2
    OBVIOUS
  <2>5. \A i \in 0 .. 2 : F(g)[i] = g[i]
    BY <2>1, <2>2, <2>3, <2>4
  <2>6. F(g) = [i \in 0 .. 2 |-> F(g)[i]]
    OBVIOUS
  <2> HIDE DEF F
  <2> QED
    BY <2>5, <2>6
<1>5. h = F(h)
  <2> HIDE DEF F
  <2> QED
    BY <1>4
<1> HIDE DEF h
<1>6. h[0] = k /\ h[1] = h[0] - (h[0] \div Stride(nvec, 1)) * Stride(nvec, 1)
  BY <1>5
<1>7. h[1] = r
  BY <1>1, <1>6
<1>8. /\ compute_indices(k, nvec)[1] = h[0] \div Stride(nvec, 1)
      /\ compute_indices(k, nvec)[2] = h[1] \div Stride(nvec, 2)
  BY DEF compute_indices, h
<1> QED
  BY <1>1, <1>2, <1>3, <1>6, <1>7, <1>8

\* The coordinates of each place are on their sides, and lead back to it.
LEMMA CoordinatesAre ==
  ASSUME NEW nvec, Len(nvec) \in {1, 2}, \A i \in 1 .. Len(nvec) : nvec[i] \in Nat \ {0},
         NEW k \in 0 .. Product(nvec) - 1
  PROVE  LET at == compute_indices(k, nvec)
             sum[i \in 0 .. Len(nvec)] ==
               IF i = 0 THEN 0 ELSE sum[i - 1] + at[i] * Stride(nvec, i)
         IN  /\ sum[Len(nvec)] = k
             /\ \A i \in 1 .. Len(nvec) : at[i] \in 0 .. nvec[i] - 1
<1> DEFINE at == compute_indices(k, nvec)
           term(i) == at[i] * Stride(nvec, i)
<1>1. CASE Len(nvec) = 1
  <2> DEFINE F(f) == [i \in 0 .. 1 |-> IF i = 0 THEN 0 ELSE f[i - 1] + term(i)]
             g == [i \in 0 .. 1 |-> IF i = 0 THEN 0 ELSE k]
             h == CHOOSE f : f = F(f)
             n_0 == nvec[1]
  <2>1. n_0 \in Nat \ {0} /\ Product(nvec) = n_0
    BY <1>1, ProductOfOne
  <2>2. k \in Nat /\ k < n_0
    BY <2>1
  <2>3. at[1] = k
    BY <1>1, <2>2, OneCoordinate
  <2>4. Stride(nvec, 1) = 1
    <3> DEFINE tail == SubSeq(nvec, 1 + 1, Len(nvec))
    <3>1. Len(tail) = 0
      BY <1>1
    <3> HIDE DEF tail
    <3>2. Product(tail) = 1
      BY <3>1, ProductOfNone
    <3> QED
      BY <3>2 DEF Stride, tail
  <2>5. term(1) = k
    BY <2>2, <2>3, <2>4
  <2> HIDE DEF term
  <2>6. g = F(g)
    BY <2>2, <2>5
  <2>7. h = F(h)
    <3> HIDE DEF F
    <3> QED
      BY <2>6
  <2> HIDE DEF h
  <2>8. h[0] = 0 /\ h[1] = h[0] + term(1)
    BY <2>7
  <2>9. h[1] = k
    BY <2>2, <2>5, <2>8
  <2>10. \A i \in 1 .. 1 : at[i] \in 0 .. nvec[i] - 1
    <3> HIDE DEF at
    <3> QED
      BY <2>1, <2>2, <2>3
  <2> QED
    BY <1>1, <2>9, <2>10 DEF h, term
<1>2. CASE Len(nvec) = 2
  <2> DEFINE F(f) == [i \in 0 .. 2 |-> IF i = 0 THEN 0 ELSE f[i - 1] + term(i)]
             a == nvec[1]
             b == nvec[2]
             q == k \div b
             m == k % b
             g == [i \in 0 .. 2 |-> IF i = 0 THEN 0 ELSE IF i = 1 THEN q * b ELSE k]
             h == CHOOSE f : f = F(f)
  <2>1. a \in Nat \ {0} /\ b \in Nat \ {0} /\ Product(nvec) = a * b
    BY <1>2, ProductOfTwo
  <2>2. k \in Nat /\ k < a * b
    <3>1. a * b \in Nat
      BY <2>1
    <3> QED
      BY <2>1, <3>1
  <2>3. at[1] = q /\ at[2] = m /\ Stride(nvec, 1) = b /\ Stride(nvec, 2) = 1
    <3> HIDE DEF b
    <3>1. nvec[2] = b
      BY DEF b
    <3> QED
      BY <1>2, <2>1, <2>2, <3>1, TwoCoordinates
  <2>4. q \in Nat /\ m \in 0 .. b - 1 /\ k = q * b + m
    <3> HIDE DEF b
    <3> QED
      BY <2>1, <2>2, QuotientIs
  <2> HIDE DEF q, m
  <2>5. term(1) = q * b /\ term(2) = m
    BY <2>3, <2>4
  <2>6. q < a
    <3> HIDE DEF a, b
    <3>1. ASSUME q >= a PROVE q * b >= a * b
      BY <2>1, <2>4, <3>1
    <3>2. q * b \in Nat /\ a * b \in Nat
      BY <2>1, <2>4
    <3> QED
      BY <2>1, <2>2, <2>4, <3>1, <3>2
  <2>7. q * b \in Nat
    BY <2>1, <2>4
  <2> HIDE DEF term, a, b
  <2>8. g = F(g)
    <3>1. F(g)[0] = 0 /\ F(g)[1] = 0 + term(1) /\ F(g)[2] = q * b + term(2)
      OBVIOUS
    <3>2. F(g)[1] = q * b /\ F(g)[2] = k
      BY <2>4, <2>5, <2>7, <3>1
    <3>3. \A i \in 0 .. 2 : i = 0 \/ i = 1 \/ i = 2
      OBVIOUS
    <3>4. \A i \in 0 .. 2 : F(g)[i] = g[i]
      BY <3>1, <3>2, <3>3
    <3>5. F(g) = [i \in 0 .. 2 |-> F(g)[i]]
      OBVIOUS
    <3> HIDE DEF F
    <3> QED
      BY <3>4, <3>5
  <2>9. h = F(h)
    <3> HIDE DEF F
    <3> QED
      BY <2>8
  <2> HIDE DEF h
  <2>10. h[0] = 0 /\ h[1] = h[0] + term(1) /\ h[2] = h[1] + term(2)
    BY <2>9
  <2>11. h[2] = k
    BY <2>4, <2>5, <2>7, <2>10
  <2>12. \A i \in 1 .. 2 : at[i] \in 0 .. nvec[i] - 1
    <3>1. at[1] \in 0 .. a - 1 /\ at[2] \in 0 .. b - 1
      BY <2>1, <2>3, <2>4, <2>6
    <3>2. \A i \in 1 .. 2 : i = 1 \/ i = 2
      OBVIOUS
    <3> HIDE DEF at
    <3> QED
      BY <3>1, <3>2 DEF a, b
  <2> QED
    BY <1>2, <2>11, <2>12 DEF h, term
<1> QED
  BY <1>1, <1>2

\* A coordinate on a side shorter than a ciphertext takes one ciphertext.
LEMMA OneQuery ==
  ASSUME NEW N \in Nat \ {0}, NEW n_0 \in Nat \ {0}, n_0 < N,
         NEW k \in Nat, k < n_0
  PROVE  query_ciphertexts(k, n_0, N) = <<{k}>>
<1>1. CeilDiv(n_0, N) = 1
  <2> DEFINE q == CeilDiv(n_0, N)
  <2>1. n_0 <= 1 * N
    OBVIOUS
  <2>2. q \in Nat /\ n_0 <= q * N /\ q <= 1
    BY <2>1, CeilDivIs, CeilDivLeast
  <2> HIDE DEF q
  <2>3. q # 0
    <3>1. q = 0 => q * N = 0
      OBVIOUS
    <3> QED
      BY <2>2, <3>1
  <2>4. q = 1
    BY <2>2, <2>3
  <2> QED
    BY <2>4 DEF q
<1>2. ~ (k > N * 1 \/ k < N * (1 - 1)) /\ k - N * (1 - 1) = k
  OBVIOUS
<1> DEFINE f(j) == IF k > N * j \/ k < N * (j - 1) THEN {} ELSE {k - N * (j - 1)}
<1>3. f(1) = {k}
  BY <1>2
<1>4. query_ciphertexts(k, n_0, N) = [j \in 1 .. 1 |-> f(j)]
  BY <1>1 DEF query_ciphertexts
<1> HIDE DEF f
<1>5. \A j \in 1 .. 1 : f(j) = {k}
  BY <1>3
<1>6. [j \in 1 .. 1 |-> f(j)] = [j \in 1 .. 1 |-> {k}]
  BY <1>5
<1>7. [j \in 1 .. 1 |-> {k}] = <<{k}>>
  OBVIOUS
<1> QED
  BY <1>4, <1>6, <1>7

-----------------------------------------------------------------------------
\* A set of numbers has a least one.
LEMMA MinOf ==
  ASSUME NEW S \in SUBSET Nat, S # {}
  PROVE  Min(S) \in S /\ \A y \in S : Min(S) <= y
<1> DEFINE less == OpToRel(<, Nat)
<1>1. \E m \in S : \A y \in S : ~ (<<y, m>> \in less)
  BY NatLessThanWellFounded, WFMin
<1>2. PICK m \in S : \A y \in S : ~ (<<y, m>> \in less)
  BY <1>1
<1>3. ASSUME NEW y \in S PROVE m <= y
  <2>1. y \in Nat /\ m \in Nat
    OBVIOUS
  <2>2. y < m => <<y, m>> \in less
    BY <2>1 DEF OpToRel
  <2>3. ~ (y < m)
    BY <1>2, <2>2
  <2> QED
    BY <2>1, <2>3
<1> QED
  BY <1>3, Zenon DEF Min

\* Powers of two grow, faster than their exponents.
LEMMA Pow2Grows ==
  /\ \A n \in Nat : n < Pow2[n]
  /\ \A m, n \in Nat : m < n => Pow2[m] < Pow2[n]
<1>1. \A n \in Nat : n < Pow2[n]
  <2> DEFINE S == {n \in Nat : n < Pow2[n]}
  <2>1. 0 \in S
    BY Pow2Is
  <2>2. ASSUME NEW n \in S PROVE n + 1 \in S
    <3> DEFINE x == Pow2[n]
    <3>1. n \in Nat /\ n < x /\ x \in Nat /\ Pow2[n + 1] = 2 * x
      BY Pow2Is, Pow2Type
    <3> HIDE DEF x
    <3>2. n + 1 \in Nat /\ n + 1 < 2 * x
      BY <3>1
    <3> QED
      BY <3>1, <3>2
  <2>3. S \in SUBSET Nat
    OBVIOUS
  <2> HIDE DEF S
  <2>4. S = Nat
    BY <2>1, <2>2, <2>3, Induction
  <2> QED
    BY <2>4 DEF S
<1>2. ASSUME NEW m \in Nat, NEW n \in Nat, m < n PROVE Pow2[m] < Pow2[n]
  <2> DEFINE a == Pow2[m]
             b == Pow2[n - m]
  <2>1. Pow2[n] = b * a
    BY <1>2, Pow2Split
  <2>2. n - m \in Nat /\ n - m >= 1
    BY <1>2
  <2>3. n - m < b
    BY <1>1, <2>2
  <2>4. a \in Nat \ {0} /\ b \in Nat
    BY <2>2, Pow2Type
  <2> HIDE DEF a, b
  <2>5. b >= 2
    BY <2>2, <2>3, <2>4
  <2>6. 2 * a <= b * a
    BY <2>4, <2>5, TimesMonotone
  <2>7. a < 2 * a /\ b * a \in Nat
    BY <2>4
  <2>8. a < b * a
    BY <2>4, <2>6, <2>7
  <2> QED
    BY <2>1, <2>8 DEF a
<1> QED
  BY <1>1, <1>2

\* Numbers that differ by multiples of s leave the same remainder.
LEMMA SameRemainder ==
  ASSUME NEW s \in Nat \ {0}, NEW a \in Nat, NEW b \in Nat,
         NEW x \in Nat, NEW y \in Nat, a + x * s = b + y * s
  PROVE  a % s = b % s
<1> DEFINE q == a \div s
           p == b \div s
           u == a % s
           v == b % s
           c == a + x * s
<1>1. /\ q \in Nat /\ u \in 0 .. s - 1 /\ a = q * s + u
      /\ p \in Nat /\ v \in 0 .. s - 1 /\ b = p * s + v
  BY QuotientIs
<1> HIDE DEF q, p, u, v
<1>2. c = (q + x) * s + u
  <2>1. (q + x) * s = q * s + x * s /\ q * s \in Nat /\ x * s \in Nat
    BY <1>1
  <2> QED
    BY <1>1, <2>1
<1>3. c = (p + y) * s + v
  <2>1. (p + y) * s = p * s + y * s /\ p * s \in Nat /\ y * s \in Nat
    BY <1>1
  <2> QED
    BY <1>1, <2>1
<1>4. q + x \in Nat /\ p + y \in Nat
  BY <1>1
<1> HIDE DEF c
<1>5. c % s = u
  BY <1>1, <1>2, <1>4, DivIs
<1>6. c % s = v
  BY <1>1, <1>3, <1>4, DivIs
<1> QED
  BY <1>5, <1>6 DEF u, v

\* What a loop of n turns computes from a, turn i by the function G[i].
Runs(S, a, n, G) ==
  {h \in [0 .. n -> S] : h[0] = a /\ \A i \in 0 .. n - 1 : h[i + 1] = G[i][h[i]]}

\* There is such a computation.
LEMMA Iterated ==
  ASSUME NEW S, NEW a \in S, NEW n \in Nat, NEW G \in [Nat -> [S -> S]]
  PROVE  Runs(S, a, n, G) # {}
<1> DEFINE Upto(h, k) == /\ h \in [0 .. k -> S] /\ h[0] = a
                         /\ \A i \in 0 .. k - 1 : h[i + 1] = G[i][h[i]]
           T == {k \in Nat : \E h : Upto(h, k)}
<1>1. 0 \in T
  <2>1. Upto([i \in 0 .. 0 |-> a], 0)
    OBVIOUS
  <2> QED
    BY <2>1
<1>2. ASSUME NEW k \in T PROVE k + 1 \in T
  <2>1. k \in Nat
    OBVIOUS
  <2>2. PICK h : Upto(h, k)
    OBVIOUS
  <2> DEFINE z == G[k][h[k]]
             g == [i \in 0 .. k + 1 |-> IF i <= k THEN h[i] ELSE z]
  <2>3. h \in [0 .. k -> S] /\ h[0] = a /\ \A i \in 0 .. k - 1 : h[i + 1] = G[i][h[i]]
    BY <2>2
  <2>4. z \in S
    <3>1. k \in 0 .. k
      BY <2>1
    <3>2. h[k] \in S
      BY <2>3, <3>1
    <3>3. G[k] \in [S -> S]
      BY <2>1
    <3> QED
      BY <3>2, <3>3
  <2>5. g \in [0 .. k + 1 -> S] /\ g[0] = a
    <3> HIDE DEF z
    <3> QED
      BY <2>1, <2>3, <2>4
  <2>6. ASSUME NEW i \in 0 .. (k + 1) - 1 PROVE g[i + 1] = G[i][g[i]]
    <3>1. g[i] = h[i]
      BY <2>1
    <3>2. CASE i = k
      <4>1. g[i + 1] = z
        BY <2>1, <3>2
      <4> QED
        BY <3>1, <3>2, <4>1
    <3>3. CASE i # k
      <4>1. i \in 0 .. k - 1 /\ i + 1 \in 0 .. k + 1 /\ i + 1 <= k
        BY <2>1, <3>3
      <4>2. g[i + 1] = h[i + 1]
        BY <4>1
      <4> QED
        BY <2>3, <3>1, <4>1, <4>2
    <3> QED
      BY <3>2, <3>3
  <2> HIDE DEF g
  <2>7. Upto(g, k + 1)
    BY <2>5, <2>6
  <2> HIDE DEF Upto
  <2> QED
    BY <2>1, <2>7
<1>3. T \in SUBSET Nat
  OBVIOUS
<1> HIDE DEF T
<1>4. T = Nat
  BY <1>1, <1>2, <1>3, Induction
<1>5. PICK h : Upto(h, n)
  BY <1>4 DEF T
<1>6. h \in Runs(S, a, n, G)
  BY <1>5 DEF Runs
<1> QED
  BY <1>6

\* Induction up to n.
LEMMA UpTo ==
  ASSUME NEW n \in Nat, NEW S, 0 \in S, \A i \in 0 .. n - 1 : i \in S => i + 1 \in S
  PROVE  \A i \in 0 .. n : i \in S
<1> DEFINE T == {i \in Nat : i <= n => i \in S}
<1>1. 0 \in T
  OBVIOUS
<1>2. ASSUME NEW i \in T PROVE i + 1 \in T
  <2>1. i \in Nat /\ (i <= n => i \in S)
    OBVIOUS
  <2>2. i + 1 <= n => i \in 0 .. n - 1
    BY <2>1
  <2> QED
    BY <2>1, <2>2
<1>3. T \in SUBSET Nat
  OBVIOUS
<1> HIDE DEF T
<1>4. T = Nat
  BY <1>1, <1>2, <1>3, Induction
<1> QED
  BY <1>4 DEF T

Congruent(s, a, b) == a % s = b % s

\* Factors of the same remainder.
LEMMA CongruentTimes ==
  ASSUME NEW s \in Nat \ {0}, NEW a \in Nat, NEW b \in Nat, NEW m \in Nat,
         Congruent(s, a, b)
  PROVE  Congruent(s, a * m, b * m)
<1> DEFINE p == a \div s
           q == b \div s
           r == a % s
           pm == p * m
           qm == q * m
           rm == r * m
           am == a * m
           bm == b * m
<1>1. p \in Nat /\ r \in Nat /\ a = p * s + r /\ q \in Nat /\ b = q * s + r
  <2>1. /\ a \div s \in Nat /\ a % s \in 0 .. s - 1 /\ a = (a \div s) * s + (a % s)
        /\ b \div s \in Nat /\ b % s \in 0 .. s - 1 /\ b = (b \div s) * s + (b % s)
    BY QuotientIs
  <2> QED
    BY <2>1 DEF Congruent
<1> HIDE DEF p, q, r
<1>2. pm \in Nat /\ qm \in Nat /\ rm \in Nat /\ am \in Nat /\ bm \in Nat
  BY <1>1
<1>3. am = pm * s + rm
  BY <1>1
<1>4. bm = qm * s + rm
  BY <1>1
<1> HIDE DEF pm, qm, rm, am, bm
<1> DEFINE x == pm * s
           y == qm * s
<1>5. x \in Nat /\ y \in Nat
  BY <1>2
<1>6. am + y = bm + x
  <2> HIDE DEF x, y
  <2>1. am = x + rm /\ bm = y + rm
    BY <1>3, <1>4 DEF x, y
  <2> QED
    BY <1>2, <1>5, <2>1
<1> HIDE DEF x, y
<1>7. /\ s \in Nat \ {0} /\ am \in Nat /\ bm \in Nat /\ qm \in Nat /\ pm \in Nat
      /\ am + qm * s = bm + pm * s
  BY <1>2, <1>6 DEF x, y
<1>8. am % s = bm % s
  BY ONLY <1>7, SameRemainder
<1> QED
  BY <1>8 DEF am, bm, Congruent

\* The same for remainders, as the steps below have them.
LEMMA SameTimes ==
  ASSUME NEW s \in Nat \ {0}, NEW a \in Nat, NEW b \in Nat, NEW m \in Nat,
         a % s = b % s
  PROVE  (a * m) % s = (b * m) % s
<1>1. Congruent(s, a, b)
  BY DEF Congruent
<1>2. Congruent(s, a * m, b * m)
  BY <1>1, CongruentTimes
<1> QED
  BY <1>2 DEF Congruent

\* An odd number has an inverse modulo every power of two.
LEMMA OddInverse ==
  ASSUME NEW h \in Nat, NEW e \in Nat
  PROVE  \E v, j \in Nat : (2 * h + 1) * v = 1 + Pow2[e] * j
<1> DEFINE elt == 2 * h + 1
           S == {i \in Nat : \E v, j \in Nat : elt * v = 1 + Pow2[i] * j}
<1>1. 0 \in S
  <2>1. elt * 1 = 1 + Pow2[0] * (2 * h) /\ 2 * h \in Nat
    BY Pow2Is
  <2> QED
    BY <2>1
<1>2. ASSUME NEW i \in S PROVE i + 1 \in S
  <2>1. i \in Nat /\ i + 1 \in Nat
    OBVIOUS
  <2>2. PICK v \in Nat, j \in Nat : elt * v = 1 + Pow2[i] * j
    OBVIOUS
  <2> DEFINE P == Pow2[i]
             Q == Pow2[i + 1]
  <2>3. P \in Nat /\ Q = 2 * P
    BY <2>1, Pow2Is, Pow2Type
  <2>4. elt \in Nat
    OBVIOUS
  <2> HIDE DEF P, Q
  <2>5. CASE j % 2 = 0
    <3> DEFINE u == j \div 2
    <3>1. u \in Nat /\ j = 2 * u
      BY <2>5
    <3> HIDE DEF u
    <3>2. elt * v = 1 + P * (2 * u)
      BY <2>2, <3>1 DEF P
    <3>3. P * (2 * u) = Q * u
      BY <2>3, <3>1
    <3>4. elt * v = 1 + Q * u
      BY <3>2, <3>3
    <3> QED
      BY <2>1, <3>1, <3>4 DEF Q
  <2>6. CASE j % 2 # 0
    <3> DEFINE u == (j + 1) \div 2 + h
               w == v + P
    <3>1. u \in Nat /\ j + elt = 2 * u
      BY <2>6
    <3> HIDE DEF u
    <3>2. w \in Nat /\ elt * w = elt * v + P * elt
      BY <2>3, <2>4
    <3> HIDE DEF w
    <3>3. P * j + P * elt = P * (j + elt)
      BY <2>3, <2>4
    <3>4. P * (2 * u) = Q * u
      BY <2>3, <3>1
    <3> DEFINE a == P * j
               b == P * elt
               c == Q * u
    <3>5. a \in Nat /\ b \in Nat /\ a + b = c
      BY <2>3, <2>4, <3>1, <3>3, <3>4
    <3>6. elt * w = (1 + a) + b
      BY <2>2, <3>2 DEF P
    <3> HIDE DEF a, b, elt
    <3>7. elt * w = 1 + c
      BY <3>5, <3>6
    <3>8. elt * w = 1 + Pow2[i + 1] * u
      BY <3>7 DEF Q
    <3> QED
      BY <2>1, <3>1, <3>2, <3>8
  <2> QED
    BY <2>5, <2>6
<1>3. S \in SUBSET Nat
  OBVIOUS
<1> HIDE DEF S
<1>4. S = Nat
  BY <1>1, <1>2, <1>3, Induction
<1>5. e \in S
  BY <1>4
<1>6. \E v, j \in Nat : elt * v = 1 + Pow2[e] * j
  <2> HIDE DEF elt
  <2> QED
    BY <1>5 DEF S
<1> QED
  BY <1>6

\* Less than what is divided by.
LEMMA SmallMod ==
  ASSUME NEW b \in Nat \ {0}, NEW a \in 0 .. b - 1
  PROVE  a \div b = 0 /\ a % b = a
<1>1. a = 0 * b + a /\ 0 \in Nat
  OBVIOUS
<1> QED
  BY <1>1, DivIs
=============================================================================
