---------------------------- MODULE CoeffsProofs ----------------------------
(***************************************************************************)
(* For every byte string, width and number of coefficients, as wide as     *)
(* they may be: the two loops of Coeffs move the bits, all of them and in  *)
(* order, so that unpacking gives back what was packed; they stay in step, *)
(* and the first one within its output.                                    *)
(***************************************************************************)
EXTENDS Coeffs, ArithmeticLemmas

-----------------------------------------------------------------------------
\* The last element replaced.
LEMMA Replaced ==
  ASSUME NEW S, NEW s \in Seq(S), Len(s) > 0, NEW x \in S
  PROVE  /\ Append(Front(s), x) \in Seq(S)
         /\ Len(Append(Front(s), x)) = Len(s)
         /\ Last(Append(Front(s), x)) = x
         /\ \A i \in 1 .. Len(s) - 1 : Append(Front(s), x)[i] = s[i]
         /\ Append(Front(s), x)[Len(s)] = x
<1>1. Front(s) \in Seq(S) /\ Len(Front(s)) = Len(s) - 1
      /\ \A i \in 1 .. Len(s) - 1 : Front(s)[i] = s[i]
  <2> DEFINE n == Len(s) - 1
             f == SubSeq(s, 1, n)
  <2>1. n \in Nat /\ \A i \in 1 .. n : s[i] \in S
    OBVIOUS
  <2>2. Front(s) = f
    BY DEF Front
  <2> HIDE DEF n
  <2>3. /\ f \in Seq(S)
        /\ Len(f) = IF 1 <= n THEN n - 1 + 1 ELSE 0
        /\ \A i \in 1 .. n : f[i] = s[1 + i - 1]
    BY <2>1, SubSeqProperties
  <2>4. Len(f) = n /\ \A i \in 1 .. n : f[i] = s[i]
    BY <2>1, <2>3
  <2> QED
    BY <2>2, <2>3, <2>4 DEF n
<1> DEFINE f == Front(s)
           r == Append(f, x)
<1>2. /\ f \in Seq(S) /\ Len(f) = Len(s) - 1
      /\ \A i \in 1 .. Len(s) - 1 : f[i] = s[i]
  BY <1>1
<1> HIDE DEF f
<1>3. /\ r \in Seq(S) /\ Len(r) = Len(s) /\ r[Len(s)] = x
      /\ \A i \in 1 .. Len(s) - 1 : r[i] = f[i]
  BY <1>2
<1>4. Last(r) = x
  BY <1>3 DEF Last
<1> QED
  BY <1>2, <1>3, <1>4 DEF f

LEMMA NumberReplaced ==
  ASSUME NEW s \in Seq(Nat), Len(s) > 0, NEW x \in Nat
  PROVE  /\ Append(Front(s), x) \in Seq(Nat)
         /\ Len(Append(Front(s), x)) = Len(s)
         /\ Last(Append(Front(s), x)) = x
         /\ \A i \in 1 .. Len(s) - 1 : Append(Front(s), x)[i] = s[i]
         /\ Append(Front(s), x)[Len(s)] = x
BY Replaced

\* One more element is another last one, ...
LEMMA Extended ==
  ASSUME NEW S, NEW s \in Seq(S), NEW x \in S
  PROVE  /\ Append(s, x) \in Seq(S) /\ Len(Append(s, x)) = Len(s) + 1
         /\ Last(Append(s, x)) = x
         /\ \A i \in 1 .. Len(s) : Append(s, x)[i] = s[i]
<1> DEFINE r == Append(s, x)
<1>1. /\ r \in Seq(S) /\ Len(r) = Len(s) + 1 /\ r[Len(s) + 1] = x
      /\ \A i \in 1 .. Len(s) : r[i] = s[i]
  OBVIOUS
<1>2. Last(r) = x
  BY <1>1 DEF Last
<1> QED
  BY <1>1, <1>2

\* ... which can be replaced.
LEMMA ExtendedReplaced ==
  ASSUME NEW S, NEW s \in Seq(S), NEW x \in S, NEW y \in S
  PROVE  Append(Front(Append(s, x)), y) = Append(s, y)
<1> DEFINE r == Append(s, x)
<1>1. /\ r \in Seq(S) /\ Len(r) = Len(s) + 1 /\ r[Len(s) + 1] = x
      /\ \A i \in 1 .. Len(s) : r[i] = s[i]
  OBVIOUS
<1>2. Append(Front(r), y) = Append(s, y)
  <2> DEFINE u == Append(Front(r), y)
             v == Append(s, y)
  <2>1. /\ v \in Seq(S) /\ Len(v) = Len(s) + 1 /\ v[Len(s) + 1] = y
        /\ \A i \in 1 .. Len(s) : v[i] = s[i]
    OBVIOUS
  <2> HIDE DEF r
  <2>2. Len(s) \in Nat /\ Len(r) > 0 /\ Len(r) - 1 = Len(s)
    BY <1>1
  <2>3. /\ u \in Seq(S) /\ Len(u) = Len(s) + 1 /\ u[Len(s) + 1] = y
        /\ \A i \in 1 .. Len(s) : u[i] = s[i]
    BY <1>1, <2>2, Replaced
  <2> HIDE DEF u, v
  <2>4. \A i \in 1 .. Len(u) : u[i] = v[i]
    BY <2>1, <2>2, <2>3
  <2> QED
    BY <2>1, <2>3, <2>4, SeqEqual DEF u, v
<1> QED
  BY <1>2 DEF r

\* Bytes are numbers.
LEMMA ByteNumbers ==
  ASSUME NEW s \in Seq(0 .. 255)
  PROVE  s \in Seq(Nat)
<1> DEFINE n == Len(s)
           g == [i \in 1 .. n |-> s[i]]
<1>1. n \in Nat /\ s = g
  OBVIOUS
<1>2. ASSUME NEW i \in 1 .. n PROVE s[i] \in Nat
  <2> DEFINE x == s[i]
  <2>1. x \in 0 .. 255
    BY ElementOfSeq
  <2> HIDE DEF x
  <2>2. x \in Nat
    BY <2>1
  <2> QED
    BY <2>2 DEF x
<1>3. g \in [1 .. n -> Nat]
  BY <1>2
<1> HIDE DEF g, n
<1>4. g \in Seq(Nat)
  BY <1>1, <1>3
<1> QED
  BY <1>1, <1>4

\* What a uint8_t keeps.
LEMMA Uint8Is ==
  ASSUME NEW x \in Nat
  PROVE  /\ uint8(x) \in 0 .. 255
         /\ x < 256 => uint8(x) = x
         /\ \A j \in 0 .. 7 : BitOf(uint8(x), j) = BitOf(x, j)
         /\ \A y \in Nat : uint8(uint8(x) * y) = uint8(x * y)
<1>1. Pow2[8] = 256
  BY EightBits
<1>2. ASSUME NEW j \in 0 .. 7 PROVE BitOf(x % 256, j) = BitOf(x, j)
  <2>1. 8 \in Nat /\ j \in Nat /\ j < 8
    OBVIOUS
  <2>2. BitOf(x % Pow2[8], j) = BitOf(x, j)
    BY <2>1, BitsShifted
  <2> QED
    BY <1>1, <2>2
<1>3. ASSUME NEW y \in Nat PROVE ((x % 256) * y) % 256 = (x * y) % 256
  <2> DEFINE q == x \div 256
             r == x % 256
             p == (r * y) \div 256
             m == (r * y) % 256
  <2>1. q \in Nat /\ r \in Nat /\ x = q * 256 + r
    OBVIOUS
  <2> HIDE DEF q, r
  <2>2. r * y \in Nat
    BY <2>1
  <2>3. p \in Nat /\ m \in 0 .. 255 /\ r * y = p * 256 + m
    BY <2>2
  <2>4. q * y + p \in Nat
    BY <2>1, <2>3
  <2> HIDE DEF p, m
  <2>5. x * y = (q * y + p) * 256 + m
    <3>1. x * y = (q * y) * 256 + r * y
      BY <2>1
    <3> DEFINE u == q * y
               v == r * y
    <3>2. u \in Nat /\ v \in Nat /\ x * y = u * 256 + v /\ v = p * 256 + m
      BY <2>1, <2>2, <2>3, <3>1
    <3> HIDE DEF u, v
    <3>3. x * y = (u + p) * 256 + m
      BY <2>3, <3>2
    <3> QED
      BY <3>3 DEF u
  <2> DEFINE a == x * y
             c == q * y + p
  <2>6. c \in Nat /\ a = c * 256 + m /\ m \in 0 .. 256 - 1 /\ 256 \in Nat \ {0}
    BY <2>3, <2>4, <2>5
  <2> HIDE DEF a, c
  <2>7. a % 256 = m
    BY <2>6, DivIs
  <2> QED
    BY <2>7 DEF a, m, r
<1> QED
  BY <1>2, <1>3 DEF uint8

\* Two numbers joined have as many bits as they have.
LEMMA JoinFits ==
  ASSUME NEW a \in Nat, NEW m \in Nat, NEW x \in Nat, NEW s \in Nat,
         a < Pow2[m], x < Pow2[s]
  PROVE  a * Pow2[s] + x \in Nat /\ a * Pow2[s] + x < Pow2[m + s]
<1> DEFINE A == Pow2[m]
           B == Pow2[s]
<1>1. A \in Nat /\ B \in Nat /\ Pow2[m + s] = A * B /\ a < A /\ x < B
  BY Pow2Type, Pow2Sum
<1> HIDE DEF A, B
<1>2. a * B <= (A - 1) * B /\ (A - 1) * B = A * B - B
  BY <1>1
<1> DEFINE u == a * B
           v == A * B
<1>3. u \in Nat /\ v \in Nat /\ u <= v - B
  BY <1>1, <1>2
<1> HIDE DEF u, v
<1>4. u + x \in Nat /\ u + x < v
  BY <1>1, <1>3
<1> QED
  BY <1>1, <1>4 DEF u, v, B

\* What is left of a number without its last bits.
LEMMA TopFits ==
  ASSUME NEW x \in Nat, NEW m \in Nat, NEW s \in Nat, x < Pow2[m + s]
  PROVE  x \div Pow2[m] \in Nat /\ x \div Pow2[m] < Pow2[s]
<1> DEFINE A == Pow2[m]
           B == Pow2[s]
           q == x \div A
<1>1. A \in Nat \ {0} /\ B \in Nat \ {0} /\ x < A * B
  BY Pow2Type, Pow2Sum
<1>2. q \in Nat /\ x = q * A + (x % A) /\ x % A \in Nat
  <2> HIDE DEF A
  <2> QED
    BY <1>1, QuotientIs
<1> HIDE DEF A, B, q
<1>3. q < B
  <2>1. ASSUME q >= B PROVE q * A >= A * B
    <3>1. q * A >= B * A
      BY <1>1, <1>2, <2>1
    <3> QED
      BY <1>1, <3>1
  <2> DEFINE u == q * A
             v == A * B
             w == x % A
  <2>2. u \in Nat /\ v \in Nat /\ w \in Nat /\ x = u + w /\ x < v
    BY <1>1, <1>2
  <2>3. q >= B => u >= v
    BY <2>1
  <2> HIDE DEF u, v, w
  <2>4. ~ (q >= B)
    BY <2>2, <2>3
  <2> QED
    BY <1>1, <1>2, <2>4
<1> QED
  BY <1>2, <1>3 DEF q, A, B

\* What is in the source of the first loop, of the byte x with left bits to go:
\* its next shift bits, and what a further shift makes of it.
LEMMA ByteShifted ==
  ASSUME NEW x \in 0 .. 255, NEW left \in 1 .. 8, NEW shift \in 1 .. 8, shift <= left
  PROVE  LET s == uint8(x * Pow2[8 - left])
         IN  /\ s \in 0 .. 255
             /\ s \div Pow2[8 - shift] \in Nat
             /\ s \div Pow2[8 - shift] < Pow2[shift]
             /\ \A j \in 0 .. shift - 1 :
                  BitOf(s \div Pow2[8 - shift], j) = BitOf(x, left - shift + j)
             /\ uint8(s * Pow2[shift]) = uint8(x * Pow2[8 - (left - shift)])
<1> DEFINE s == uint8(x * Pow2[8 - left])
           y == x * Pow2[8 - left]
<1>1. 8 - left \in Nat /\ 8 - shift \in Nat /\ shift \in Nat
  OBVIOUS
<1>2. y \in Nat
  <2>1. Pow2[8 - left] \in Nat
    BY <1>1, Pow2Type
  <2> QED
    BY <2>1
<1>3. s \in 0 .. 255 /\ \A j \in 0 .. 7 : BitOf(s, j) = BitOf(y, j)
  <2>1. s = uint8(y)
    OBVIOUS
  <2> HIDE DEF s, y
  <2> QED
    BY <1>2, <2>1, Uint8Is
<1> HIDE DEF s
<1>4. s \div Pow2[8 - shift] \in Nat /\ s \div Pow2[8 - shift] < Pow2[shift]
  <2>1. s < Pow2[(8 - shift) + shift]
    <3>1. (8 - shift) + shift = 8
      OBVIOUS
    <3> QED
      BY <1>3, <3>1, EightBits
  <2> DEFINE m == 8 - shift
  <2>2. m \in Nat /\ s \in Nat /\ s < Pow2[m + shift]
    BY <1>1, <1>3, <2>1
  <2> HIDE DEF m
  <2>3. s \div Pow2[m] \in Nat /\ s \div Pow2[m] < Pow2[shift]
    BY <1>1, <2>2, TopFits
  <2> QED
    BY <2>3 DEF m
<1>5. ASSUME NEW j \in 0 .. shift - 1
      PROVE  BitOf(s \div Pow2[8 - shift], j) = BitOf(x, left - shift + j)
  <2> DEFINE m == 8 - shift
             n == 8 - left
             k == j + m
  <2>1. /\ m \in Nat /\ n \in Nat /\ j \in Nat /\ k \in 0 .. 7 /\ k \in Nat
        /\ ~ (k < n) /\ k - n = left - shift + j
    OBVIOUS
  <2>2. y = x * Pow2[n] /\ x \in Nat /\ s \in Nat
    BY <1>3
  <2> HIDE DEF m, n, y
  <2>3. BitOf(s \div Pow2[m], j) = BitOf(s, j + m)
    BY <2>1, <2>2, BitsShifted
  <2>4. BitOf(s, k) = BitOf(y, k)
    BY <1>3, <2>1
  <2> HIDE DEF k
  <2>5. BitOf(x * Pow2[n], k) = IF k < n THEN 0 ELSE BitOf(x, k - n)
    BY <2>1, <2>2, BitsShifted
  <2>6. BitOf(y, k) = BitOf(x, k - n)
    BY <2>1, <2>2, <2>5
  <2> QED
    BY <2>1, <2>3, <2>4, <2>6 DEF k, m
<1>6. uint8(s * Pow2[shift]) = uint8(x * Pow2[8 - (left - shift)])
  <2> DEFINE A == Pow2[8 - left]
             B == Pow2[shift]
  <2>1. A \in Nat /\ B \in Nat
    BY <1>1, Pow2Type
  <2>2. Pow2[(8 - left) + shift] = A * B
    BY <1>1, Pow2Sum
  <2>3. (8 - left) + shift = 8 - (left - shift)
    OBVIOUS
  <2>4. s = uint8(y) /\ y = x * A
    BY DEF s
  <2> HIDE DEF A, B, y
  <2>5. uint8(uint8(y) * B) = uint8(y * B)
    BY <1>2, <2>1, Uint8Is
  <2>6. y * B = x * (A * B)
    BY <2>1, <2>4
  <2> QED
    BY <2>2, <2>3, <2>4, <2>5, <2>6 DEF B
<1> QED
  BY <1>3, <1>4, <1>5, <1>6 DEF s

-----------------------------------------------------------------------------
\* One turn of either loop: the last element of the target gets shift of the
\* rest bits that are left of element at of the source behind its own.
LEMMA HoldsMore ==
  ASSUME NEW target \in Seq(Nat), Len(target) > 0, NEW width \in Nat \ {0},
         NEW free \in 1 .. width, NEW source, NEW of \in Nat \ {0},
         NEW i \in Nat \ {0}, NEW left \in 1 .. of,
         NEW shift \in Nat \ {0}, shift <= free, shift <= left,
         of * i - left = width * Len(target) - free,
         Holds(target, width, free, source, of),
         NEW x \in Nat,
         \A j \in 0 .. shift - 1 : BitOf(x, j) = BitOf(source[i], left - shift + j),
         \A j \in shift .. width - free + shift - 1 :
           BitOf(x, j) = BitOf(Last(target), j - shift)
  PROVE  Holds(Append(Front(target), x), width, free - shift, source, of)
<1> DEFINE n == Len(target)
           r == Append(Front(target), x)
           bits == width * n
<1>1. /\ Len(r) = n /\ r[n] = x /\ \A k \in 1 .. n - 1 : r[k] = target[k]
  <2>1. /\ Len(Append(Front(target), x)) = Len(target)
        /\ Append(Front(target), x)[Len(target)] = x
        /\ \A k \in 1 .. Len(target) - 1 : Append(Front(target), x)[k] = target[k]
    <3>1. target \in Seq(Nat) /\ Len(target) > 0 /\ x \in Nat
      OBVIOUS
    <3> QED
      BY ONLY <3>1, NumberReplaced
  <2> QED
    BY <2>1
<1>2. n \in Nat \ {0} /\ bits \in Nat /\ Last(target) = target[n]
  BY DEF Last
<1>3. ASSUME NEW j \in 0 .. width - (free - shift) - 1
      PROVE  BitOf(x, j) = Bit(source, of, bits - (free - shift) - 1 - j)
  <2>1. CASE j < shift
    <3> DEFINE o == of - left + shift - 1 - j
               b == bits - (free - shift) - 1 - j
               before == of * (i - 1)
    <3>1. o \in 0 .. of - 1 /\ i - 1 \in Nat /\ of - 1 - o = left - shift + j
      BY <2>1
    <3>2. before = of * i - of /\ before \in Nat /\ of * i \in Nat
      BY <3>1
    <3>3. of * i - left = bits - free
      OBVIOUS
    <3> DEFINE all == of * i
    <3>4. all \in Nat /\ before = all - of /\ all - left = bits - free
      BY <3>2, <3>3
    <3> HIDE DEF before, bits, all
    <3>5. b = before + o
      BY <1>2, <2>1, <3>1, <3>4
    <3>6. b = (i - 1) * of + o
      <4>1. (i - 1) * of = before
        BY DEF before
      <4> QED
        BY <3>5, <4>1
    <3> DEFINE q == i - 1
    <3>7. b \div of = i - 1 /\ b % of = o
      <4>1. q \in Nat /\ o \in 0 .. of - 1 /\ b = q * of + o
        BY <3>1, <3>6
      <4> HIDE DEF b, o, q
      <4>2. b \div of = q /\ b % of = o
        BY <4>1, DivIs
      <4> QED
        BY <4>2 DEF q
    <3> HIDE DEF b, o
    <3>8. (i - 1) + 1 = i
      OBVIOUS
    <3>9. Bit(source, of, b) = BitOf(source[i], left - shift + j)
      BY <3>1, <3>7, <3>8 DEF Bit
    <3>10. j \in 0 .. shift - 1
      BY <2>1
    <3> QED
      BY <3>9, <3>10 DEF b, bits
  <2>2. CASE ~ (j < shift)
    <3>1. j \in shift .. width - free + shift - 1 /\ j - shift \in 0 .. width - free - 1
      BY <2>2
    <3>2. BitOf(x, j) = BitOf(target[n], j - shift)
      BY <1>2, <3>1
    <3>3. BitOf(target[n], j - shift) = Bit(source, of, bits - free - 1 - (j - shift))
      <4>1. LET missing == IF n = Len(target) THEN free ELSE 0
            IN  \A k \in 0 .. width - missing - 1 :
                  BitOf(target[n], k) = Bit(source, of, width * n - missing - 1 - k)
        <5>1. n \in 1 .. Len(target)
          BY <1>2
        <5> QED
          BY <5>1, Zenon DEF Holds
      <4>2. \A k \in 0 .. width - free - 1 :
              BitOf(target[n], k) = Bit(source, of, bits - free - 1 - k)
        BY <4>1
      <4> HIDE DEF n, bits
      <4> QED
        BY <3>1, <4>2
    <3>4. bits - free - 1 - (j - shift) = bits - (free - shift) - 1 - j
      <4> HIDE DEF bits
      <4> QED
        BY <1>2
    <3> QED
      BY <3>2, <3>3, <3>4
  <2> QED
    BY <2>1, <2>2
<1>4. ASSUME NEW k \in 1 .. n - 1, NEW j \in 0 .. width - 0 - 1
      PROVE  BitOf(target[k], j) = Bit(source, of, width * k - 0 - 1 - j)
  <2>1. LET missing == IF k = Len(target) THEN free ELSE 0
        IN  \A m \in 0 .. width - missing - 1 :
              BitOf(target[k], m) = Bit(source, of, width * k - missing - 1 - m)
    <3>1. k \in 1 .. Len(target)
      BY <1>2
    <3> QED
      BY <3>1, Zenon DEF Holds
  <2>2. k # Len(target)
    BY <1>2
  <2> QED
    BY <2>1, <2>2
<1> HIDE DEF r, n
<1> SUFFICES ASSUME NEW k \in 1 .. Len(r)
             PROVE  LET missing == IF k = Len(r) THEN free - shift ELSE 0
                    IN  \A j \in 0 .. width - missing - 1 :
                          BitOf(r[k], j) = Bit(source, of, width * k - missing - 1 - j)
  BY DEF Holds, r
<1>5. CASE k = n
  BY <1>1, <1>3, <1>5
<1>6. CASE k # n
  <2>1. k \in 1 .. n - 1
    BY <1>1, <1>2, <1>6
  <2> QED
    BY <1>1, <1>4, <1>6, <2>1
<1> QED
  BY <1>5, <1>6

\* Behind a full element a new one begins that holds nothing yet.
LEMMA HoldsNew ==
  ASSUME NEW target \in Seq(Nat), NEW width \in Nat \ {0},
         NEW source, NEW of, Holds(target, width, 0, source, of)
  PROVE  Holds(Append(target, 0), width, width, source, of)
<1> DEFINE n == Len(target)
           r == Append(target, 0)
<1>1. n \in Nat /\ Len(r) = n + 1 /\ \A k \in 1 .. n : r[k] = target[k]
  OBVIOUS
<1>2. ASSUME NEW k \in 1 .. n, NEW j \in 0 .. width - 0 - 1
      PROVE  BitOf(target[k], j) = Bit(source, of, width * k - 0 - 1 - j)
  BY DEF Holds
<1> HIDE DEF r, n
<1> SUFFICES ASSUME NEW k \in 1 .. Len(r)
             PROVE  LET missing == IF k = Len(r) THEN width ELSE 0
                    IN  \A j \in 0 .. width - missing - 1 :
                          BitOf(r[k], j) = Bit(source, of, width * k - missing - 1 - j)
  BY DEF Holds, r
<1>3. CASE k = n + 1
  BY <1>1, <1>3
<1>4. CASE k # n + 1
  <2>1. k \in 1 .. n
    BY <1>1, <1>4
  <2> QED
    BY <1>1, <1>2, <1>4, <2>1
<1> QED
  BY <1>3, <1>4

\* The bits of one element of the target.
LEMMA HoldsAt ==
  ASSUME NEW target, NEW width, NEW free, NEW source, NEW of,
         Holds(target, width, free, source, of),
         NEW k \in 1 .. Len(target),
         NEW missing, missing = IF k = Len(target) THEN free ELSE 0,
         NEW j \in 0 .. width - missing - 1
  PROVE  BitOf(target[k], j) = Bit(source, of, width * k - missing - 1 - j)
BY Zenon DEF Holds

-----------------------------------------------------------------------------
CoeffsInv == LoopInv /\ BitsInv

\* The first loop starts on the first byte with an empty coefficient.
LEMMA LoopInit == Init => CoeffsInv
<1> SUFFICES ASSUME Init PROVE CoeffsInv
  OBVIOUS
<1>1. /\ limit \in Nat \ {0} /\ bytes \in Seq(0 .. 255) /\ bytes # <<>>
      /\ size_out(Len(bytes)) <= CoeffCount
  BY CoeffsAssumption DEF Init
<1>2. Len(bytes) \in Nat \ {0}
  BY <1>1
<1>3. /\ pc = "pack" /\ at = 1 /\ src = bytes[1] /\ rest = 8 /\ room = limit
      /\ coeffs = <<0>>
  BY DEF Init
<1>4. coeffs \in Seq(Nat) /\ Len(coeffs) = 1 /\ Last(coeffs) = 0
  BY <1>3 DEF Last
<1>5. InStep
  BY <1>1, <1>3, <1>4 DEF InStep
<1>6. LoopInv
  BY <1>1, <1>2, <1>3, <1>4, <1>5 DEF LoopInv
<1>7. src = uint8(bytes[at] * Pow2[8 - rest])
  <2> DEFINE x == bytes[1]
  <2>1. x \in 0 .. 255
    <3>1. 1 \in 1 .. Len(bytes) /\ bytes \in Seq(0 .. 255)
      BY <1>1, <1>2
    <3> QED
      BY <3>1, ElementOfSeq
  <2>2. bytes[at] * Pow2[8 - rest] = x * 1 /\ src = x
    BY <1>3, EightBits
  <2> HIDE DEF x
  <2>3. x \in Nat /\ x < 256 /\ x * 1 = x
    BY <2>1
  <2>4. uint8(x) = x
    BY <2>3, Uint8Is
  <2> QED
    BY <2>2, <2>3, <2>4
<1>8. Last(coeffs) < Pow2[limit - room]
  <2>1. limit - limit = 0
    BY <1>1
  <2> QED
    BY <1>3, <1>4, <2>1, EightBits
<1>9. Holds(coeffs, limit, room, bytes, 8)
  <2>1. Holds(<<>>, limit, 0, bytes, 8)
    BY DEF Holds
  <2>2. Append(<<>>, 0) = coeffs
    BY <1>3
  <2>3. Holds(Append(<<>>, 0), limit, limit, bytes, 8)
    <3>1. <<>> \in Seq(Nat)
      OBVIOUS
    <3> QED
      BY <1>1, <2>1, <3>1, HoldsNew
  <2> QED
    BY <1>3, <2>2, <2>3
<1>10. BitsInv
  BY <1>1, <1>3, <1>4, <1>7, <1>8, <1>9 DEF BitsInv
<1> QED
  BY <1>6, <1>10 DEF CoeffsInv

\* The bits that leave the byte are those the coefficient gains.
LEMMA PackBits == CoeffsInv /\ pack_bits => CoeffsInv'
<1> SUFFICES ASSUME CoeffsInv, pack_bits PROVE CoeffsInv'
  OBVIOUS
<1> DEFINE fresh == room = 0
           free == IF fresh THEN limit ELSE room
           shift == Lesser(rest, free)
           target == IF fresh THEN 0 ELSE Last(coeffs)
           top == src \div Pow2[8 - shift]
           filled == target * Pow2[shift] + top
           base == IF fresh THEN Append(coeffs, 0) ELSE coeffs
           next == Append(Front(base), filled)
<1>1. /\ pc = "pack" /\ pc' = "pack" /\ rest > 0
      /\ bytes' = bytes /\ limit' = limit /\ at' = at
      /\ coeffs' = Append(IF fresh THEN coeffs ELSE Front(coeffs), filled)
      /\ src' = uint8(src * Pow2[shift])
      /\ room' = free - shift /\ rest' = rest - shift
  BY DEF pack_bits
<1>2. /\ limit \in Nat \ {0} /\ Len(bytes) \in Nat \ {0}
      /\ bytes \in Seq(0 .. 255) /\ size_out(Len(bytes)) <= CoeffCount
      /\ at \in 1 .. Len(bytes) /\ rest \in 1 .. 8
      /\ room \in 0 .. limit /\ (room = limit => Len(coeffs) = 1)
      /\ coeffs \in Seq(Nat) /\ Len(coeffs) \in Nat \ {0}
      /\ 8 * at - rest = limit * Len(coeffs) - room
  BY <1>1 DEF CoeffsInv, LoopInv, BitsInv, InStep
<1>3. /\ src = uint8(bytes[at] * Pow2[8 - rest])
      /\ \A i \in 1 .. Len(coeffs) - 1 : coeffs[i] < Pow2[limit]
      /\ Last(coeffs) < Pow2[limit - room]
      /\ Holds(coeffs, limit, room, bytes, 8)
  BY <1>1 DEF CoeffsInv, BitsInv
<1>4. /\ free \in 1 .. limit /\ shift \in 1 .. 8
      /\ shift <= free /\ shift <= rest
      /\ (shift = rest \/ shift = free)
  BY <1>2 DEF Lesser
<1>5. /\ src \in 0 .. 255 /\ top \in Nat /\ top < Pow2[shift]
      /\ \A j \in 0 .. shift - 1 : BitOf(top, j) = BitOf(bytes[at], rest - shift + j)
      /\ src' = uint8(bytes[at] * Pow2[8 - (rest - shift)])
  <2> DEFINE x == bytes[at]
  <2>1. x \in 0 .. 255 /\ src = uint8(x * Pow2[8 - rest])
    <3>1. bytes \in Seq(0 .. 255) /\ at \in 1 .. Len(bytes)
      BY <1>2
    <3>2. bytes[at] \in 0 .. 255
      BY <3>1, ElementOfSeq
    <3> QED
      BY <1>3, <3>2
  <2>2. rest \in 1 .. 8 /\ shift \in 1 .. 8 /\ shift <= rest
    BY <1>2, <1>4
  <2> HIDE DEF shift, x
  <2>3. /\ src \in 0 .. 255
        /\ src \div Pow2[8 - shift] \in Nat
        /\ src \div Pow2[8 - shift] < Pow2[shift]
        /\ \A j \in 0 .. shift - 1 :
             BitOf(src \div Pow2[8 - shift], j) = BitOf(x, rest - shift + j)
        /\ uint8(src * Pow2[shift]) = uint8(x * Pow2[8 - (rest - shift)])
    <3>1. LET s == uint8(x * Pow2[8 - rest])
          IN  /\ s \in 0 .. 255
              /\ s \div Pow2[8 - shift] \in Nat
              /\ s \div Pow2[8 - shift] < Pow2[shift]
              /\ \A j \in 0 .. shift - 1 :
                   BitOf(s \div Pow2[8 - shift], j) = BitOf(x, rest - shift + j)
              /\ uint8(s * Pow2[shift]) = uint8(x * Pow2[8 - (rest - shift)])
      <4>1. x \in 0 .. 255 /\ rest \in 1 .. 8 /\ shift \in 1 .. 8 /\ shift <= rest
        BY <2>1, <2>2
      <4> QED
        BY ONLY <4>1, ByteShifted, Zenon
    <3> QED
      BY <2>1, <3>1, Zenon
  <2> QED
    BY <1>1, <2>3 DEF x
<1>6. /\ base \in Seq(Nat)
      /\ Len(base) = IF fresh THEN Len(coeffs) + 1 ELSE Len(coeffs)
      /\ Last(base) = target
      /\ target \in Nat /\ target < Pow2[limit - free]
      /\ \A i \in 1 .. Len(base) - 1 : base[i] < Pow2[limit]
      /\ Holds(base, limit, free, bytes, 8)
      /\ coeffs' = next
  <2>1. CASE fresh
    <3>1. /\ Append(coeffs, 0) \in Seq(Nat)
          /\ Len(Append(coeffs, 0)) = Len(coeffs) + 1
          /\ Last(Append(coeffs, 0)) = 0
          /\ \A i \in 1 .. Len(coeffs) : Append(coeffs, 0)[i] = coeffs[i]
      BY <1>2, Extended
    <3>2. Holds(Append(coeffs, 0), limit, limit, bytes, 8)
      BY <1>2, <1>3, <2>1, HoldsNew
    <3>3. limit - 0 = limit /\ limit - limit = 0 /\ 0 < Pow2[0]
      BY <1>2, EightBits
    <3>4. \A i \in 1 .. Len(coeffs) : coeffs[i] < Pow2[limit]
      BY <1>2, <1>3, <2>1, <3>3 DEF Last
    <3>5. filled \in Nat => coeffs' = next
      <4> HIDE DEF filled
      <4>1. filled \in Nat => Append(Front(Append(coeffs, 0)), filled) = Append(coeffs, filled)
        <5> SUFFICES ASSUME filled \in Nat
                     PROVE  Append(Front(Append(coeffs, 0)), filled) = Append(coeffs, filled)
          OBVIOUS
        <5>1. coeffs \in Seq(Nat) /\ 0 \in Nat
          BY <1>2
        <5> QED
          BY <5>1, ExtendedReplaced
      <4> QED
        BY <1>1, <2>1, <4>1
    <3>6. filled \in Nat
      <4>1. top \in Nat /\ Pow2[shift] \in Nat
        BY <1>4, <1>5, Pow2Type
      <4> HIDE DEF top, shift
      <4> QED
        BY <2>1, <4>1
    <3> HIDE DEF filled
    <3> QED
      BY <1>2, <2>1, <3>1, <3>2, <3>3, <3>4, <3>5, <3>6
  <2>2. CASE ~ fresh
    <3>1. Last(coeffs) \in Nat
      BY <1>2 DEF Last
    <3>2. coeffs' = next
      BY <1>1, <2>2
    <3> HIDE DEF filled, next
    <3> QED
      BY <1>2, <1>3, <2>2, <3>1, <3>2
  <2> QED
    BY <2>1, <2>2
<1> HIDE DEF next
<1>7. limit * Len(base) - free = limit * Len(coeffs) - room
  <2>1. CASE fresh
    <3>1. limit * (Len(coeffs) + 1) = limit * Len(coeffs) + limit
      BY <1>2
    <3>2. Len(base) = Len(coeffs) + 1 /\ free = limit /\ room = 0
      BY <1>6, <2>1
    <3> HIDE DEF base, free
    <3> QED
      BY <1>2, <3>1, <3>2
  <2>2. CASE ~ fresh
    BY <1>6, <2>2
  <2> QED
    BY <2>1, <2>2
<1> HIDE DEF top, target, base, free, shift, fresh
<1>8. /\ filled \in Nat
      /\ filled < Pow2[limit - (free - shift)]
      /\ \A j \in 0 .. shift - 1 : BitOf(filled, j) = BitOf(bytes[at], rest - shift + j)
      /\ \A j \in shift .. limit - free + shift - 1 : BitOf(filled, j) = BitOf(target, j - shift)
  <2>1. filled \in Nat /\ filled < Pow2[(limit - free) + shift]
    <3>1. limit - free \in Nat /\ shift \in Nat
      BY <1>2, <1>4
    <3> QED
      BY <1>6, <1>5, <3>1, JoinFits
  <2>2. (limit - free) + shift = limit - (free - shift)
    BY <1>2, <1>4
  <2>3. \A j \in Nat : BitOf(filled, j) = IF j < shift THEN BitOf(top, j) ELSE BitOf(target, j - shift)
    <3>1. shift \in Nat
      BY <1>4
    <3> QED
      BY <1>6, <1>5, <3>1, BitsJoined
  <2> HIDE DEF filled
  <2>4. \A j \in 0 .. shift - 1 : BitOf(filled, j) = BitOf(bytes[at], rest - shift + j)
    <3>1. ASSUME NEW j \in 0 .. shift - 1
          PROVE  BitOf(filled, j) = BitOf(bytes[at], rest - shift + j)
      <4>1. j \in Nat /\ j < shift
        BY <1>4
      <4>2. BitOf(filled, j) = BitOf(top, j)
        BY <2>3, <4>1
      <4>3. BitOf(top, j) = BitOf(bytes[at], rest - shift + j)
        BY <1>5
      <4> QED
        BY <4>2, <4>3
    <3> QED
      BY <3>1
  <2>5. \A j \in shift .. limit - free + shift - 1 : BitOf(filled, j) = BitOf(target, j - shift)
    BY <1>2, <1>4, <2>3
  <2> QED
    BY <2>1, <2>2, <2>4, <2>5
<1> HIDE DEF filled
<1>9. Len(base) \in Nat \ {0}
  BY <1>2, <1>6
<1>10. /\ coeffs' \in Seq(Nat) /\ Len(coeffs') = Len(base)
       /\ Last(coeffs') = filled
       /\ \A i \in 1 .. Len(base) - 1 : coeffs'[i] = base[i]
  <2>1. base \in Seq(Nat) /\ Len(base) > 0 /\ filled \in Nat /\ coeffs' = Append(Front(base), filled)
    BY <1>6, <1>8, <1>9 DEF next
  <2> QED
    BY ONLY <2>1, NumberReplaced
<1>11. Holds(coeffs', limit, free - shift, bytes, 8)
  <2>1. 8 * at - rest = limit * Len(base) - free
    BY <1>2, <1>7
  <2>2. Holds(Append(Front(base), filled), limit, free - shift, bytes, 8)
    <3>1. Len(base) > 0 /\ 8 \in Nat \ {0} /\ at \in Nat \ {0} /\ shift \in Nat \ {0}
      BY <1>2, <1>4, <1>9
    <3>2. \A j \in shift .. limit - free + shift - 1 :
            BitOf(filled, j) = BitOf(Last(base), j - shift)
      BY <1>6, <1>8
    <3>3. /\ base \in Seq(Nat) /\ limit \in Nat \ {0} /\ free \in 1 .. limit
          /\ rest \in 1 .. 8 /\ shift <= free /\ shift <= rest /\ filled \in Nat
          /\ Holds(base, limit, free, bytes, 8)
          /\ \A j \in 0 .. shift - 1 : BitOf(filled, j) = BitOf(bytes[at], rest - shift + j)
      BY <1>2, <1>4, <1>6, <1>8
    <3> QED
      BY <2>1, <3>1, <3>2, <3>3, HoldsMore
  <2> QED
    BY <1>6, <2>2 DEF next
<1>12. rest' \in 0 .. 8 /\ room' \in 0 .. limit - 1
  BY <1>1, <1>2, <1>4
<1>13. InStep'
  <2> DEFINE bits == limit * Len(coeffs)
             more == limit * Len(coeffs')
  <2>1. bits \in Int /\ more \in Int
    BY <1>2, <1>9, <1>10
  <2>2. 8 * at - rest = bits - room /\ more - free = bits - room
    BY <1>2, <1>7, <1>10
  <2> HIDE DEF bits, more
  <2>3. 8 * at - (rest - shift) = more - (free - shift)
    BY <1>2, <1>4, <2>1, <2>2
  <2> QED
    BY <1>1, <2>3 DEF InStep, more
<1>14. LoopInv'
  <2>1. /\ limit' \in Nat \ {0} /\ Len(bytes') \in Nat \ {0} /\ pc' = "pack"
        /\ at' \in 1 .. Len(bytes')
    BY <1>1, <1>2
  <2>2. room' # limit' /\ coeffs' \in Seq(Nat) /\ Len(coeffs') > 0
    BY <1>1, <1>9, <1>10, <1>12
  <2>3. rest' \in 0 .. 8 /\ room' \in 0 .. limit'
    BY <1>1, <1>2, <1>12
  <2> QED
    BY ONLY <1>13, <2>1, <2>2, <2>3 DEF LoopInv
<1>15. \A i \in 1 .. Len(coeffs') - 1 : coeffs'[i] < Pow2[limit]
  BY <1>6, <1>10
<1>16. BitsInv'
  <2>1. src' = uint8(bytes'[at'] * Pow2[8 - rest'])
    BY <1>1, <1>5
  <2>2. Last(coeffs') < Pow2[limit' - room']
    BY <1>1, <1>8, <1>10
  <2>3. Holds(coeffs', limit', room', bytes', 8)
    BY <1>1, <1>11
  <2>4. \A i \in 1 .. Len(coeffs') - 1 : coeffs'[i] < Pow2[limit']
    BY <1>1, <1>15
  <2>5. bytes' \in Seq(0 .. 255) /\ (size_out(Len(bytes)) <= CoeffCount)'
    BY <1>1, <1>2 DEF size_out
  <2> QED
    BY <1>1, <2>1, <2>2, <2>3, <2>4, <2>5 DEF BitsInv
<1> QED
  BY <1>14, <1>16 DEF CoeffsInv

\* The next byte is there: its eight bits join those to be packed.
LEMMA NextByte == CoeffsInv /\ next_byte => CoeffsInv'
<1> SUFFICES ASSUME CoeffsInv, next_byte PROVE CoeffsInv'
  OBVIOUS
<1>1. /\ pc = "pack" /\ pc' = "pack" /\ rest = 0 /\ at < Len(bytes)
      /\ at' = at + 1 /\ src' = bytes[at + 1] /\ rest' = 8
      /\ bytes' = bytes /\ limit' = limit /\ room' = room /\ coeffs' = coeffs
  BY DEF next_byte
<1>2. LoopInv /\ BitsInv
  BY DEF CoeffsInv
<1>3. InStep'
  <2> DEFINE bits == limit * Len(coeffs)
  <2>1. 8 * at - 0 = bits - room
    BY <1>1, <1>2 DEF LoopInv, InStep
  <2>2. at \in Nat
    BY <1>1, <1>2 DEF LoopInv
  <2> HIDE DEF bits
  <2>3. 8 * (at + 1) - 8 = bits - room
    BY <2>1, <2>2
  <2> QED
    BY <1>1, <2>3 DEF InStep, bits
<1>4. LoopInv'
  BY <1>1, <1>2, <1>3 DEF LoopInv
<1>5. src' = uint8(bytes'[at'] * Pow2[8 - rest'])
  <2> DEFINE x == bytes[at + 1]
  <2>1. bytes \in Seq(0 .. 255) /\ at + 1 \in 1 .. Len(bytes)
    BY <1>1, <1>2 DEF LoopInv, BitsInv
  <2>2. x \in 0 .. 255
    BY <2>1, ElementOfSeq
  <2>3. bytes'[at'] * Pow2[8 - rest'] = x * 1 /\ src' = x
    BY <1>1, EightBits
  <2> HIDE DEF x
  <2>4. x \in Nat /\ x < 256 /\ x * 1 = x
    BY <2>2
  <2>5. uint8(x) = x
    BY <2>4, Uint8Is
  <2> QED
    BY <2>3, <2>4, <2>5
<1>6. BitsInv'
  <2>1. Holds(coeffs, limit, room, bytes, 8)' /\ (size_out(Len(bytes)) <= CoeffCount)'
    BY <1>1, <1>2 DEF BitsInv, size_out
  <2> QED
    BY <1>1, <1>2, <1>5, <2>1 DEF BitsInv
<1> QED
  BY <1>4, <1>6 DEF CoeffsInv

\* A bit more is begun only when there is one, so the bytes' bits fit.
LEMMA InStepFits == LoopInv => TargetFits
<1> SUFFICES ASSUME LoopInv, pc = "pack"
             PROVE  Len(coeffs) <= size_out(Len(bytes))
  BY DEF TargetFits
<1> DEFINE n == Len(bytes)
           k == Len(coeffs)
           bits == limit * k
<1>1. /\ limit \in Nat \ {0} /\ n \in Nat \ {0} /\ k \in Nat \ {0}
      /\ at \in 1 .. n /\ rest \in 0 .. 8 /\ room \in 0 .. limit
      /\ (room = limit => k = 1)
      /\ 8 * at - rest = bits - room
  BY DEF LoopInv, InStep
<1>2. bits \in Int /\ (k = 1 => bits = limit)
  <2>1. k = 1 => bits = limit * 1
    OBVIOUS
  <2> QED
    BY <1>1, <2>1
<1>3. bits <= 8 * n + limit - 1
  <2> HIDE DEF n, k, bits
  <2> QED
    BY <1>1, <1>2
<1>4. k <= (8 * n + limit - 1) \div limit
  <2> HIDE DEF n, k
  <2>1. ASSUME NEW a \in Nat, limit * k <= a PROVE k <= a \div limit
    BY <1>1, <2>1
  <2> QED
    BY <1>1, <1>3, <2>1
<1> QED
  BY <1>4 DEF size_out

\* What the first loop leaves: the bits of the bytes, and zeros behind them.
LEMMA BytesPacked ==
  ASSUME CoeffsInv, pc = "pack", rest = 0, at = Len(bytes),
         NEW next, next = Append(Front(coeffs), aligned(Last(coeffs)))
  PROVE  /\ next \in Seq(Nat) /\ Len(next) = size_out(Len(bytes))
         /\ \A i \in 1 .. Len(next) : next[i] < Pow2[limit]
         /\ \A b \in 0 .. size_out(Len(bytes)) * limit - 1 :
              Bit(next, limit, b) = IF b < 8 * Len(bytes) THEN Bit(bytes, 8, b) ELSE 0
<1> DEFINE k == Len(coeffs)
           n == Len(bytes)
           bits == limit * k
           last == Last(coeffs)
           x == aligned(last)
<1>1. /\ limit \in Nat \ {0} /\ n \in Nat \ {0} /\ k \in Nat \ {0}
      /\ room \in 0 .. limit /\ (room = limit => k = 1)
      /\ coeffs \in Seq(Nat) /\ 8 * n = bits - room
  BY DEF CoeffsInv, LoopInv, InStep
<1>2. /\ \A i \in 1 .. k - 1 : coeffs[i] < Pow2[limit]
      /\ last < Pow2[limit - room]
      /\ Holds(coeffs, limit, room, bytes, 8)
  BY DEF CoeffsInv, BitsInv
<1>3. last \in Nat /\ last = coeffs[k] /\ bits \in Nat
  BY <1>1 DEF Last
<1>4. x = last * Pow2[room] + 0 /\ x \in Nat /\ x < Pow2[limit]
  <2>1. 0 < Pow2[room] /\ Pow2[room] \in Nat /\ room \in Nat /\ limit - room \in Nat
        /\ (limit - room) + room = limit
    BY <1>1, Pow2Type
  <2> HIDE DEF last
  <2>2. x = last * Pow2[room] + 0
    BY <1>3, <2>1 DEF aligned
  <2>3. last * Pow2[room] + 0 \in Nat /\ last * Pow2[room] + 0 < Pow2[(limit - room) + room]
    BY <1>2, <1>3, <2>1, JoinFits
  <2> QED
    BY <2>1, <2>2, <2>3
<1>5. /\ next \in Seq(Nat) /\ Len(next) = k /\ next[k] = x
      /\ \A i \in 1 .. k - 1 : next[i] = coeffs[i]
  <2> HIDE DEF x
  <2>1. next = Append(Front(coeffs), x) /\ Len(coeffs) > 0
    BY <1>1 DEF x
  <2> QED
    BY <1>1, <1>4, <2>1, Replaced
<1>6. k = size_out(n)
  <2>1. k <= size_out(n)
    BY InStepFits DEF TargetFits, CoeffsInv
  <2>2. 8 * n <= k * limit /\ 8 * n \in Nat
    <3>1. k * limit = bits
      BY <1>1
    <3> HIDE DEF bits, n
    <3> QED
      BY <1>1, <1>3, <3>1
  <2>3. CeilDiv(8 * n, limit) <= k
    BY <1>1, <2>2, CeilDivLeast
  <2>4. size_out(n) = CeilDiv(8 * n, limit) /\ CeilDiv(8 * n, limit) \in Nat
    BY <1>1, <2>2, CeilDivIs DEF size_out, CeilDiv
  <2> HIDE DEF k, n
  <2> QED
    BY <1>1, <2>1, <2>3, <2>4
<1>7. ASSUME NEW i \in 1 .. Len(next) PROVE next[i] < Pow2[limit]
  <2> HIDE DEF k, x
  <2>1. CASE i = k
    BY <1>4, <1>5, <2>1
  <2>2. CASE i # k
    <3>1. i \in 1 .. k - 1
      BY <1>1, <1>5, <2>2
    <3> QED
      BY <1>2, <1>5, <3>1
  <2> QED
    BY <2>1, <2>2
<1>8. ASSUME NEW b \in 0 .. k * limit - 1
      PROVE  Bit(next, limit, b) = IF b < 8 * n THEN Bit(bytes, 8, b) ELSE 0
  <2> DEFINE q == b \div limit
             o == b % limit
             i == q + 1
             j == limit - 1 - o
             start == limit * q
             end == limit * i
  <2>1. b \in Nat /\ b < bits
    <3>1. k * limit = bits
      BY <1>1
    <3> HIDE DEF bits
    <3> QED
      BY <1>3, <3>1
  <2>2. q \in Nat /\ o \in 0 .. limit - 1 /\ b = start + o
    <3>1. q \in Nat /\ o \in 0 .. limit - 1 /\ b = q * limit + o
      BY <1>1, <2>1, QuotientIs
    <3> HIDE DEF q
    <3>2. q * limit = start
      BY <1>1, <3>1
    <3> QED
      BY <3>1, <3>2
  <2>3. Bit(next, limit, b) = BitOf(next[i], j)
    BY DEF Bit
  <2> HIDE DEF q, o
  <2>4. start \in Nat /\ end = start + limit
    BY <1>1, <2>2
  <2>5. i \in 1 .. k
    <3>1. q < k
      <4>1. ASSUME q >= k PROVE start >= bits
        <5> HIDE DEF k
        <5>1. k <= q
          BY <1>1, <2>2, <4>1
        <5>2. limit * k <= limit * q
          BY <1>1, <2>2, <5>1, TimesMonotone
        <5> QED
          BY <5>2
      <4> HIDE DEF start, bits, k
      <4> QED
        BY <1>1, <1>3, <2>1, <2>2, <2>4, <4>1
    <3> HIDE DEF k
    <3> QED
      BY <1>1, <2>2, <3>1
  <2>6. i = k => end = bits
    OBVIOUS
  <2>7. i < k => end <= bits - limit
    <3>1. ASSUME i < k PROVE limit * i <= limit * (k - 1)
      <4> HIDE DEF i, k
      <4>1. i \in Nat /\ k - 1 \in Nat /\ i <= k - 1
        BY <1>1, <2>5, <3>1
      <4> QED
        BY <1>1, <4>1, TimesMonotone
    <3>2. limit * (k - 1) = bits - limit
      BY <1>1
    <3> QED
      BY <3>1, <3>2
  <2> HIDE DEF start, end, bits, k, n, i, last, x
  <2>8. j \in 0 .. limit - 1 /\ j \in Nat /\ b = end - 1 - j
    BY <1>1, <2>2, <2>4
  <2>9. CASE i < k
    <3>1. BitOf(coeffs[i], j) = Bit(bytes, 8, end - 0 - 1 - j)
      <4>1. i \in 1 .. Len(coeffs) /\ 0 = IF i = Len(coeffs) THEN room ELSE 0
        BY <2>5, <2>9, <1>1 DEF k
      <4>2. j \in 0 .. limit - 0 - 1
        <5> HIDE DEF j
        <5> QED
          BY <1>1, <2>8
      <4> QED
        BY <1>2, <4>1, <4>2, HoldsAt DEF end
    <3>2. next[i] = coeffs[i]
      <4>1. i \in 1 .. k - 1
        BY <1>1, <2>5, <2>9
      <4> QED
        BY <1>5, <4>1
    <3>3. b < 8 * n
      <4> HIDE DEF j
      <4> QED
        BY <1>1, <1>3, <2>4, <2>7, <2>8, <2>9
    <3>4. end - 0 - 1 - j = b
      BY <2>4, <2>8, <1>1
    <3> QED
      BY <2>3, <3>1, <3>2, <3>3, <3>4
  <2>10. CASE i = k
    <3>1. BitOf(next[i], j) = IF j < room THEN BitOf(0, j) ELSE BitOf(last, j - room)
      <4>1. room \in Nat /\ 0 < Pow2[room]
        BY <1>1, Pow2Type
      <4>2. BitOf(last * Pow2[room] + 0, j) =
              IF j < room THEN BitOf(0, j) ELSE BitOf(last, j - room)
        BY <1>3, <2>8, <4>1, BitsJoined
      <4> QED
        BY <1>4, <1>5, <2>10, <4>2
    <3>2. CASE j < room
      <4>1. BitOf(0, j) = 0
        <5>1. 0 < Pow2[0] /\ j >= 0
          BY <2>8, EightBits
        <5> QED
          BY <2>8, <5>1, BitsAbove
      <4>2. ~ (b < 8 * n)
        <5> HIDE DEF j
        <5> QED
          BY <1>1, <1>3, <2>6, <2>8, <2>10, <3>2
      <4> QED
        BY <2>3, <3>1, <3>2, <4>1, <4>2
    <3>3. CASE ~ (j < room)
      <4>1. j - room \in 0 .. limit - room - 1
        BY <1>1, <2>8, <3>3
      <4>2. BitOf(coeffs[k], j - room) = Bit(bytes, 8, end - room - 1 - (j - room))
        <5>1. k \in 1 .. Len(coeffs) /\ room = IF k = Len(coeffs) THEN room ELSE 0
          BY <1>1 DEF k
        <5> QED
          BY <1>2, <2>10, <4>1, <5>1, HoldsAt DEF end
      <4>3. b < 8 * n /\ end - room - 1 - (j - room) = b
        <5> HIDE DEF j
        <5> QED
          BY <1>1, <1>3, <2>6, <2>8, <2>10, <3>3
      <4> QED
        BY <1>3, <2>3, <3>1, <3>3, <4>2, <4>3
    <3> QED
      BY <3>2, <3>3
  <2> QED
    BY <1>1, <2>5, <2>9, <2>10
<1> HIDE DEF k, n
<1> QED
  BY <1>5, <1>6, <1>7, <1>8 DEF n

\* The second loop starts on the first coefficient with an empty byte.
LEMMA PackDone == CoeffsInv /\ pack_done => CoeffsInv'
<1> SUFFICES ASSUME CoeffsInv, pack_done PROVE CoeffsInv'
  OBVIOUS
<1> DEFINE next == Append(Front(coeffs), aligned(Last(coeffs)))
           n == CoeffCount - Len(coeffs)
           ones == [i \in 1 .. n |-> 1]
           k == size_out(Len(bytes))
<1>1. /\ pc = "pack" /\ rest = 0 /\ at = Len(bytes)
      /\ pc' = "unpack" /\ at' = 1 /\ rest' = limit /\ room' = 8
      /\ src' = coeffs'[1] /\ coeffs' = next \o ones
      /\ elems' = <<0>> /\ bytes' = bytes /\ limit' = limit
  BY DEF pack_done
<1>2. /\ next \in Seq(Nat) /\ Len(next) = k
      /\ \A i \in 1 .. k : next[i] < Pow2[limit]
      /\ \A b \in 0 .. k * limit - 1 :
           Bit(next, limit, b) = IF b < 8 * Len(bytes) THEN Bit(bytes, 8, b) ELSE 0
  <2> HIDE DEF next
  <2>1. next = Append(Front(coeffs), aligned(Last(coeffs)))
    BY DEF next
  <2> QED
    BY <1>1, <2>1, BytesPacked
<1>3. /\ limit \in Nat \ {0} /\ Len(bytes) \in Nat \ {0} /\ bytes \in Seq(0 .. 255)
      /\ coeffs \in Seq(Nat) /\ Len(coeffs) > 0 /\ k <= CoeffCount
  BY <1>1 DEF CoeffsInv, LoopInv, BitsInv
<1>4. Len(coeffs) = k
  <2>1. Len(coeffs) = Len(next)
    <3>1. Last(coeffs) \in Nat /\ Pow2[room] \in Nat
      <4>1. room \in Nat
        BY <1>1 DEF CoeffsInv, LoopInv
      <4> QED
        BY <1>3, <4>1, Pow2Type DEF Last
    <3>2. aligned(Last(coeffs)) \in Nat
      BY <3>1 DEF aligned
    <3> QED
      BY <1>3, <3>2, Replaced
  <2> QED
    BY <1>2, <2>1
<1>5. k \in Nat \ {0} /\ CoeffCount \in Nat
  BY <1>3, <1>4, CoeffsAssumption
<1>6. n \in Nat /\ ones \in Seq(Nat) /\ Len(ones) = n /\ \A i \in 1 .. n : ones[i] = 1
  <2>1. n \in Nat
    BY <1>3, <1>4, <1>5
  <2> HIDE DEF n
  <2> QED
    BY <2>1
<1> HIDE DEF next, ones, n
<1>7. /\ coeffs' \in Seq(Nat) /\ Len(coeffs') = k + n
      /\ \A i \in 1 .. k : coeffs'[i] = next[i]
      /\ \A i \in k + 1 .. k + n : coeffs'[i] = 1
  <2>1. /\ next \o ones \in Seq(Nat) /\ Len(next \o ones) = Len(next) + Len(ones)
        /\ \A i \in 1 .. Len(next) + Len(ones) :
             (next \o ones)[i] = IF i <= Len(next) THEN next[i] ELSE ones[i - Len(next)]
    BY <1>2, <1>6, ConcatProperties
  <2> HIDE DEF k
  <2>2. \A i \in k + 1 .. k + n : i - k \in 1 .. n
    BY <1>5, <1>6
  <2>3. \A i \in k + 1 .. k + n : i \in 1 .. k + n /\ ~ (i <= k)
    BY <1>5, <1>6
  <2>4. \A i \in 1 .. k : i \in 1 .. k + n /\ i <= k
    BY <1>5, <1>6
  <2>5. next \o ones = coeffs'
    BY <1>1
  <2> DEFINE c == next \o ones
  <2>6. /\ c \in Seq(Nat) /\ Len(c) = k + n
        /\ \A i \in 1 .. k + n : c[i] = IF i <= k THEN next[i] ELSE ones[i - k]
    BY <1>2, <1>6, <2>1
  <2> HIDE DEF c
  <2>7. /\ \A i \in 1 .. k : c[i] = next[i]
        /\ \A i \in k + 1 .. k + n : c[i] = 1
    BY <1>6, <2>2, <2>3, <2>4, <2>6
  <2> QED
    BY <2>5, <2>6, <2>7 DEF c
<1>8. k + n = CoeffCount
  BY <1>4, <1>5 DEF n
<1> HIDE DEF k
<1>9. \A i \in 1 .. CoeffCount : coeffs'[i] < Pow2[limit]
  <2>1. 1 < Pow2[limit]
    <3> DEFINE m == limit - 1
    <3>1. m \in Nat /\ m + 1 = limit
      BY <1>3
    <3> HIDE DEF m
    <3>2. Pow2[m + 1] = 2 * Pow2[m] /\ Pow2[m] \in Nat \ {0}
      BY <3>1, Pow2Is, Pow2Type
    <3> QED
      BY <3>1, <3>2
  <2> SUFFICES ASSUME NEW i \in 1 .. CoeffCount PROVE coeffs'[i] < Pow2[limit]
    OBVIOUS
  <2>2. i \in 1 .. k \/ i \in k + 1 .. k + n
    BY <1>5, <1>6, <1>8
  <2> QED
    BY <1>2, <1>7, <2>1, <2>2
<1>10. ASSUME NEW b \in 0 .. k * limit - 1
       PROVE  Bit(coeffs', limit, b) = IF b < 8 * Len(bytes) THEN Bit(bytes, 8, b) ELSE 0
  <2> DEFINE q == b \div limit
  <2>1. q + 1 \in 1 .. k
    <3>1. b \in Nat /\ b < k * limit
      <4>1. k * limit \in Nat
        BY <1>3, <1>5
      <4> QED
        BY <4>1
    <3>2. q \in Nat /\ q * limit <= b
      <4>1. q \in Nat /\ b % limit \in Nat /\ b = q * limit + (b % limit)
        <5>1. limit \in Nat \ {0} /\ b \in Nat
          BY <1>3, <3>1
        <5>2. /\ b \div limit \in Nat /\ b % limit \in 0 .. limit - 1
              /\ b = (b \div limit) * limit + (b % limit)
          BY <5>1, QuotientIs
        <5> QED
          BY <5>2
      <4> DEFINE z == q * limit
                 m == b % limit
      <4>2. z \in Nat /\ m \in Nat /\ b = z + m
        BY <1>3, <4>1
      <4> HIDE DEF z, m
      <4>3. z <= b
        BY <4>2
      <4> QED
        BY <4>1, <4>3 DEF z
    <3> HIDE DEF q
    <3>3. q < k
      <4>1. ASSUME q >= k PROVE q * limit >= k * limit
        BY <1>3, <1>5, <3>2, <4>1
      <4>2. q * limit \in Nat /\ k * limit \in Nat
        BY <1>3, <1>5, <3>2
      <4> QED
        BY <1>5, <3>1, <3>2, <4>1, <4>2
    <3> QED
      BY <1>5, <3>2, <3>3
  <2>2. coeffs'[q + 1] = next[q + 1]
    BY <1>7, <2>1
  <2>3. Bit(coeffs', limit, b) = Bit(next, limit, b)
    BY <2>2 DEF Bit
  <2> QED
    BY <1>2, <2>3
<1>11. elems' \in Seq(0 .. 255) /\ Len(elems') = 1 /\ Last(elems') = 0
  BY <1>1 DEF Last
<1>12. InStep'
  BY <1>1, <1>3, <1>11 DEF InStep
<1>13. LoopInv'
  BY <1>1, <1>3, <1>11, <1>12, CoeffsAssumption DEF LoopInv
<1>14. src' = coeffs'[at'] * Pow2[limit' - rest']
  <2>1. 1 \in 1 .. Len(coeffs')
    BY <1>5, <1>6, <1>7
  <2>2. coeffs'[1] \in Nat
    BY <1>7, <2>1, ElementOfSeq
  <2>3. limit - limit = 0
    BY <1>3
  <2> DEFINE x == coeffs'[1]
  <2>4. x \in Nat /\ src' = x /\ coeffs'[at'] = x
    BY <1>1, <2>2
  <2> HIDE DEF x
  <2> QED
    BY <1>1, <2>3, <2>4, EightBits
<1>15. Holds(elems', 8, 8, coeffs', limit')
  <2>1. Holds(<<>>, 8, 0, coeffs', limit') /\ <<>> \in Seq(Nat)
    BY DEF Holds
  <2>2. Holds(Append(<<>>, 0), 8, 8, coeffs', limit')
    <3>1. 8 \in Nat \ {0}
      OBVIOUS
    <3> QED
      BY <2>1, <3>1, HoldsNew
  <2> QED
    BY <1>1, <2>2
<1>16. (elems_size)' \in Nat
  <2>1. CoeffCount * limit \in Nat
    BY <1>3, <1>5
  <2> DEFINE m == CoeffCount * limit
  <2>2. m \div 8 \in Nat
    BY <2>1
  <2> QED
    BY <1>1, <2>2 DEF elems_size
<1>17. BitsInv'
  <2>1. (size_out(Len(bytes)))' = k
    BY <1>1 DEF size_out, k
  <2>2. Len(elems') <= (elems_size)' + 1
    <3> DEFINE m == (elems_size)'
    <3>1. m \in Nat
      BY <1>16
    <3> HIDE DEF m
    <3>2. Len(elems') <= m + 1
      BY <1>11, <3>1
    <3> QED
      BY <3>2 DEF m
  <2>3. \A b \in 0 .. (size_out(Len(bytes)) * limit)' - 1 :
          Bit(coeffs', limit', b) = IF b < 8 * Len(bytes') THEN Bit(bytes', 8, b) ELSE 0
    BY <1>1, <1>10, <2>1
  <2>4. \A i \in 1 .. CoeffCount : coeffs'[i] < Pow2[limit']
    BY <1>1, <1>9
  <2>5. /\ bytes' \in Seq(0 .. 255) /\ (size_out(Len(bytes)) <= CoeffCount)'
        /\ coeffs' \in Seq(Nat) /\ Len(coeffs') = CoeffCount
        /\ rest' \in {0, limit'} /\ Last(elems') = 0
        /\ Holds(elems', 8, room', coeffs', limit')
    BY <1>1, <1>3, <1>7, <1>8, <1>11, <1>15, <2>1
  <2> QED
    BY <1>1, <1>14, <2>2, <2>3, <2>4, <2>5 DEF BitsInv
<1> QED
  BY <1>13, <1>17 DEF CoeffsInv

\* What the second loop takes from a coefficient x with left bits to go: its
\* next shift bits, and in front of them those taken before unless it is new.
LEMMA CoeffShifted ==
  ASSUME NEW m \in Nat \ {0}, NEW x \in Nat, x < Pow2[m],
         NEW left \in 1 .. m, NEW shift \in 1 .. left
  PROVE  LET s == x * Pow2[m - left]
         IN  /\ s \div Pow2[m - shift] \in Nat
             /\ left = m => s \div Pow2[m - shift] < Pow2[shift]
             /\ \A j \in Nat : BitOf(s \div Pow2[m - shift], j) = BitOf(x, left - shift + j)
             /\ s * Pow2[shift] = x * Pow2[m - (left - shift)]
<1> DEFINE A == Pow2[m - left]
           s == x * A
<1>1. /\ m - left \in Nat /\ m - shift \in Nat /\ shift \in Nat
      /\ (m - left) + shift = m - (left - shift) /\ (m - shift) + shift = m
  OBVIOUS
<1>2. A \in Nat \ {0} /\ Pow2[m - shift] \in Nat \ {0} /\ Pow2[shift] \in Nat
  BY <1>1, Pow2Type
<1>3. s \in Nat
  BY <1>2
<1>4. s \div Pow2[m - shift] \in Nat
  <2> DEFINE B == Pow2[m - shift]
  <2>1. B \in Nat \ {0}
    BY <1>2
  <2> HIDE DEF B, s
  <2>2. s \div B \in Nat
    BY <1>3, <2>1
  <2> QED
    BY <2>2 DEF B
<1>5. ASSUME left = m PROVE s \div Pow2[m - shift] < Pow2[shift]
  <2>1. m - left = 0 /\ x * 1 = x
    BY <1>5
  <2>2. s = x
    BY <2>1, EightBits
  <2> DEFINE n == m - shift
  <2>3. n \in Nat /\ x < Pow2[n + shift]
    BY <1>1
  <2> HIDE DEF n, s
  <2>4. x \div Pow2[n] < Pow2[shift]
    BY <1>1, <2>3, TopFits
  <2> QED
    BY <2>2, <2>4 DEF n
<1>6. ASSUME NEW j \in Nat
      PROVE  BitOf(s \div Pow2[m - shift], j) = BitOf(x, left - shift + j)
  <2> DEFINE n == m - shift
             p == m - left
             k == j + n
  <2>1. /\ n \in Nat /\ p \in Nat /\ k \in Nat
        /\ ~ (k < p) /\ k - p = left - shift + j
    OBVIOUS
  <2>2. s = x * Pow2[p]
    OBVIOUS
  <2> HIDE DEF n, p, s
  <2>3. BitOf(s \div Pow2[n], j) = BitOf(s, j + n)
    BY <1>3, <2>1, BitsShifted
  <2> HIDE DEF k
  <2>4. BitOf(x * Pow2[p], k) = IF k < p THEN 0 ELSE BitOf(x, k - p)
    BY <2>1, BitsShifted
  <2> QED
    BY <2>1, <2>2, <2>3, <2>4 DEF k, n
<1>7. s * Pow2[shift] = x * Pow2[m - (left - shift)]
  <2> DEFINE B == Pow2[shift]
  <2>1. Pow2[(m - left) + shift] = A * B
    BY <1>1, Pow2Sum
  <2>2. A \in Nat /\ B \in Nat /\ s = x * A
    BY <1>2
  <2> HIDE DEF A, B, s
  <2>3. s * B = x * (A * B)
    BY <2>2
  <2> QED
    BY <1>1, <2>1, <2>3 DEF B
<1> QED
  BY <1>4, <1>5, <1>6, <1>7

\* The bits that leave the coefficient are those the byte gains.
LEMMA UnpackBits == CoeffsInv /\ unpack_bits => CoeffsInv'
<1> SUFFICES ASSUME CoeffsInv, unpack_bits PROVE CoeffsInv'
  OBVIOUS
<1> DEFINE shift == Lesser(rest, room)
           top == src \div Pow2[limit - shift]
           last == Last(elems)
           joined == last * Pow2[shift] + top
           filled == uint8(joined)
           full == room = shift
           next == Append(Front(elems), filled)
           x == coeffs[at]
<1>1. /\ pc = "unpack" /\ pc' = "unpack" /\ rest > 0
      /\ Len(elems) <= elems_size
      /\ bytes' = bytes /\ limit' = limit /\ at' = at /\ coeffs' = coeffs
      /\ elems' = next \o IF full THEN <<0>> ELSE <<>>
      /\ src' = src * Pow2[shift]
      /\ room' = IF full THEN 8 ELSE room - shift
      /\ rest' = rest - shift
  BY DEF unpack_bits
<1>2. /\ limit \in Nat \ {0} /\ Len(bytes) \in Nat \ {0}
      /\ at \in 1 .. CoeffCount /\ rest \in 1 .. limit /\ room \in 1 .. 8
      /\ elems \in Seq(0 .. 255) /\ Len(elems) \in Nat \ {0}
      /\ limit * at - rest = 8 * Len(elems) - room
  BY <1>1 DEF CoeffsInv, LoopInv, InStep
<1>3. /\ coeffs \in Seq(Nat) /\ Len(coeffs) = CoeffCount
      /\ \A i \in 1 .. CoeffCount : coeffs[i] < Pow2[limit]
      /\ src = x * Pow2[limit - rest]
      /\ rest \in {0, limit} \/ room = 8
      /\ room = 8 => last = 0
      /\ Holds(elems, 8, room, coeffs, limit)
  BY <1>1 DEF CoeffsInv, BitsInv
<1>4. x \in Nat /\ x < Pow2[limit] /\ last \in 0 .. 255
  <2>1. at \in 1 .. Len(coeffs) /\ Len(elems) \in 1 .. Len(elems)
    BY <1>2, <1>3
  <2> QED
    BY <1>2, <1>3, <2>1, ElementOfSeq DEF Last
<1> HIDE DEF x, last
<1>5. shift \in 1 .. 8 /\ shift <= room /\ shift <= rest /\ (shift = rest \/ shift = room)
  BY <1>2 DEF Lesser
<1> HIDE DEF shift
<1>6. /\ top \in Nat
      /\ rest = limit => top < Pow2[shift]
      /\ \A j \in Nat : BitOf(top, j) = BitOf(x, rest - shift + j)
      /\ src' = x * Pow2[limit - (rest - shift)]
  <2>1. shift \in 1 .. rest /\ rest \in 1 .. limit
    BY <1>2, <1>5
  <2>2. LET s == x * Pow2[limit - rest]
        IN  /\ s \div Pow2[limit - shift] \in Nat
            /\ rest = limit => s \div Pow2[limit - shift] < Pow2[shift]
            /\ \A j \in Nat : BitOf(s \div Pow2[limit - shift], j) = BitOf(x, rest - shift + j)
            /\ s * Pow2[shift] = x * Pow2[limit - (rest - shift)]
    <3>1. limit \in Nat \ {0} /\ x \in Nat /\ x < Pow2[limit]
      BY <1>2, <1>4
    <3> QED
      BY ONLY <2>1, <3>1, CoeffShifted
  <2> QED
    BY <1>1, <1>3, <2>2
<1> HIDE DEF top
<1>7. /\ joined \in Nat
      /\ \A j \in 0 .. shift - 1 : BitOf(joined, j) = BitOf(x, rest - shift + j)
      /\ \A j \in shift .. 8 - room + shift - 1 : BitOf(joined, j) = BitOf(last, j - shift)
  <2>1. Pow2[shift] \in Nat /\ shift \in Nat
    BY <1>5, Pow2Type
  <2>2. joined \in Nat
    BY <1>4, <1>6, <2>1
  <2>3. CASE room = 8
    <3>1. joined = top
      BY <1>3, <1>6, <2>1, <2>3
    <3> HIDE DEF joined
    <3>2. \A j \in 0 .. shift - 1 : j \in Nat
      BY <1>5
    <3>3. 8 - room + shift - 1 = shift - 1
      BY <1>5, <2>3
    <3>4. \A j \in shift .. 8 - room + shift - 1 : FALSE
      BY <1>5, <3>3
    <3>5. \A j \in 0 .. shift - 1 : BitOf(joined, j) = BitOf(x, rest - shift + j)
      BY <1>6, <3>1, <3>2
    <3> QED
      BY <2>2, <3>4, <3>5
  <2>4. CASE room # 8
    <3>1. rest = limit /\ top < Pow2[shift]
      BY <1>2, <1>3, <1>6, <2>4
    <3>2. \A j \in Nat : BitOf(joined, j) =
            IF j < shift THEN BitOf(top, j) ELSE BitOf(last, j - shift)
      <4>1. last \in Nat /\ joined = last * Pow2[shift] + top
        BY <1>4
      <4> QED
        BY <1>6, <2>1, <3>1, <4>1, BitsJoined
    <3> HIDE DEF joined
    <3>3. \A j \in 0 .. shift - 1 : j \in Nat /\ j < shift
      BY <1>5
    <3>4. \A j \in shift .. 8 - room + shift - 1 : j \in Nat /\ ~ (j < shift)
      BY <1>2, <1>5
    <3>5. \A j \in 0 .. shift - 1 : BitOf(joined, j) = BitOf(x, rest - shift + j)
      BY <1>6, <3>2, <3>3
    <3>6. \A j \in shift .. 8 - room + shift - 1 : BitOf(joined, j) = BitOf(last, j - shift)
      BY <3>2, <3>4
    <3> QED
      BY <2>2, <3>5, <3>6
  <2> QED
    BY <2>3, <2>4
<1> HIDE DEF joined
<1>8. /\ filled \in 0 .. 255
      /\ \A j \in 0 .. shift - 1 : BitOf(filled, j) = BitOf(x, rest - shift + j)
      /\ \A j \in shift .. 8 - room + shift - 1 : BitOf(filled, j) = BitOf(last, j - shift)
  <2>1. filled \in 0 .. 255 /\ \A j \in 0 .. 7 : BitOf(filled, j) = BitOf(joined, j)
    BY <1>7, Uint8Is
  <2>2. \A j \in 0 .. shift - 1 : j \in 0 .. 7
    BY <1>5
  <2>3. \A j \in shift .. 8 - room + shift - 1 : j \in 0 .. 7
    BY <1>2, <1>5
  <2> HIDE DEF filled
  <2> QED
    BY <1>7, <2>1, <2>2, <2>3
<1> HIDE DEF filled
<1>9. /\ next \in Seq(0 .. 255) /\ Len(next) = Len(elems)
      /\ Holds(next, 8, room - shift, coeffs, limit)
  <2>1. next \in Seq(0 .. 255) /\ Len(next) = Len(elems)
    BY <1>2, <1>8, Replaced
  <2>2. Holds(Append(Front(elems), filled), 8, room - shift, coeffs, limit)
    <3>1. /\ elems \in Seq(Nat) /\ Len(elems) > 0 /\ 8 \in Nat \ {0} /\ room \in 1 .. 8
          /\ limit \in Nat \ {0} /\ at \in Nat \ {0} /\ rest \in 1 .. limit
          /\ shift \in Nat \ {0} /\ shift <= room /\ shift <= rest
          /\ filled \in Nat /\ limit * at - rest = 8 * Len(elems) - room
      <4>1. elems \in Seq(Nat)
        BY <1>2, ByteNumbers
      <4> QED
        BY <1>2, <1>5, <1>8, <4>1
    <3>2. /\ \A j \in 0 .. shift - 1 : BitOf(filled, j) = BitOf(coeffs[at], rest - shift + j)
          /\ \A j \in shift .. 8 - room + shift - 1 :
               BitOf(filled, j) = BitOf(Last(elems), j - shift)
      BY <1>8 DEF x, last
    <3> QED
      BY <1>3, <3>1, <3>2, HoldsMore
  <2> QED
    BY <2>1, <2>2
<1> HIDE DEF next
<1>10. /\ elems' \in Seq(0 .. 255)
       /\ Len(elems') = IF full THEN Len(elems) + 1 ELSE Len(elems)
       /\ room' = 8 => Last(elems') = 0
       /\ Holds(elems', 8, room', coeffs, limit)
  <2>1. CASE full
    <3>1. next \o <<0>> = Append(next, 0)
      BY <1>9
    <3>2. elems' = Append(next, 0) /\ room' = 8 /\ room - shift = 0
      BY <1>1, <1>2, <2>1, <3>1
    <3>3. 0 \in 0 .. 255 /\ 8 \in Nat \ {0} /\ next \in Seq(Nat)
      BY <1>9, ByteNumbers
    <3>4. /\ Append(next, 0) \in Seq(0 .. 255) /\ Len(Append(next, 0)) = Len(next) + 1
          /\ Last(Append(next, 0)) = 0
      BY <1>9, <3>3, Extended
    <3>5. Holds(Append(next, 0), 8, 8, coeffs, limit)
      BY <1>9, <3>2, <3>3, HoldsNew
    <3> QED
      BY <1>9, <2>1, <3>2, <3>4, <3>5
  <2>2. CASE ~ full
    <3>1. next \o <<>> = next
      BY <1>9
    <3>2. elems' = next /\ room' = room - shift /\ room' # 8
      BY <1>1, <1>2, <1>5, <2>2, <3>1
    <3> QED
      BY <1>9, <2>2, <3>2
  <2> QED
    BY <2>1, <2>2
<1>11. rest' \in 0 .. limit /\ room' \in 1 .. 8 /\ (rest' \in {0, limit} \/ room' = 8)
  BY <1>1, <1>2, <1>5
<1>12. InStep'
  <2> DEFINE bits == limit * at
  <2>1. bits \in Int /\ bits - rest = 8 * Len(elems) - room
    BY <1>2
  <2> HIDE DEF bits
  <2>2. bits - (rest - shift) = 8 * Len(elems') - room'
    <3>1. CASE full
      <4>1. Len(elems') = Len(elems) + 1 /\ room' = 8 /\ room = shift
        BY <1>1, <1>10, <3>1
      <4> QED
        BY <1>2, <1>5, <2>1, <4>1
    <3>2. CASE ~ full
      <4>1. Len(elems') = Len(elems) /\ room' = room - shift
        BY <1>1, <1>10, <3>2
      <4> QED
        BY <1>2, <1>5, <2>1, <4>1
    <3> QED
      BY <3>1, <3>2
  <2> QED
    BY <1>1, <2>2 DEF InStep, bits
<1>13. LoopInv'
  <2>1. Len(elems') > 0
    BY <1>2, <1>10
  <2> QED
    BY <1>1, <1>2, <1>10, <1>11, <1>12, <2>1 DEF LoopInv
<1>14. Len(elems') <= (elems_size)' + 1
  <2> DEFINE m == elems_size
  <2>1. (elems_size)' = m
    BY <1>1 DEF elems_size
  <2>2. m \in Nat
    <3> DEFINE p == CoeffCount * limit
    <3>1. p \in Nat
      BY <1>2, CoeffsAssumption
    <3> HIDE DEF p
    <3>2. p \div 8 \in Nat
      BY <3>1
    <3> QED
      BY <3>2 DEF elems_size, p
  <2>3. Len(elems) <= m
    BY <1>1
  <2> HIDE DEF m
  <2>4. Len(elems') <= m + 1
    BY <1>2, <1>10, <2>2, <2>3
  <2> QED
    BY <2>1, <2>4
<1>15. BitsInv'
  <2>1. (size_out(Len(bytes)))' = size_out(Len(bytes))
    BY <1>1 DEF size_out
  <2>2. src' = coeffs'[at'] * Pow2[limit' - rest']
    BY <1>1, <1>6 DEF x
  <2>3. Holds(elems', 8, room', coeffs', limit')
    BY <1>1, <1>10
  <2>4. BitsInv
    BY DEF CoeffsInv
  <2> QED
    BY <1>1, <1>10, <1>11, <1>14, <2>1, <2>2, <2>3, <2>4 DEF BitsInv
<1> QED
  BY <1>13, <1>15 DEF CoeffsInv

\* The next coefficient is there: its bits join those to be unpacked.
LEMMA NextCoeff == CoeffsInv /\ next_coeff => CoeffsInv'
<1> SUFFICES ASSUME CoeffsInv, next_coeff PROVE CoeffsInv'
  OBVIOUS
<1>1. /\ pc = "unpack" /\ pc' = "unpack" /\ rest = 0 /\ at < CoeffCount
      /\ at' = at + 1 /\ src' = coeffs[at + 1] /\ rest' = limit
      /\ bytes' = bytes /\ limit' = limit /\ room' = room /\ coeffs' = coeffs
      /\ elems' = elems
  BY DEF next_coeff
<1>2. LoopInv /\ BitsInv
  BY DEF CoeffsInv
<1>3. /\ at \in 1 .. CoeffCount /\ limit \in Nat \ {0} /\ room \in 1 .. 8
      /\ Len(bytes) \in Nat \ {0} /\ elems \in Seq(0 .. 255) /\ Len(elems) > 0
      /\ coeffs \in Seq(Nat) /\ Len(coeffs) = CoeffCount /\ CoeffCount \in Nat
  BY <1>1, <1>2, CoeffsAssumption DEF LoopInv, BitsInv
<1>4. InStep'
  <2> DEFINE bits == limit * at
             more == limit * (at + 1)
  <2>1. bits \in Int /\ more = bits + limit
    BY <1>3
  <2>2. bits - 0 = 8 * Len(elems) - room
    BY <1>1, <1>2 DEF LoopInv, InStep
  <2> HIDE DEF bits, more
  <2>3. more - limit = 8 * Len(elems) - room
    BY <1>3, <2>1, <2>2
  <2> QED
    BY <1>1, <2>3 DEF InStep, more
<1>5. LoopInv'
  BY <1>1, <1>3, <1>4 DEF LoopInv
<1>6. src' = coeffs'[at'] * Pow2[limit' - rest']
  <2>1. coeffs[at + 1] \in Nat
    <3>1. at + 1 \in 1 .. Len(coeffs)
      BY <1>1, <1>3
    <3> QED
      BY <1>3, <3>1, ElementOfSeq
  <2> DEFINE x == coeffs[at + 1]
  <2>2. x \in Nat /\ src' = x /\ coeffs'[at'] = x /\ limit - limit = 0
    BY <1>1, <1>3, <2>1
  <2> HIDE DEF x
  <2> QED
    BY <1>1, <2>2, EightBits
<1>7. BitsInv'
  <2>1. /\ (size_out(Len(bytes)))' = size_out(Len(bytes))
        /\ (elems_size)' = elems_size
    BY <1>1 DEF size_out, elems_size
  <2>2. rest' \in {0, limit'}
    BY <1>1
  <2> QED
    BY <1>1, <1>2, <1>6, <2>1, <2>2 DEF BitsInv
<1> QED
  BY <1>5, <1>7 DEF CoeffsInv

\* When the second loop ends, the byte that was begun last is behind the end
\* of its output, ...
LEMMA UnpackedAll ==
  ASSUME CoeffsInv, unpack_done
  PROVE  elems_size \in Nat /\ Len(elems) = elems_size + 1
<1> DEFINE p == CoeffCount * limit
           n == Len(elems)
           m == elems_size
<1>1. /\ limit \in Nat \ {0} /\ at \in 1 .. CoeffCount /\ room \in 1 .. 8
      /\ n \in Nat \ {0} /\ limit * at - rest = 8 * n - room
      /\ n <= m + 1
      /\ \/ rest = 0 /\ at = CoeffCount
         \/ n > m
  <2>1. pc = "unpack" /\ ((rest = 0 /\ at = CoeffCount) \/ n > m)
    BY DEF unpack_done
  <2>2. elems \in Seq(0 .. 255) => n \in Nat
    OBVIOUS
  <2> HIDE DEF m
  <2>3. n > 0 /\ n \in Nat => n \in Nat \ {0}
    OBVIOUS
  <2>4. elems \in Seq(0 .. 255) /\ n > 0
    BY <2>1 DEF CoeffsInv, LoopInv
  <2> QED
    BY <2>1, <2>2, <2>3, <2>4 DEF CoeffsInv, LoopInv, InStep, BitsInv, m
<1>2. p \in Nat /\ limit * CoeffCount = p
  BY <1>1, CoeffsAssumption
<1>3. m \in Nat /\ m = p \div 8
  <2> HIDE DEF p
  <2>1. p \div 8 \in Nat
    BY <1>2
  <2> QED
    BY <2>1 DEF elems_size, p
<1> HIDE DEF p, n, m
<1>4. CASE rest = 0 /\ at = CoeffCount
  <2>1. p = (n - 1) * 8 + (8 - room) /\ n - 1 \in Nat /\ 8 - room \in 0 .. 8 - 1
    BY <1>1, <1>2, <1>4
  <2> DEFINE q == n - 1
             r == 8 - room
  <2>2. q \in Nat /\ r \in 0 .. 8 - 1 /\ p = q * 8 + r /\ 8 \in Nat \ {0}
    BY <2>1
  <2> HIDE DEF q, r
  <2>3. p \div 8 = q
    BY <2>2, DivIs
  <2> QED
    BY <1>1, <1>3, <2>3 DEF q, m, n
<1>5. CASE n > m
  BY <1>1, <1>3, <1>5 DEF m, n
<1> QED
  BY <1>1, <1>4, <1>5

\* ... and those in front of it start with the bytes that were packed.
LEMMA UnpackDone == CoeffsInv /\ unpack_done => CoeffsInv'
<1> SUFFICES ASSUME CoeffsInv, unpack_done PROVE CoeffsInv'
  OBVIOUS
<1> DEFINE m == elems_size
           L == Len(bytes)
           k == size_out(L)
           next == SubSeq(elems, 1, m)
<1>1. /\ pc = "unpack" /\ pc' = "done" /\ elems' = next
      /\ bytes' = bytes /\ limit' = limit /\ coeffs' = coeffs
  BY DEF unpack_done
<1>2. LoopInv /\ BitsInv
  BY DEF CoeffsInv
<1>3. /\ limit \in Nat \ {0} /\ L \in Nat \ {0} /\ bytes \in Seq(0 .. 255)
      /\ elems \in Seq(0 .. 255) /\ k <= CoeffCount /\ CoeffCount \in Nat \ {0}
      /\ Holds(elems, 8, room, coeffs, limit)
      /\ \A b \in 0 .. k * limit - 1 :
           Bit(coeffs, limit, b) = IF b < 8 * L THEN Bit(bytes, 8, b) ELSE 0
  BY <1>1, <1>2, CoeffsAssumption DEF LoopInv, BitsInv
<1>4. m \in Nat /\ Len(elems) = m + 1
  BY UnpackedAll
<1>5. /\ next \in Seq(0 .. 255) /\ Len(next) = m
      /\ \A i \in 1 .. m : next[i] = elems[i]
  <2> HIDE DEF m
  <2>1. \A i \in 1 .. m : elems[i] \in 0 .. 255
    <3> SUFFICES ASSUME NEW i \in 1 .. m PROVE elems[i] \in 0 .. 255
      OBVIOUS
    <3>1. i \in 1 .. Len(elems)
      BY <1>4
    <3> QED
      BY <1>3, <3>1, ElementOfSeq
  <2>2. /\ next \in Seq(0 .. 255)
        /\ Len(next) = IF 1 <= m THEN m - 1 + 1 ELSE 0
        /\ \A i \in 1 .. m - 1 + 1 : next[i] = elems[1 + i - 1]
    BY <1>4, <2>1, SubSeqProperties
  <2> HIDE DEF next
  <2> QED
    BY <1>4, <2>2
<1>6. k \in Nat /\ 8 * L <= k * limit
  <2>1. k = CeilDiv(8 * L, limit)
    BY DEF size_out, CeilDiv
  <2>2. 8 * L \in Nat
    BY <1>3
  <2> HIDE DEF k, L
  <2> QED
    BY <1>3, <2>1, <2>2, CeilDivIs
<1> HIDE DEF next, k
<1>7. L <= m
  <2> DEFINE p == CoeffCount * limit
             q == k * limit
             r == p % 8
  <2>1. q <= p
    BY <1>3, <1>6, TimesMonotone
  <2>2. p \in Nat /\ q \in Nat /\ 8 * L <= q
    BY <1>3, <1>6
  <2>3. r \in 0 .. 7 /\ p = m * 8 + r
    <3>1. m = p \div 8
      BY DEF elems_size
    <3> HIDE DEF p, m
    <3> QED
      BY <2>2, <3>1
  <2> HIDE DEF p, q, r, L, m
  <2> QED
    BY <1>3, <1>4, <2>1, <2>2, <2>3
<1> HIDE DEF L, m
<1>8. ASSUME NEW i \in 1 .. L
      PROVE  bytes[i] = next[i]
  <2> DEFINE x == elems[i]
             y == bytes[i]
  <2>1. i \in 1 .. m /\ i \in 1 .. Len(elems) /\ i # Len(elems) /\ i \in 1 .. Len(bytes)
    BY <1>3, <1>4, <1>7 DEF L
  <2>2. x \in 0 .. 255 /\ y \in 0 .. 255
    <3>1. x \in 0 .. 255
      BY <1>3, <2>1, ElementOfSeq
    <3>2. y \in 0 .. 255
      BY <1>3, <2>1, ElementOfSeq
    <3> QED
      BY <3>1, <3>2
  <2>3. ASSUME NEW j \in 0 .. 7 PROVE BitOf(y, j) = BitOf(x, j)
    <3> DEFINE b == 8 * i - 0 - 1 - j
               h == i - 1
               o == 7 - j
    <3>1. BitOf(elems[i], j) = Bit(coeffs, limit, b)
      <4> DEFINE missing == IF i = Len(elems) THEN room ELSE 0
      <4>1. missing = 0 /\ j \in 0 .. 8 - 0 - 1
        BY <2>1
      <4>2. \A f \in 0 .. 8 - missing - 1 :
              BitOf(elems[i], f) = Bit(coeffs, limit, 8 * i - missing - 1 - f)
        BY <1>3, <2>1, Zenon DEF Holds
      <4> HIDE DEF missing
      <4> QED
        BY <4>1, <4>2
    <3>2. h \in Nat /\ o \in 0 .. 8 - 1 /\ b = h * 8 + o /\ b \in Nat /\ b < 8 * L
          /\ 8 - 1 - o = j /\ h + 1 = i /\ 8 \in Nat \ {0}
      BY <1>3, <1>7
    <3>3. b \in 0 .. k * limit - 1
      <4> DEFINE q == k * limit
      <4>1. q \in Nat /\ 8 * L <= q
        BY <1>3, <1>6 DEF L
      <4> HIDE DEF q, b
      <4>2. b \in 0 .. q - 1
        BY <1>3, <3>2, <4>1
      <4> QED
        BY <4>2 DEF q
    <3> HIDE DEF b, h, o
    <3>4. Bit(coeffs, limit, b) = Bit(bytes, 8, b)
      BY <1>3, <3>2, <3>3
    <3>5. b \div 8 = h /\ b % 8 = o
      <4>1. 8 \in Nat \ {0} /\ h \in Nat /\ o \in 0 .. 8 - 1 /\ b = h * 8 + o
        BY <3>2
      <4> QED
        BY <4>1, DivIs
    <3>6. Bit(bytes, 8, b) = BitOf(bytes[i], j)
      BY <3>2, <3>5 DEF Bit
    <3> QED
      BY <3>1, <3>4, <3>6
  <2> HIDE DEF x, y
  <2>4. y = x
    <3>1. x \in 0 .. Pow2[8] - 1 /\ y \in 0 .. Pow2[8] - 1
      BY <2>2, EightBits
    <3>2. 8 \in Nat /\ \A j \in 0 .. 8 - 1 : BitOf(y, j) = BitOf(x, j)
      BY <2>3
    <3> QED
      BY <3>1, <3>2, BitsDetermine
  <2> QED
    BY <1>5, <2>1, <2>4 DEF x, y
<1>9. IsPrefix(bytes, next)
  <2> DEFINE u == SubSeq(bytes, 1, L)
             v == SubSeq(next, 1, L)
  <2>1. L \in Int /\ 1 \in Int /\ 1 <= L /\ L - 1 + 1 = L /\ \A i \in 1 .. L : 1 + i - 1 = i
    BY <1>3
  <2>2. \A i \in 1 .. L : bytes[i] \in 0 .. 255 /\ next[i] \in 0 .. 255
    <3> SUFFICES ASSUME NEW i \in 1 .. L PROVE bytes[i] \in 0 .. 255 /\ next[i] \in 0 .. 255
      OBVIOUS
    <3>1. i \in 1 .. Len(bytes)
      BY DEF L
    <3> QED
      BY <1>3, <1>8, <3>1, ElementOfSeq
  <2>3. /\ u \in Seq(0 .. 255)
        /\ Len(u) = IF 1 <= L THEN L - 1 + 1 ELSE 0
        /\ \A i \in 1 .. L - 1 + 1 : u[i] = bytes[1 + i - 1]
    BY <2>1, <2>2, SubSeqProperties
  <2>4. /\ v \in Seq(0 .. 255)
        /\ Len(v) = IF 1 <= L THEN L - 1 + 1 ELSE 0
        /\ \A i \in 1 .. L - 1 + 1 : v[i] = next[1 + i - 1]
    BY <2>1, <2>2, SubSeqProperties
  <2> HIDE DEF u, v
  <2>5. Len(u) = L /\ Len(v) = L /\ \A i \in 1 .. L : u[i] = v[i]
    BY <1>8, <2>1, <2>3, <2>4
  <2>6. u = v
    BY <2>3, <2>4, <2>5, SeqEqual
  <2> QED
    BY <1>5, <1>7, <2>6 DEF IsPrefix, L, u, v
<1>10. LoopInv'
  BY <1>1, <1>2 DEF LoopInv, InStep
<1>11. BitsInv'
  <2>1. (size_out(Len(bytes)))' = size_out(Len(bytes))
    BY <1>1 DEF size_out
  <2> QED
    BY <1>1, <1>2, <1>5, <1>9, <2>1 DEF BitsInv
<1> QED
  BY <1>10, <1>11 DEF CoeffsInv

\* Every turn of both loops.
LEMMA LoopStep == CoeffsInv /\ [Next]_vars => CoeffsInv'
<1> SUFFICES ASSUME CoeffsInv, [Next]_vars PROVE CoeffsInv'
  OBVIOUS
<1>1. CASE UNCHANGED vars
  BY <1>1 DEF vars, CoeffsInv, LoopInv, BitsInv, InStep, size_out, elems_size
<1> QED
  BY <1>1, PackBits, NextByte, PackDone, UnpackBits, NextCoeff, UnpackDone DEF Next, Done

\* What a turn makes of the types: the invariant has those of what the loop
\* that runs uses, the others stay.
LEMMA TypeStep == TypeOK /\ CoeffsInv' /\ [Next]_vars => TypeOK'
<1> SUFFICES ASSUME TypeOK, CoeffsInv', [Next]_vars PROVE TypeOK'
  OBVIOUS
<1>1. LoopInv' /\ BitsInv' /\ pc' \in {"pack", "unpack", "done"}
  BY DEF CoeffsInv, LoopInv
<1>2. CASE pc' = "pack"
  <2>1. elems' = elems
    BY <1>2 DEF Next, pack_bits, next_byte, pack_done, unpack_bits, next_coeff,
                unpack_done, Done, vars
  <2> QED
    BY <1>1, <1>2, <2>1 DEF TypeOK, LoopInv
<1>3. CASE pc' = "unpack"
  BY <1>1, <1>3 DEF TypeOK, LoopInv, BitsInv
<1>4. CASE pc' = "done"
  <2>1. rest' = rest /\ room' = room /\ limit' = limit
    BY <1>4 DEF Next, pack_bits, next_byte, pack_done, unpack_bits, next_coeff,
                unpack_done, Done, vars
  <2> QED
    BY <1>1, <1>4, <2>1 DEF TypeOK, LoopInv, BitsInv
<1> QED
  BY <1>1, <1>2, <1>3, <1>4

-----------------------------------------------------------------------------
\* Whatever the bytes, the width and the number of coefficients: a loop is in
\* a phase it has, its counters within a byte or a coefficient, and what it
\* writes are coefficients and bytes.
THEOREM CoeffsTypes ==
  Spec => []TypeOK
<1>1. Init => TypeOK
  <2> SUFFICES ASSUME Init PROVE TypeOK
    OBVIOUS
  <2>1. limit \in Nat /\ rest = 8 /\ room = limit /\ elems = <<>> /\ pc = "pack"
    BY CoeffsAssumption DEF Init
  <2>2. coeffs \in Seq(Nat) /\ elems \in Seq(0 .. 255)
    BY <2>1 DEF Init
  <2> QED
    BY <2>1, <2>2 DEF TypeOK
<1> QED
  BY <1>1, LoopInit, LoopStep, TypeStep, PTL DEF Spec

\* bytes_to_coeffs and coeffs_to_bytes take as many bits from their source as
\* they give their target, whatever the two widths.
THEOREM LoopsInStep ==
  Spec => []InStep
<1>1. CoeffsInv => InStep
  BY DEF CoeffsInv, LoopInv
<1> QED
  BY <1>1, LoopInit, LoopStep, PTL DEF Spec

\* bytes_to_coeffs never writes behind the ceil(8 * size / limit) coefficients
\* of its output, although its loop does not look at their number.
THEOREM PackingFits ==
  Spec => []TargetFits
<1>1. CoeffsInv => TargetFits
  BY InStepFits DEF CoeffsInv
<1> QED
  BY <1>1, LoopInit, LoopStep, PTL DEF Spec

\* At every turn of either loop the target holds, bit for bit, what has been
\* taken from the source, and what is left of the source's current element
\* (a byte that the shifts have truncated, a coefficient that they have not)
\* stands where the next shift takes it from.
THEOREM BitsInPlace ==
  Spec => []BitsInv
<1>1. CoeffsInv => BitsInv
  BY DEF CoeffsInv
<1> QED
  BY <1>1, LoopInit, LoopStep, PTL DEF Spec

\* bytes_to_coeffs loses, doubles and moves no bit of what it packs, wherever
\* the boundaries of bytes and coefficients fall, and makes no coefficient
\* that the plaintext modulus does not allow.
THEOREM BitsPacked ==
  Spec => []PackedBits
<1>1. CoeffsInv => PackedBits
  BY DEF CoeffsInv, BitsInv, PackedBits
<1> QED
  BY <1>1, LoopInit, LoopStep, PTL DEF Spec

\* coeffs_to_bytes gives back the bytes that bytes_to_coeffs packed, followed
\* by what the rest of the plaintext holds.
THEOREM BytesComeBack ==
  Spec => []RoundTrip
<1>1. CoeffsInv => RoundTrip
  BY DEF CoeffsInv, BitsInv, RoundTrip
<1> QED
  BY <1>1, LoopInit, LoopStep, PTL DEF Spec
=============================================================================
