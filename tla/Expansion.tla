----------------------------- MODULE Expansion ------------------------------
(***************************************************************************)
(* How the server turns one query ciphertext into selectors, and how the   *)
(* client undoes what that does to the scale.  A ciphertext is modelled by *)
(* the polynomial it encrypts, an element of Z_t[x] / (x^N + 1); SEAL's    *)
(* evaluation acts on that polynomial as it promises to, without noise.    *)
(***************************************************************************)
EXTENDS Integers, Sequences, FiniteSetsExt, Powers

CONSTANTS
  N,     \* coefficients of a polynomial
  logt   \* bits of the plain modulus, less one

ASSUME ExpansionAssumption ==
  /\ \E e \in 1 .. N : N = Pow2[e]
  /\ logt \in Nat \ {0}

t == Pow2[logt] + 1

\* ceil(log2(m)) of a positive m
CeilLog2(m) == Min({e \in 0 .. m : Pow2[e] >= m})

logN == CeilLog2(N)

-----------------------------------------------------------------------------
Poly == [0 .. N - 1 -> 0 .. t - 1]

Const(c) == [i \in 0 .. N - 1 |-> IF i = 0 THEN c % t ELSE 0]

Zero == Const(0)

\* x^k
Monomial(k) == [i \in 0 .. N - 1 |-> IF i = k THEN 1 ELSE 0]

Plus(f, g) == [i \in 0 .. N - 1 |-> (f[i] + g[i]) % t]

\* Mutant: the product is not reduced.
Scaled_unreduced(f, c) == [i \in 0 .. N - 1 |-> f[i] * c]

Scaled(f, c) == [i \in 0 .. N - 1 |-> (f[i] * c) % t]

\* The power i of each term becomes to(i), one of x being x^N = -1.
Moved(f, to(_)) ==
  [c \in 0 .. N - 1 |->
     LET i == CHOOSE i \in 0 .. N - 1 : to(i) % N = c
     IN  IF to(i) % (2 * N) >= N THEN (t - f[i]) % t ELSE f[i]]

multiply_power_of_X(f, index) == Moved(f, LAMBDA i : i + index)

\* x becomes x^elt.
apply_galois(f, elt) == Moved(f, LAMBDA i : i * elt)

\* h[0] + ... + h[n - 1], in the order of a loop
Total(h, n) ==
  LET sum[i \in 0 .. n] == IF i = 0 THEN 0 ELSE sum[i - 1] + h[i - 1]
  IN  sum[n]

Times(f, g) ==
  [c \in 0 .. N - 1 |->
     Total([i \in 0 .. N - 1 |->
              f[i] * (IF i <= c THEN g[c - i] ELSE t - g[N + c - i])], N) % t]

-----------------------------------------------------------------------------
galois_elt(i) == (N + Pow2[i]) \div Pow2[i]

index_raw(i) == 2 * N - Pow2[i]

\* Mutant: the shift of the rotated ciphertext is that of the other one.
index_unrotated(i) == index_raw(i)

index(i) == (index_raw(i) * galois_elt(i)) % (2 * N)

\* What a ciphertext contributes to the two halves of the next step.
low(f, i) == Plus(f, apply_galois(f, galois_elt(i)))

high(f, i) == Plus(multiply_power_of_X(f, index_raw(i)),
                   multiply_power_of_X(apply_galois(f, galois_elt(i)), index(i)))

doubled(temp, i) ==
  [a \in DOMAIN temp |-> low(temp[a], i)] \o [a \in DOMAIN temp |-> high(temp[a], i)]

\* Mutant: those whose second half is not wanted are left as they are.
last_step_unscaled(temp, i, m) ==
  [a \in DOMAIN temp |-> IF a > m - Len(temp) THEN temp[a] ELSE low(temp[a], i)]
  \o [a \in 1 .. m - Len(temp) |-> high(temp[a], i)]

\* The second half is only wanted up to m ciphertexts; those whose second half
\* is not wanted are multiplied by two to keep the scale.
last_step(temp, i, m) ==
  [a \in DOMAIN temp |-> IF a > m - Len(temp) THEN Scaled(temp[a], 2)
                         ELSE low(temp[a], i)]
  \o [a \in 1 .. m - Len(temp) |-> high(temp[a], i)]

\* The code goes wrong before or in its last step unless 2 <= m <= N.
Expandable(m) == m \in 2 .. N

expand_query(f, m) ==
  LET logm == CeilLog2(m)
      temp[i \in 0 .. logm - 1] ==
        IF i = 0 THEN <<f>> ELSE doubled(temp[i - 1], i - 1)
  IN  last_step(temp[logm - 1], logm - 1, m)

-----------------------------------------------------------------------------
\* Mutant: 2^logt is taken for 1, which it is the negative of.
inverse_scale_unsigned(logm) == Pow2[logt - (logm % logt)]

inverse_scale(logm) ==
  LET power == Pow2[logt - (logm % logt)]
  IN  IF (logm \div logt + 1) % 2 # 0 THEN t - power ELSE power
=============================================================================
