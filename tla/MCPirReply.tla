----------------------------- MODULE MCPirReply -----------------------------
(***************************************************************************)
(* Plaintexts of four coefficients modulo five, ciphertext words of five   *)
(* bits in three digits.  Sides of the matrix below, at and beyond the     *)
(* four places of one query ciphertext, with one to four left for the last *)
(* of up to three; both dimensions; the same flags on both sides, and      *)
(* others.                                                                 *)
(***************************************************************************)
EXTENDS PirReply

Same(via, sizes, d) ==
  {[via |-> via, n |-> n, d |-> d, client_n |-> n, client_d |-> d] : n \in sizes}

Others(via, sizes, dims) ==
  {f \in [via : {via}, n : sizes, d : dims, client_n : sizes, client_d : dims] :
     <<f.n, f.d>> # <<f.client_n, f.client_d>>}

AllFlags ==
  UNION {Same("tcp", 1 .. 6, 1), Same("tcp", {4, 9}, 2),
         Same("direct", 1 .. 11, 1), Same("direct", {4, 6, 9, 36, 42, 56}, 2),
         Others("tcp", {2, 3, 6}, {1}), Others("direct", {3, 6, 7}, {1}),
         Others("direct", {6, 9}, {1, 2})}

\* None is zero, and any two differ but the first two of them.
TwoEqual(k) ==
  [i \in 0 .. N - 1 |->
     ((IF k = 0 THEN 2 ELSE k + 1) \div Pow2[logt * i]) % Pow2[logt]]

\* The first seed gives the first two ciphertexts the same words.  Those of odd
\* ones have no zero digit in the last coefficient.
MixedWords(seed, k) ==
  LET c == IF seed = 1 /\ k = 2 THEN 1 ELSE k
  IN  [i \in 1 .. 2 |-> [m \in 0 .. N - 1 |->
         IF m = N - 1 /\ c % 2 = 1 THEN 21
         ELSE (17 * c + 5 * seed * (m + 1) + 11 * i * (m + 2)) % Pow2[logq]]]

\* Not a multiple of a plaintext of the database.
OtherPlain == {[i \in 0 .. N - 1 |-> i + 1]}
=============================================================================
