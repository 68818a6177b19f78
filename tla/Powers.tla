------------------------------- MODULE Powers -------------------------------
(***************************************************************************)
(* Powers of two, which the code writes as shifts.  Their function is      *)
(* defined here rather than taken from Naturals because the provers know   *)
(* nothing about that one.                                                 *)
(***************************************************************************)
EXTENDS Naturals

\* 1 << n of an unbounded number
Pow2[n \in Nat] == IF n = 0 THEN 1 ELSE 2 * Pow2[n - 1]

\* Bit k of x, the last one being bit 0
BitOf(x, k) == (x \div Pow2[k]) % 2
=============================================================================
