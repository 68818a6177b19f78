------------------------------ MODULE MCCoeffs ------------------------------
(***************************************************************************)
(* Up to three bytes, whose bits tell apart what is lost and what is       *)
(* moved, with coefficients narrower than a byte, as wide (logt = 8, the   *)
(* default), and wider, so that a byte spans up to eight coefficients and  *)
(* a coefficient up to three bytes.                                        *)
(***************************************************************************)
EXTENDS Coeffs

ByteStrings == UNION {[1 .. n -> {0, 1, 90, 128, 255}] : n \in 1 .. 3}
=============================================================================
