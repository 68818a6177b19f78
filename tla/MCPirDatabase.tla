--------------------------- MODULE MCPirDatabase ----------------------------
(***************************************************************************)
(* Databases of up to eighteen elements of one to four bytes, in           *)
(* plaintexts of four or eight coefficients: elements that fill a          *)
(* plaintext, that leave some of it, and that do not fit; a last plaintext *)
(* that is not full; matrices that are a square and that are not; and      *)
(* more plaintexts than one query ciphertext can select from.              *)
(***************************************************************************)
EXTENDS PirDatabase

Flags(dimensions) ==
  [ele_num : 1 .. 18, ele_size : 1 .. 4, N : {4, 8}, logt : {3, 5, 8, 12},
   d : dimensions]

AllFlags == Flags({1, 2})
=============================================================================
