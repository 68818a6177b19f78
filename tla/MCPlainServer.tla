--------------------------- MODULE MCPlainServer ----------------------------
(***************************************************************************)
(* Two elements of four bytes, long enough to hold a whole delimiter or    *)
(* any part of one at either end.                                          *)
(***************************************************************************)
EXTENDS PlainServer

DelimiterAndOther == {0, 33, 58, 113}
=============================================================================
