------------------------------ MODULE MCTorPir ------------------------------
(***************************************************************************)
(* Instances of TorPir for TLC.  A payload is one or two tokens, so that a *)
(* message arrives whole, in part, or together with the next one.          *)
(***************************************************************************)
EXTENDS TorPirInv, TLC

CONSTANTS c1, c2, e1, e2

ShortShape == [key |-> <<{}>>, query |-> <<{}>>, reply |-> <<{}, {}>>]

TinyShape == [key |-> <<{}>>, query |-> <<{}>>, reply |-> <<{}>>]

LongShape ==
  [key |-> <<{}, {}>>, query |-> <<{}, {}>>, reply |-> <<{}, {}>>]

\* One of the elements contains ":q!".
CollidingShape ==
  [key |-> <<{}>>, query |-> <<{}>>, reply |-> <<{}, {e1}>>]

\* So does a query for it.
TornShape ==
  [key |-> <<{}>>, query |-> <<{}, {e1}>>, reply |-> <<{}, {e1}>>]
=============================================================================
