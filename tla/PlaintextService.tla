-------------------------- MODULE PlaintextService --------------------------
(***************************************************************************)
(* What PIRClient and PIRServer promise their callers together, with no    *)
(* ciphertexts, matrices or scales in it: a caller asks for one plaintext  *)
(* of the database by its index and is given that plaintext.  For the      *)
(* indices that are not promised it may be given another one, or none, and *)
(* so it may where the terms are such that a reply can be damaged.         *)
(* The database serves in the form it was prepared in, and one that was    *)
(* not prepared serves once.                                               *)
(***************************************************************************)
EXTENDS Integers

CONSTANTS
  Promised(_),  \* the indices that terms promise
  Fragile(_),   \* the terms under which a reply can be damaged
  Plain(_),     \* the plaintexts of the database
  Nothing       \* what a caller has while it has no plaintext

VARIABLES
  terms,   \* what the two sides were given, for good
  form,    \* of the database: prepared, raw or spoilt
  phase,   \* idle, asked, selected or failed
  wanted,  \* the index last asked for
  got,     \* the plaintext that was given for it
  intact   \* whether the reply to it was not damaged

serviceVars == <<terms, form, phase, wanted, got, intact>>

ServiceInit ==
  /\ form = "prepared" /\ phase = "idle"
  /\ wanted = -1 /\ got = Nothing /\ intact = TRUE

\* A new database may come between any two calls.
Replace ==
  /\ phase \in {"idle", "asked"}
  /\ form' = "raw"
  /\ UNCHANGED <<terms, phase, wanted, got, intact>>

Prepare ==
  /\ phase \in {"idle", "asked"}
  /\ form = "raw" /\ form' = "prepared"
  /\ UNCHANGED <<terms, phase, wanted, got, intact>>

\* Not every plaintext can be asked for, but every promised one.
Ask ==
  /\ phase = "idle"
  /\ wanted' \in Nat
  /\ \/ phase' = "asked"
     \/ phase' = "failed" /\ wanted' \notin Promised(terms)
  /\ got' = Nothing /\ intact' = TRUE
  /\ UNCHANGED <<terms, form>>

\* The database is used: what was not prepared for that is spoilt by it.
Select ==
  /\ phase = "asked" /\ phase' = "selected"
  /\ form # "spoilt"
  /\ form' = IF form = "raw" THEN "spoilt" ELSE form
  /\ UNCHANGED <<terms, wanted, got, intact>>

Damage ==
  /\ phase = "selected" /\ Fragile(terms)
  /\ intact' = FALSE
  /\ UNCHANGED <<terms, form, phase, wanted, got>>

Answer ==
  /\ phase = "selected" /\ phase' = "idle"
  /\ wanted \in Promised(terms) /\ intact => got' = Plain(wanted)
  /\ UNCHANGED <<terms, form, wanted, intact>>

\* Once the database is used, a promise is kept, if the reply is not damaged.
Fail ==
  /\ \/ phase \in {"idle", "asked"} /\ form = "spoilt"
     \/ phase \in {"asked", "selected"} /\ wanted \notin Promised(terms)
     \/ phase = "selected" /\ ~ intact'
  /\ \/ intact' = intact
     \/ phase = "selected" /\ Fragile(terms) /\ intact' = FALSE
  /\ phase' = "failed"
  /\ form' \in {form, "spoilt"}
  /\ got' = Nothing
  /\ UNCHANGED <<terms, wanted>>

ServiceNext == Replace \/ Prepare \/ Ask \/ Select \/ Damage \/ Answer \/ Fail

Service == ServiceInit /\ [][ServiceNext]_serviceVars

-----------------------------------------------------------------------------
\* So between two calls a caller has the plaintext it was promised, unless the
\* reply was damaged, and after a failure that is so, or the database is spoilt,
\* or nothing was promised; and only fragile terms let a reply be damaged.
Kept ==
  /\ phase = "idle" /\ wanted \in Nat \cap Promised(terms) /\ intact => got = Plain(wanted)
  /\ phase \in {"asked", "selected"} => wanted \in Nat
  /\ phase = "failed" =>
       form = "spoilt" \/ wanted \in Nat \ Promised(terms) \/ ~ intact
  /\ ~ intact => Fragile(terms)
=============================================================================
