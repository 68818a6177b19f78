---------------------------- MODULE QueryService ----------------------------
(***************************************************************************)
(* What server_main and client_main promise together, with no bytes, no    *)
(* buffers and no handlers in it: a client asks for one element at a time  *)
(* and is given that element, as many times as it meant to; a client only  *)
(* fails after it was killed or after the service closed, and the service  *)
(* only closes after some client left.                                     *)
(***************************************************************************)
EXTENDS Naturals

CONSTANTS Clients, Elements, None, Queries, Mortal

VARIABLES
  stage,   \* per client: out, idle, asking, left or failed
  want,    \* the element it last asked for
  got,     \* the element it was last given
  served,  \* how many it was given
  open     \* the service answers

serviceVars == <<stage, want, got, served, open>>

become(c, s) == stage' = [stage EXCEPT ![c] = s]

ServiceInit ==
  /\ stage = [c \in Clients |-> "out"]
  /\ want = [c \in Clients |-> None]
  /\ got = [c \in Clients |-> None]
  /\ served = [c \in Clients |-> 0]
  /\ open = TRUE

Enter(c) ==
  /\ stage[c] = "out" /\ open
  /\ become(c, "idle")
  /\ UNCHANGED <<want, got, served, open>>

Ask(c) ==
  /\ stage[c] = "idle"
  /\ served[c] < Queries
  /\ become(c, "asking")
  /\ \E e \in Elements : want' = [want EXCEPT ![c] = e]
  /\ UNCHANGED <<got, served, open>>

Answer(c) ==
  /\ stage[c] = "asking"
  /\ become(c, "idle")
  /\ got' = [got EXCEPT ![c] = want[c]]
  /\ served' = [served EXCEPT ![c] = @ + 1]
  /\ UNCHANGED <<want, open>>

Leave(c) ==
  /\ stage[c] = "idle"
  /\ served[c] = Queries
  /\ become(c, "left")
  /\ UNCHANGED <<want, got, served, open>>

Fail(c) ==
  /\ stage[c] \in {"out", "idle", "asking"}
  /\ \/ ~ open
     \/ c \in Mortal /\ stage[c] # "out"
  /\ become(c, "failed")
  /\ UNCHANGED <<want, got, served, open>>

Close ==
  /\ open
  /\ \E c \in Clients : stage[c] \in {"left", "failed"}
  /\ open' = FALSE
  /\ UNCHANGED <<stage, want, got, served>>

ServiceNext ==
  \/ \E c \in Clients : Enter(c) \/ Ask(c) \/ Answer(c) \/ Leave(c) \/ Fail(c)
  \/ Close

Service == ServiceInit /\ [][ServiceNext]_serviceVars
=============================================================================
