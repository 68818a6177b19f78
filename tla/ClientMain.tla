----------------------------- MODULE ClientMain -----------------------------
(***************************************************************************)
(* The client processes (client_main.cpp): each connects, sends its Galois *)
(* keys and sleeps when it runs with --pir, then asks for a random element *)
(* and waits for the response, a fixed number of times.                    *)
(***************************************************************************)
EXTENDS Wire

CONSTANTS
  Queries,      \* times round the loop (10 for PIR, 100 for plain)
  SleepCovers,  \* sleep(3) outlasts the server's reading of the keys
  Mortal        \* clients that may be killed

ASSUME ClientMainAssumption ==
  /\ Queries \in Nat
  /\ SleepCovers \in BOOLEAN
  /\ Mortal \subseteq Clients

VARIABLES
  pc,        \* where main() of a client is
  asked,     \* the element of its last query, ele_index
  rounds,    \* queries answered, the loop's counter
  response,  \* the string read_until fills
  answer     \* the element its last response gave; None if it gave none

clientVars == <<pc, asked, rounds, response, answer>>

Over == {"done", "refused", "aborted", "killed"}

ClientInit ==
  /\ pc = [c \in Clients |-> "start"]
  /\ asked = [c \in Clients |-> None]
  /\ rounds = [c \in Clients |-> 0]
  /\ response = [c \in Clients |-> <<>>]
  /\ answer = [c \in Clients |-> None]

\* main() of c goes on at `next`.
goto(c, next) == pc' = [pc EXCEPT ![c] = next]

\* The socket goes with its process: closed, or reset when there is something
\* left to read in it.
hang_up(c) ==
  \E how \in {"closed", "reset"} :
    /\ how = "reset" => s2c[c] # <<>>
    /\ peer' = [peer EXCEPT ![c] = how]

\* An exception nobody catches ends the client.
Throw(c) == goto(c, "aborted") /\ hang_up(c)

\* resolve and connect; a server that is gone refuses.
connect(c) ==
  /\ pc[c] = "start"
  /\ \/ /\ up
        /\ goto(c, IF Setup = "PIR" THEN "connected" ELSE "ready")
        /\ peer' = [peer EXCEPT ![c] = "open"]
        /\ backlog' = backlog \cup {c}
     \/ /\ ~ up
        /\ goto(c, "refused")
        /\ UNCHANGED <<peer, backlog>>
  /\ UNCHANGED <<asked, rounds, response, answer, c2s, s2c, up>>

\* Generates the keys, appends the delimiter and writes both.
send_galois_keys(c) ==
  /\ pc[c] = "connected"
  /\ c2s' = [c2s EXCEPT ![c] = @ \o Message("key", c, None)]
  /\ goto(c, "sleeping")
  /\ UNCHANGED <<asked, rounds, response, answer, backlog, s2c, peer, up>>

\* Mutant: the client does not sleep.
wake_up_at_once(c) ==
  /\ pc[c] = "sleeping"
  /\ goto(c, "ready")
  /\ UNCHANGED <<asked, rounds, response, answer, wireVars>>

\* sleep(3) "to ensure the server is completely setup".
wake_up(c) ==
  /\ pc[c] = "sleeping"
  /\ SleepCovers => c2s[c] = <<>> \/ ~ up
  /\ goto(c, "ready")
  /\ UNCHANGED <<asked, rounds, response, answer, wireVars>>

\* generate_query and the write of its serialisation.
query(c) ==
  /\ pc[c] = "ready"
  /\ rounds[c] < Queries
  /\ \E ele_index \in Elements :
       /\ asked' = [asked EXCEPT ![c] = ele_index]
       /\ c2s' = [c2s EXCEPT ![c] = @ \o Message("query", c, ele_index)]
  /\ goto(c, "waiting")
  /\ UNCHANGED <<rounds, response, answer, backlog, s2c, peer, up>>

\* A read of read_until.
read_response(c) ==
  /\ pc[c] = "waiting"
  /\ ~ HasDelimiter(response[c])
  /\ \E k \in 1 .. Len(s2c[c]) :
       /\ response' = [response EXCEPT ![c] = @ \o SubSeq(s2c[c], 1, k)]
       /\ s2c' = [s2c EXCEPT ![c] = SubSeq(@, k + 1, Len(@))]
  /\ UNCHANGED <<pc, asked, rounds, answer, backlog, c2s, peer, up>>

\* The elements that the bytes of a response decode to: at most one.  Only a
\* reply computed with the client's own Galois keys decrypts to anything.
decode_reply(c, str) ==
  {e \in Elements :
     IsPrefix(Payload("reply", IF Setup = "PIR" THEN c ELSE None, e), str)}

\* Mutant: the string lives as long as the client.
fresh_response_not(c) == response

\* `response` is a variable of the loop's body.
fresh_response(c) == [response EXCEPT ![c] = <<>>]

\* The response ends at its first delimiter; what was read beyond it is lost
\* with the string.  Too few bytes for a ciphertext make SEAL throw.
receive(c) ==
  LET str == reply_str(response[c])
  IN  /\ pc[c] = "waiting"
      /\ HasDelimiter(response[c])
      /\ IF Setup = "PIR" /\ Len(str) < Len(Shape["reply"])
         THEN /\ Throw(c)
              /\ UNCHANGED <<rounds, answer, response>>
         ELSE /\ \/ \E e \in decode_reply(c, str) :
                      answer' = [answer EXCEPT ![c] = e]
                 \/ /\ decode_reply(c, str) = {}
                    /\ answer' = [answer EXCEPT ![c] = None]
              /\ rounds' = [rounds EXCEPT ![c] = @ + 1]
              /\ response' = fresh_response(c)
              /\ goto(c, "ready")
              /\ UNCHANGED peer
      /\ UNCHANGED <<asked, backlog, c2s, s2c, up>>

\* main() returns and the socket's destructor closes it.
return_0(c) ==
  /\ pc[c] = "ready"
  /\ rounds[c] = Queries
  /\ goto(c, "done")
  /\ hang_up(c)
  /\ UNCHANGED <<asked, rounds, response, answer, backlog, c2s, s2c, up>>

\* A write or a read finds that the server has gone.
throw_broken(c) ==
  /\ ~ up
  /\ \/ pc[c] \in {"connected", "waiting"}
     \/ pc[c] = "ready" /\ rounds[c] < Queries
  /\ Throw(c)
  /\ UNCHANGED <<asked, rounds, response, answer, backlog, c2s, s2c, up>>

\* The client is killed, or its host or the Tor circuit under it is gone.
killed(c) ==
  /\ c \in Mortal
  /\ peer[c] = "open"
  /\ goto(c, "killed")
  /\ \E how \in {"closed", "reset"} : peer' = [peer EXCEPT ![c] = how]
  /\ UNCHANGED <<asked, rounds, response, answer, backlog, c2s, s2c, up>>

ClientStep(c) ==
  \/ connect(c)
  \/ send_galois_keys(c)
  \/ wake_up(c)
  \/ query(c)
  \/ read_response(c)
  \/ receive(c)
  \/ return_0(c)
  \/ throw_broken(c)

ClientTypeOK ==
  /\ pc \in [Clients -> {"start", "connected", "sleeping", "ready", "waiting"}
                          \cup Over]
  /\ asked \in [Clients -> Elements \cup {None}]
  /\ rounds \in [Clients -> Nat]
  /\ response \in [Clients -> Seq(Token)]
  /\ answer \in [Clients -> Elements \cup {None}]
=============================================================================
