------------------------------- MODULE TorPir -------------------------------
(***************************************************************************)
(* The whole system: one server process, its clients, and the connections  *)
(* between them.                                                           *)
(***************************************************************************)
EXTENDS TCPServer, ClientMain

vars == <<wireVars, serverVars, clientVars>>

Init == WireInit /\ ServerInit /\ ClientInit

\* Every client is over; the server may still be accepting.
Terminating == (\A c \in Clients : pc[c] \in Over) /\ UNCHANGED vars

Next ==
  \/ gen_database /\ UNCHANGED clientVars
  \/ \E c \in Clients : ServerStep(c) /\ UNCHANGED clientVars
  \/ \E c \in Clients : (ClientStep(c) \/ killed(c)) /\ UNCHANGED serverVars
  \/ Terminating

\* io_context.run() serves every connection that is ready, TCP delivers, and
\* a client that is not killed runs on.  Nobody has to kill a client.
Fairness ==
  /\ WF_vars(gen_database /\ UNCHANGED clientVars)
  /\ \A c \in Clients :
       /\ WF_vars(ServerStep(c) /\ UNCHANGED clientVars)
       /\ WF_vars(ClientStep(c) /\ UNCHANGED serverVars)

Spec == Init /\ [][Next]_vars

FairSpec == Spec /\ Fairness

-----------------------------------------------------------------------------
\* Every variable keeps its type in every state.
TypeOK == WireTypeOK /\ ServerTypeOK /\ ClientTypeOK

\* Whatever a client has just received is the element it last asked for: the
\* bytes of neither direction are lost, repeated, mixed up with those of
\* another message, or taken for another client's.
AnswerIsElementAsked ==
  \A c \in Clients :
    pc[c] \in {"ready", "done"} /\ rounds[c] > 0 => answer[c] = asked[c]

\* While a client waits for a response the server is not also waiting for
\* that client: bytes of a query or of a response are on their way.
NoStandoff ==
  \A c \in Clients :
    up /\ pc[c] = "waiting" /\ handler[c] \in ReadHandlers =>
      \/ c2s[c] # <<>> \/ HasDelimiter(message_[c])
      \/ s2c[c] # <<>> \/ HasDelimiter(response[c])

\* A PIR reply is computed with the Galois keys of the client that gets it,
\* although all connections share galoisKeys_[0].
ReplyUnderOwnKeys ==
  \A c \in Clients : \A i \in 1 .. Len(s2c[c]) :
    Setup = "PIR" /\ s2c[c][i].kind = "reply" => s2c[c][i].who = c

\* galoisKeys_[0] is written once: no connection replaces the keys that the
\* replies of another are computed with.
KeysWrittenOnce == [][galoisKeys_ # None => UNCHANGED galoisKeys_]_vars

\* The server only stops after some client has closed its connection.
StopsOnlyAfterEof == up \/ \E c \in Clients : Gone(c)

\* Whatever happens to a query or a reply on its way (a short write, a
\* delimiter within it, a query read along with the keys), the reply is never
\* taken for the answer to another query than the last.
NoOtherAnswer ==
  \A c \in Clients :
    pc[c] \in {"ready", "done"} => answer[c] \in {asked[c], None}

\* auto-hop.sh: "This script is used to query the plain server over and over
\* again": a client that comes after another finds the server there.
NeverRefused == \A c \in Clients : pc[c] # "refused"

\* No client is left hanging: each one finishes, or learns that the server
\* is gone.
EveryClientEnds == \A c \in Clients : <>(pc[c] \in Over)

\* A client that has the server to itself gets all its answers.
EveryClientFinishes == \A c \in Clients : <>(pc[c] = "done")

-----------------------------------------------------------------------------
\* The service this implements: where a client is, from where its main() is.
StageOf(c) ==
  CASE pc[c] = "start" -> "out"
    [] pc[c] \in {"connected", "sleeping", "ready"} -> "idle"
    [] pc[c] = "waiting" -> "asking"
    [] pc[c] = "done" -> "left"
    [] pc[c] \in {"refused", "aborted", "killed"} -> "failed"

Abstract == INSTANCE QueryService
  WITH stage <- [c \in Clients |-> StageOf(c)], want <- asked, got <- answer,
       served <- rounds, open <- up

\* Seen from outside, with the buffers, handlers and connections hidden, the
\* processes are a query service: every answer is the one asked for, and no
\* client fails while the service is open unless it was killed.
ImplementsQueryService == Abstract!Service
=============================================================================
