----------------------------- MODULE TorPirInv ------------------------------
(***************************************************************************)
(* Why the answers are right: for each client, what the bytes under way in *)
(* either direction add up to, wherever the connection and the two buffers *)
(* have cut them.  The conjunction IInv is inductive when no payload holds *)
(* a delimiter and replies are written whole; the runs check it first, and *)
(* TorPirProofs proves it.                                                 *)
(***************************************************************************)
EXTENDS TorPir

\* What c wrote and the server has not dealt with, in its order.
Inbound(c) == message_[c] \o c2s[c]

\* What the server wrote and c has not dealt with.
Outbound(c) == response[c] \o s2c[c]

\* Whose Galois keys a reply to c has to be computed with.
KeysFor(c) == IF Setup = "PIR" THEN c ELSE None

Keys(c) == Message("key", c, None)
Query(c) == Message("query", c, asked[c])
Reply(c) == Message("reply", KeysFor(c), asked[c])

\* The server holds the keys that a reply to c needs.
Keyed(c) == galoisKeys_ = KeysFor(c)

\* The four ways a waiting client and the server can stand to each other.
KeysUnread(c) ==
  /\ Setup = "PIR"
  /\ Inbound(c) = Keys(c) \o Query(c)
  /\ Outbound(c) = <<>>

QueryUnderWay(c) ==
  /\ Keyed(c)
  /\ Inbound(c) = Query(c)
  /\ Outbound(c) = <<>>

ReplyUnderWay(c) ==
  /\ Keyed(c)
  /\ Inbound(c) = <<>>
  /\ Outbound(c) = Reply(c)

\* The start of the query went with the keys when the buffer was cleared.
QueryCut(c) ==
  /\ \E k \in 1 .. Len(Query(c)) :
       Inbound(c) = SubSeq(Query(c), k + 1, Len(Query(c)))
  /\ Outbound(c) = <<>>

-----------------------------------------------------------------------------
\* galoisKeys_[0] is written once: by the one connection that the flag of
\* start() sent to handle_read_galkeys.
KeyInv ==
  /\ Setup = "Plain" => galoisKeys_ = None
  /\ ~ is_galkey_set => galoisKeys_ = None
  /\ \A c \in Clients : handler[c] = "handle_read_galkeys" =>
       /\ Setup = "PIR"
       /\ is_galkey_set
       /\ galoisKeys_ = None
       /\ \A d \in Clients : handler[d] = "handle_read_galkeys" => d = c

SocketInv(c) ==
  /\ pc[c] \in {"connected", "sleeping"} => Setup = "PIR"
  /\ pc[c] = "start" => peer[c] = "unconnected"
  /\ pc[c] \in {"connected", "sleeping", "ready", "waiting"} =>
       peer[c] = "open"
  /\ pc[c] \in {"done", "aborted", "killed"} => Gone(c)
  /\ ~ Gone(c) => unsent[c] = <<>>

StreamInv(c) ==
  /\ pc[c] \in {"start", "connected"} =>
       Inbound(c) = <<>> /\ Outbound(c) = <<>>
  /\ pc[c] \in {"sleeping", "ready"} =>
       /\ Outbound(c) = <<>>
       /\ \/ Inbound(c) = <<>> /\ Keyed(c)
          \/ Inbound(c) = Keys(c) /\ Setup = "PIR"
  /\ pc[c] = "waiting" =>
       /\ asked[c] \in Elements
       /\ KeysUnread(c) \/ QueryUnderWay(c) \/ ReplyUnderWay(c) \/ QueryCut(c)

AnswerInv(c) ==
  /\ pc[c] \in {"start", "connected", "sleeping"} => rounds[c] = 0
  /\ pc[c] \in {"ready", "done"} /\ rounds[c] > 0 => answer[c] = asked[c]

\* The inductive invariant behind AnswerIsElementAsked: at any time exactly
\* one message between a client and the server is unanswered, it is whole
\* except where handle_read_galkeys cut it, and the server can answer it with
\* the right keys.
IInv ==
  /\ TypeOK
  /\ KeyInv
  /\ \A c \in Clients : SocketInv(c) /\ StreamInv(c) /\ AnswerInv(c)

\* What the client's sleep adds: its query never shares a read with its keys,
\* so that none of it is cleared away.
SleepInv ==
  \A c \in Clients : up =>
    /\ pc[c] = "ready" => c2s[c] = <<>>
    /\ pc[c] = "waiting" =>
         \/ KeysUnread(c) /\ message_[c] = Keys(c)
         \/ QueryUnderWay(c)
         \/ ReplyUnderWay(c)

-----------------------------------------------------------------------------
\* A process that runs has its sockets; a client is refused because the
\* server is gone, and has no connection then.
LifeInv ==
  /\ proc \in {"starting", "running"} => up
  /\ \A c \in Clients :
       pc[c] = "refused" => ~ up /\ peer[c] = "unconnected"

\* Until the server holds the keys of c, whatever it has of c starts with
\* keys, and so never reads like a query.
OwnKeysInv ==
  \A c \in Clients :
    Setup = "PIR" /\ galoisKeys_ # c =>
      Inbound(c) = <<>> \/ Inbound(c)[1].kind = "key"

\* With one PIR client: its connection is the one that is asked for keys, its
\* queries are only read after them, and it does not send them again.
LoneInv ==
  Setup = "PIR" =>
    \A c \in Clients :
      /\ pc[c] = "start" => c \notin backlog /\ handler[c] = "none"
      /\ c \in backlog => handler[c] = "none"
      /\ handler[c] = "none" => ~ is_galkey_set
      /\ galoisKeys_ = None =>
           handler[c] \in {"none", "handle_read_galkeys"}
      /\ galoisKeys_ # None =>
           /\ pc[c] \notin {"start", "connected"}
           /\ pc[c] \in {"sleeping", "ready", "waiting"} =>
                Inbound(c) = <<>> \/ Inbound(c)[1].kind # "key"

-----------------------------------------------------------------------------
\* Only about the element e, or about none.
About(buf, e) == \A i \in 1 .. Len(buf) : buf[i].elem \in {e, None}

\* A query that begins in buf is the last of c, to its end, which is behind
\* tokens further on.
LastQuery(c, buf, behind) ==
  \A i \in 1 .. Len(buf) :
    buf[i].kind = "query" /\ buf[i].part = 1 =>
      /\ pc[c] = "waiting" /\ buf[i].elem = asked[c]
      /\ Len(buf) + behind = i + Len(Shape["query"])

\* A reply to c is under way, at whatever stage.
Replied(c) == response[c] # <<>> \/ s2c[c] # <<>> \/ unsent[c] # <<>>

Live == {"start", "connected", "sleeping", "ready", "waiting"}

\* The invariant behind NoOtherAnswer: what is lost is never made up for.  A
\* client that is alive has at most one reply under way, of one message and
\* about its last query, and then nothing more for the server to read; until
\* then a query can only be parsed from the first to the last of its bytes.
OneReply(c) ==
  /\ pc[c] \in {"start", "connected", "sleeping", "ready", "done"} =>
       answer[c] \in {asked[c], None}
  /\ pc[c] \in Live =>
       /\ ~ Gone(c)
       /\ WholeWrites => unsent[c] = <<>>
       /\ Replied(c) => pc[c] = "waiting" /\ message_[c] = <<>> /\ c2s[c] = <<>>
       /\ Len(response[c]) + Len(s2c[c]) + Len(unsent[c]) <= Len(Shape["reply"]) + 1
       /\ About(response[c], asked[c])
       /\ About(s2c[c], asked[c])
       /\ About(unsent[c], asked[c])
       /\ LastQuery(c, message_[c], Len(c2s[c]))
       /\ LastQuery(c, c2s[c], 0)

\* No reply is finished from memory where another one was put meanwhile.
Separate == WholeWrites \/ \A c, d \in Clients : c = d

OneReplyInv ==
  /\ \A c \in Clients : handler[c] \notin {"handle_read_plain", "handle_write_plain"}
  /\ \A c \in Clients : OneReply(c)
=============================================================================
