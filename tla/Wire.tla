-------------------------------- MODULE Wire --------------------------------
(***************************************************************************)
(* What the server process and the client processes share: one TCP         *)
(* connection per client, the listening socket's queue, and the delimited  *)
(* messages both sides agree on.                                           *)
(*                                                                         *)
(* A message is a payload followed by the delimiter (":q!", or the newline *)
(* that ends a plain query).  A payload is a few tokens, each a run of its *)
(* bytes; Shape says which of them happens to read like the delimiter, and *)
(* for which elements, for nothing in the code escapes it.  The bytes of   *)
(* one delimiter always travel together: split over two reads it is not    *)
(* found before the second one, which is the same as arriving then.        *)
(***************************************************************************)
EXTENDS Naturals, Sequences, SequencesExt

CONSTANTS
  Clients,   \* client processes; each makes one connection
  Elements,  \* indices of the database, 0 .. ele_num - 1
  None,      \* no client, no element
  Setup,     \* server_config.setup, and the client's --pir
  Shape      \* Shape[kind][p]: whose part p reads ":q!" in such a payload

PayloadKinds == {"key", "query", "reply"}

ASSUME WireAssumption ==
  /\ None \notin Clients
  /\ None \notin Elements
  /\ Setup \in {"Plain", "PIR"}
  /\ Shape \in [PayloadKinds -> Seq(SUBSET (Elements \cup {None}))]
  /\ \A kind \in PayloadKinds : Len(Shape[kind]) > 0

VARIABLES
  backlog,  \* connections made and not yet accepted
  c2s,      \* per client, the bytes it wrote that the server has not read
  s2c,      \* per client, the bytes the server wrote that it has not read
  peer,     \* per client, its end of the connection
  up        \* the server process holds its sockets

wireVars == <<backlog, c2s, s2c, peer, up>>

-----------------------------------------------------------------------------
\* `who` is the client that made the keys or the query; of a reply, the
\* client whose Galois keys it was computed with (None in plain setup).
Token == [kind  : PayloadKinds \cup {"end", "junk"},
          who   : Clients \cup {None},
          elem  : Elements \cup {None},
          part  : Nat,
          delim : BOOLEAN]

\* The string ":q!" that ends a transmission.
delimiter == [kind |-> "end", who |-> None, elem |-> None,
              part |-> 0, delim |-> TRUE]

\* Bytes read from memory that was freed before they were sent.
Junk == [kind |-> "junk", who |-> None, elem |-> None,
         part |-> 0, delim |-> FALSE]

Payload(kind, who, elem) ==
  [p \in 1 .. Len(Shape[kind]) |->
     [kind |-> kind, who |-> who, elem |-> elem,
      part |-> p, delim |-> elem \in Shape[kind][p]]]

\* Mutant: the sender forgets the delimiter.
Message_unterminated(kind, who, elem) == Payload(kind, who, elem)

Message(kind, who, elem) == Payload(kind, who, elem) \o <<delimiter>>

\* No payload contains the bytes of the delimiter.
DelimiterFree ==
  \A kind \in PayloadKinds :
    \A p \in 1 .. Len(Shape[kind]) : Shape[kind][p] = {}

-----------------------------------------------------------------------------
\* read_until stops once the buffer holds the delimiter, wherever it is.
HasDelimiter(buf) == \E i \in 1 .. Len(buf) : buf[i].delim

\* What the client keeps of a response: the bytes before the first delimiter.
reply_str(buf) ==
  SubSeq(buf, 1, SelectInSeq(buf, LAMBDA t : t.delim) - 1)

\* The server's message_.erase(length - 3, 3): it drops the last bytes of the
\* buffer, whether or not they are the delimiter that read_until found.  A
\* token that loses bytes can no longer complete a payload.
EraseDelimiter(buf) == Front(buf)

WireInit ==
  /\ backlog = {}
  /\ c2s = [c \in Clients |-> <<>>]
  /\ s2c = [c \in Clients |-> <<>>]
  /\ peer = [c \in Clients |-> "unconnected"]
  /\ up = TRUE

Gone(c) == peer[c] \in {"closed", "reset"}

WireTypeOK ==
  /\ backlog \subseteq Clients
  /\ c2s \in [Clients -> Seq(Token)]
  /\ s2c \in [Clients -> Seq(Token)]
  /\ peer \in [Clients -> {"unconnected", "open", "closed", "reset"}]
  /\ up \in BOOLEAN
=============================================================================
