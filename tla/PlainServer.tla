---------------------------- MODULE PlainServer -----------------------------
(***************************************************************************)
(* The bytes of a plain reply: what PlainServer puts together, what        *)
(* handle_read_plain appends, and what the client's read_until leaves of   *)
(* it.  This is the level below Wire, where a payload is one token that    *)
(* does or does not contain the delimiter.                                 *)
(***************************************************************************)
EXTENDS Naturals, Sequences, SequencesExt

CONSTANTS
  ele_num, ele_size,  \* of the server's configuration
  ByteValues          \* the values that bytes of the database take

ASSUME PlainServerAssumption ==
  /\ ele_num \in Nat \ {0} /\ ele_size \in Nat \ {0}
  /\ ByteValues \subseteq 0 .. 255

VARIABLES
  db_,       \* the bytes of all elements; <<>> before gen_database
  query,     \* the element the client asked for last
  sent,      \* the reply as it was written to the socket
  reply_str  \* what the client took the reply to be

vars == <<db_, query, sent, reply_str>>

\* ':', 'q', '!'
delimiter == <<58, 113, 33>>

Init == db_ = <<>> /\ query = 0 /\ sent = <<>> /\ reply_str = <<>>

\* Mutant: as many bytes as there are elements.
gen_database_short ==
  /\ db_ = <<>>
  /\ db_' \in [1 .. ele_num -> ByteValues]
  /\ UNCHANGED <<query, sent, reply_str>>

gen_database ==
  /\ db_ = <<>>
  /\ db_' \in [1 .. ele_num * ele_size -> ByteValues]
  /\ UNCHANGED <<query, sent, reply_str>>

\* The bytes of the database entry at an index.
Entry(e) == SubSeq(db_, e * ele_size + 1, (e + 1) * ele_size)

\* Mutant: the bytes are put before those that resize made.
generate_reply_front(e) == Entry(e) \o [i \in 1 .. ele_size |-> 0]

\* resize makes ele_size bytes of zero, and push_back appends to those.
generate_reply(e) == [i \in 1 .. ele_size |-> 0] \o Entry(e)

\* The client asks, and handle_read_plain writes the reply to it.
handle_read_plain(e) ==
  /\ db_ # <<>> /\ sent = <<>>
  /\ query' = e
  /\ sent' = generate_reply(e) \o delimiter
  /\ UNCHANGED <<db_, reply_str>>

\* Where str holds the delimiter: the indices of its colon.
Occurrences(str) ==
  {i \in 1 .. Len(str) - 2 : SubSeq(str, i, i + 2) = delimiter}

\* read_until stops after the first delimiter, which is then erased.
read_reply ==
  /\ sent # <<>>
  /\ \E i \in Occurrences(sent) :
       /\ \A k \in Occurrences(sent) : i <= k
       /\ reply_str' = SubSeq(sent, 1, i - 1)
  /\ sent' = <<>>
  /\ UNCHANGED <<db_, query>>

Next ==
  \/ gen_database
  \/ \E e \in 0 .. ele_num - 1 : handle_read_plain(e)
  \/ read_reply

Spec == Init /\ [][Next]_vars

-----------------------------------------------------------------------------
TypeOK ==
  /\ db_ \in Seq(ByteValues) /\ Len(db_) \in {0, ele_num * ele_size}
  /\ query \in 0 .. ele_num - 1
  /\ sent \in Seq(0 .. 255)
  /\ reply_str \in Seq(0 .. 255)

\* What the client receives ends in the element that it asked for exactly when
\* that contains no ":q!" itself: no delimiter forms where the element meets what
\* is put before it or behind it.  What generate_reply puts before it should not
\* be there ("the bytes of the database entry" is what plain_server.hpp says a
\* reply is), and the client, which checks no length, keeps it.
ElementArrives ==
  sent = <<>> /\ reply_str # <<>> =>
    (IsSuffix(Entry(query), reply_str) <=> Occurrences(Entry(query)) = {})
=============================================================================
