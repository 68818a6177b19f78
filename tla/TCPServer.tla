----------------------------- MODULE TCPServer ------------------------------
(***************************************************************************)
(* The server process: server_main.cpp brings it up, TCPServer accepts     *)
(* connections, and each TCPConnection has one asynchronous operation      *)
(* outstanding whose completion runs the handler bound to it.  One thread  *)
(* runs io_context.run(), so a handler is one step; the reads and writes   *)
(* of a composed operation happen between handlers.                        *)
(*                                                                         *)
(* What a PlainServer or a PIRServer computes is abstracted to the element *)
(* a query names and, for PIR, to the client whose Galois keys expanded it.*)
(***************************************************************************)
EXTENDS Wire

CONSTANT WholeWrites  \* the first write of a reply always takes all of it

ASSUME TCPServerAssumption == WholeWrites \in BOOLEAN

VARIABLES
  proc,           \* how far the process is, or how it ended
  is_galkey_set,  \* the static flag of TCPConnection::start()
  galoisKeys_,    \* whose keys galoisKeys_[0] holds
  handler,        \* per connection, the handler its operation is bound to
  message_,       \* per connection, the dynamic buffer
  unsent          \* per connection, the part of a reply not yet written

serverVars == <<proc, is_galkey_set, galoisKeys_, handler, message_, unsent>>

ReadHandlers  == {"handle_read_plain", "handle_read_galkeys",
                  "handle_read_pir"}
WriteHandlers == {"handle_write_plain", "handle_write_pir"}

\* The process goes: exit(0), an exception that main reports, or a crash.
End(how) == proc' = how /\ up' = FALSE

ServerInit ==
  /\ proc = "starting"
  /\ is_galkey_set = FALSE
  /\ galoisKeys_ = None
  /\ handler = [c \in Clients |-> "none"]
  /\ message_ = [c \in Clients |-> <<>>]
  /\ unsent = [c \in Clients |-> <<>>]

\* The constructor already listens; the database comes before io_context.run().
gen_database ==
  /\ proc = "starting"
  /\ proc' = "running"
  /\ UNCHANGED <<is_galkey_set, galoisKeys_, handler, message_, unsent,
                 wireVars>>

-----------------------------------------------------------------------------
\* Mutant: the flag of start() belongs to the connection.
start_per_connection(c) ==
  /\ is_galkey_set' = (is_galkey_set \/ Setup = "PIR")
  /\ handler' = [handler EXCEPT ![c] =
                   IF Setup = "Plain" THEN "handle_read_plain"
                   ELSE IF @ = "none" THEN "handle_read_galkeys"
                   ELSE "handle_read_pir"]

\* TCPConnection::start(): which handler the next read of c is bound to.
start(c) ==
  /\ is_galkey_set' = (is_galkey_set \/ Setup = "PIR")
  /\ handler' = [handler EXCEPT ![c] =
                   IF Setup = "Plain" THEN "handle_read_plain"
                   ELSE IF ~ is_galkey_set THEN "handle_read_galkeys"
                   ELSE "handle_read_pir"]

\* handle_accept asks for the remote endpoint before it looks at the error:
\* when the peer has reset the connection that call throws.
handle_accept(c) ==
  /\ proc = "running"
  /\ c \in backlog
  /\ backlog' = backlog \ {c}
  /\ \/ start(c) /\ UNCHANGED <<proc, up>>
     \/ /\ peer[c] = "reset"
        /\ End("threw")
        /\ UNCHANGED <<is_galkey_set, handler>>
  /\ UNCHANGED <<galoisKeys_, message_, unsent, c2s, s2c, peer>>

\* A read of async_read_until: some of the bytes that wait are appended to the
\* buffer.  Once that holds the delimiter only the handler of c comes next.
read_some(c) ==
  /\ proc = "running"
  /\ handler[c] \in ReadHandlers
  /\ ~ HasDelimiter(message_[c])
  /\ \E k \in 1 .. Len(c2s[c]) :
       /\ message_' = [message_ EXCEPT ![c] = @ \o SubSeq(c2s[c], 1, k)]
       /\ c2s' = [c2s EXCEPT ![c] = SubSeq(@, k + 1, Len(@))]
  /\ UNCHANGED <<proc, is_galkey_set, galoisKeys_, handler, unsent,
                 backlog, s2c, peer, up>>

\* The operation completes with an error, and 0 bytes transferred: the client
\* has closed its end and everything it wrote was read, or it reset it.
ReadFailed(c) ==
  /\ ~ HasDelimiter(message_[c])
  /\ \/ peer[c] = "closed" /\ c2s[c] = <<>>
     \/ peer[c] = "reset"

\* Mutant: the buffer is not cleared.
cleared_not(c) == message_

\* message_.clear(): whatever else the reads had put into the buffer goes too.
cleared(c) == [message_ EXCEPT ![c] = <<>>]

\* Connections whose unwritten bytes may lie where a new reply is put: their
\* memory was freed when their handler returned.
Overwritable(c, reply) ==
  {d \in Clients \ {c} : unsent[d] # <<>> /\ Len(unsent[d]) <= Len(reply)}

\* async_write of a reply that is local to the handler.  Its first write is
\* made at once; what that leaves is written after the handler returned.
async_write(c, reply, completion) ==
  /\ \E k \in IF Gone(c) THEN {0, Len(reply)}
              ELSE IF WholeWrites THEN {Len(reply)} ELSE 0 .. Len(reply) :
     \E over \in SUBSET Overwritable(c, reply) :
       /\ s2c' = [s2c EXCEPT ![c] = @ \o SubSeq(reply, 1, k)]
       /\ unsent' = [d \in Clients |->
            IF d = c THEN SubSeq(reply, k + 1, Len(reply))
            ELSE IF d \in over
              THEN SubSeq(reply, Len(reply) - Len(unsent[d]) + 1, Len(reply))
            ELSE unsent[d]]
  /\ handler' = [handler EXCEPT ![c] = completion]

\* generate_reply and the write of its result.  A query that cannot be parsed
\* throws, and so does expanding one while galoisKeys_[0] is still empty.
respond(c, query, completion) ==
  \/ /\ Setup = "PIR" => galoisKeys_ # None
     /\ \E e \in Elements :
          /\ IsPrefix(Payload("query", c, e), query)
          /\ async_write(c, Message("reply", galoisKeys_, e), completion)
     /\ message_' = cleared(c)
     /\ UNCHANGED <<proc, up>>
  \/ /\ \/ Setup = "PIR" /\ galoisKeys_ = None
        \/ \A e \in Elements : ~ IsPrefix(Payload("query", c, e), query)
     /\ End("threw")
     /\ UNCHANGED <<handler, message_, unsent, s2c>>

\* Mutant: the handler does not test how much was transferred.
exit_on_error_any(c) ==
  /\ ReadFailed(c) \/ HasDelimiter(message_[c])
  /\ End("exited")
  /\ UNCHANGED <<handler, message_, unsent, s2c>>

\* bytes_transferred == 0: exit(0), whoever else is connected.
exit_on_error(c) ==
  /\ ReadFailed(c)
  /\ End("exited")
  /\ UNCHANGED <<handler, message_, unsent, s2c>>

handle_read_plain(c) ==
  /\ proc = "running"
  /\ handler[c] = "handle_read_plain"
  /\ \/ exit_on_error(c)
     \/ /\ HasDelimiter(message_[c])
        /\ respond(c, message_[c], "handle_write_plain")
  /\ UNCHANGED <<is_galkey_set, galoisKeys_, backlog, c2s, peer>>

handle_read_pir(c) ==
  /\ proc = "running"
  /\ handler[c] = "handle_read_pir"
  /\ \/ exit_on_error(c)
     \/ /\ HasDelimiter(message_[c])
        /\ respond(c, EraseDelimiter(message_[c]), "handle_write_pir")
  /\ UNCHANGED <<is_galkey_set, galoisKeys_, backlog, c2s, peer>>

\* The error is not looked at: whatever the buffer holds is deserialised.
handle_read_galkeys(c) ==
  LET keys == EraseDelimiter(message_[c])
  IN  /\ proc = "running"
      /\ handler[c] = "handle_read_galkeys"
      /\ ReadFailed(c) \/ HasDelimiter(message_[c])
      /\ \/ /\ IsPrefix(Payload("key", c, None), keys)
            /\ galoisKeys_' = c
            /\ message_' = cleared(c)
            /\ start(c)
            /\ UNCHANGED <<proc, up>>
         \/ /\ ~ IsPrefix(Payload("key", c, None), keys)
            /\ End("threw")
            /\ UNCHANGED <<is_galkey_set, galoisKeys_, handler, message_>>
      /\ UNCHANGED <<unsent, backlog, c2s, s2c, peer>>

\* The rest of a reply is read from the freed vector or string: the bytes (or
\* those of a later reply) are still there, or they are not.
write_some(c) ==
  /\ proc = "running"
  /\ handler[c] \in WriteHandlers
  /\ unsent[c] # <<>>
  /\ ~ Gone(c)
  /\ \E token \in {Head(unsent[c]), Junk} :
       s2c' = [s2c EXCEPT ![c] = Append(@, token)]
  /\ unsent' = [unsent EXCEPT ![c] = Tail(@)]
  /\ UNCHANGED <<proc, is_galkey_set, galoisKeys_, handler, message_,
                 backlog, c2s, peer, up>>

\* A write that succeeded is followed by the next read.  After one that failed
\* `delete this` destroys an object that the handler's shared_ptr destroys
\* again when it returns: the process aborts, or goes on without it.
write_done(c, next) ==
  /\ \/ /\ unsent[c] = <<>>
        /\ handler' = [handler EXCEPT ![c] = next]
        /\ UNCHANGED <<proc, unsent, up>>
     \/ /\ unsent[c] # <<>>
        /\ Gone(c)
        /\ handler' = [handler EXCEPT ![c] = "deleted"]
        /\ unsent' = [unsent EXCEPT ![c] = <<>>]
        /\ \/ UNCHANGED <<proc, up>>
           \/ End("crashed")
  /\ UNCHANGED <<is_galkey_set, galoisKeys_, message_, backlog, c2s, s2c, peer>>

\* Mutant: the next read is bound to the echo handler.
handle_write_plain_echo(c) ==
  /\ proc = "running"
  /\ handler[c] = "handle_write_plain"
  /\ write_done(c, "handle_read_echo")

handle_write_plain(c) ==
  /\ proc = "running"
  /\ handler[c] = "handle_write_plain"
  /\ write_done(c, "handle_read_plain")

handle_write_pir(c) ==
  /\ proc = "running"
  /\ handler[c] = "handle_write_pir"
  /\ write_done(c, "handle_read_pir")

\* What io_context.run() may do for the connection of c.
ServerStep(c) ==
  \/ handle_accept(c)
  \/ read_some(c)
  \/ handle_read_plain(c)
  \/ handle_read_galkeys(c)
  \/ handle_read_pir(c)
  \/ write_some(c)
  \/ handle_write_plain(c)
  \/ handle_write_pir(c)

ServerTypeOK ==
  /\ proc \in {"starting", "running", "exited", "threw", "crashed"}
  /\ is_galkey_set \in BOOLEAN
  /\ galoisKeys_ \in Clients \cup {None}
  /\ handler \in [Clients -> ReadHandlers \cup WriteHandlers
                               \cup {"none", "deleted"}]
  /\ message_ \in [Clients -> Seq(Token)]
  /\ unsent \in [Clients -> Seq(Token)]
=============================================================================
