---------------------------- MODULE ServiceProofs ----------------------------
(***************************************************************************)
(* What follows from IInv for the system as a service: no client and       *)
(* server wait for each other, replies are computed with the right keys,   *)
(* and the processes implement QueryService.                               *)
(***************************************************************************)
EXTENDS TorPirProofs

\* What SleepInv says of one client.
Slept(c) ==
  /\ pc[c] = "ready" => c2s[c] = <<>>
  /\ pc[c] = "waiting" =>
       \/ KeysUnread(c) /\ message_[c] = Keys(c)
       \/ QueryUnderWay(c)
       \/ ReplyUnderWay(c)

\* SleepInv, client by client.
LEMMA SleptIs == SleepInv <=> \A c \in Clients : up => Slept(c)
BY DEF SleepInv, Slept

\* The server does not come back.
LEMMA UpStep ==
  ASSUME [Next]_vars, up'
  PROVE  up
<1>1. CASE gen_database
  BY <1>1 DEF gen_database, wireVars
<1>2. ASSUME NEW c \in Clients, ServerStep(c)
      PROVE  up
  BY <1>2 DEF ServerStep, handle_accept, read_some, handle_read_plain,
     handle_read_galkeys, handle_read_pir, write_some, handle_write_plain,
     handle_write_pir, exit_on_error, respond, write_done, End
<1>3. ASSUME NEW c \in Clients, ClientStep(c) \/ killed(c)
      PROVE  up
  BY <1>3 DEF ClientStep, connect, send_galois_keys, wake_up, query, wireVars,
     read_response, receive, return_0, throw_broken, killed
<1>4. CASE UNCHANGED vars
  BY <1>4 DEF vars, wireVars
<1> QED
  BY <1>1, <1>2, <1>3, <1>4 DEF Next, Terminating

\* A step that leaves alone what is under way for d keeps what the sleep adds.
LEMMA SleptUndisturbed ==
  ASSUME NEW d \in Clients, Slept(d),
         pc'[d] = pc[d], asked'[d] = asked[d],
         message_'[d] = message_[d], c2s'[d] = c2s[d],
         Outbound(d)' = Outbound(d), Keyed(d) => Keyed(d)'
  PROVE  Slept(d)'
<1>1. Inbound(d)' = Inbound(d)
  BY DEF Inbound
<1>2. Query(d)' = Query(d) /\ Reply(d)' = Reply(d) /\ Keys(d)' = Keys(d)
  BY DEF Query, Reply, Keys, KeysFor, Message, Payload, delimiter
<1>3. /\ KeysUnread(d) => KeysUnread(d)'
      /\ QueryUnderWay(d) => QueryUnderWay(d)'
      /\ ReplyUnderWay(d) => ReplyUnderWay(d)'
  BY <1>1, <1>2 DEF KeysUnread, QueryUnderWay, ReplyUnderWay
<1> QED
  BY <1>2, <1>3 DEF Slept

\* Once the buffer holds the keys, or the query, the delimiter is found.
LEMMA MessageDelimited ==
  ASSUME DelimiterFree, NEW kind \in PayloadKinds,
         NEW who \in Clients \cup {None}, NEW elem \in Elements \cup {None}
  PROVE  /\ HasDelimiter(Message(kind, who, elem))
         /\ Message(kind, who, elem) # <<>>
         /\ Message(kind, who, elem)[1].kind = kind
<1> DEFINE m == Message(kind, who, elem)
<1>1. /\ m \in Seq(Token) /\ Len(m) \in Nat /\ Len(m) >= 2
      /\ \A i \in 1 .. Len(m) - 1 : m[i].kind = kind
      /\ m[Len(m)] = delimiter
  BY MessageTokens
<1> HIDE DEF m
<1>2. Len(m) \in 1 .. Len(m) /\ 1 \in 1 .. Len(m) - 1
  BY <1>1
<1>3. HasDelimiter(m)
  BY <1>1, <1>2 DEF HasDelimiter, delimiter
<1>4. m # <<>>
  BY <1>1, EmptySeq
<1> QED
  BY <1>1, <1>2, <1>3, <1>4 DEF m

\* The same for the messages of a client.
LEMMA KeysDelimited ==
  ASSUME DelimiterFree, TypeOK, NEW c \in Clients
  PROVE  /\ HasDelimiter(Keys(c)) /\ Keys(c) # <<>>
         /\ Keys(c)[1].kind = "key"
         /\ HasDelimiter(Query(c)) /\ Query(c) # <<>>
         /\ Query(c)[1].kind = "query"
         /\ HasDelimiter(Reply(c)) /\ Reply(c) # <<>>
<1>1. /\ c \in Clients \cup {None} /\ None \in Elements \cup {None}
      /\ asked[c] \in Elements \cup {None} /\ KeysFor(c) \in Clients \cup {None}
      /\ PayloadKinds = {"key", "query", "reply"}
  BY DEF TypeOK, ClientTypeOK, KeysFor, PayloadKinds
<1> QED
  BY <1>1, MessageDelimited DEF Keys, Query, Reply

\* Neither the keys nor the query of a client are nothing.
LEMMA KeysInFront ==
  ASSUME DelimiterFree, TypeOK, NEW c \in Clients, KeysUnread(c)
  PROVE  Inbound(c) # <<>> /\ Inbound(c)[1].kind = "key"
<1>1. Keys(c) \in Seq(Token) /\ Query(c) \in Seq(Token)
  BY MessageType DEF Keys, Query, PayloadKinds, TypeOK, ClientTypeOK
<1>2. Len(Keys(c)) \in Nat /\ Len(Keys(c)) > 0
  BY <1>1, KeysDelimited, LenProperties, EmptySeq
<1>3. Joined(Inbound(c), Keys(c), Query(c))
  BY DEF KeysUnread, Joined
<1>4. Inbound(c)[1] = Keys(c)[1]
  <2>1. 1 \in 1 .. Len(Keys(c))
    BY <1>2
  <2> QED
    BY <1>1, <1>3, <2>1, FirstHalf
<1>5. Inbound(c) # <<>>
  <2>1. Joined(<<>>, Keys(c), Query(c)) => Keys(c) = <<>>
    BY <1>1, NothingThere
  <2> QED
    BY <1>3, <2>1, KeysDelimited
<1> QED
  BY <1>4, <1>5, KeysDelimited

\* The same after a step.
LEMMA KeysDelimitedNext ==
  ASSUME DelimiterFree, TypeOK', NEW c \in Clients
  PROVE  (Keys(c) # <<>> /\ Query(c)[1].kind = "query")'
BY KeysDelimited, PTL

\* What a client's bytes start with, after a step.
LEMMA KeysInFrontNext ==
  ASSUME DelimiterFree, TypeOK', NEW c \in Clients, KeysUnread(c)'
  PROVE  (Inbound(c)[1].kind = "key")'
BY KeysInFront, PTL

-----------------------------------------------------------------------------
\* The server's part: it answers, reads keys, or moves bytes.
LEMMA ServerStepSlept ==
  ASSUME DelimiterFree, WholeWrites, IInv, SleepInv, up', up,
         NEW c \in Clients, ServerStep(c), UNCHANGED clientVars
  PROVE  \A d \in Clients : Slept(d)'
<1> USE DEF clientVars
<1>1. /\ TypeOK /\ KeyInv
      /\ \A d \in Clients : ClientInv(d)
      /\ \A d \in Clients : Slept(d)
  BY SleptIs DEF IInv, ClientInv
<1>2. ASSUME NEW d \in Clients,
             message_'[d] = message_[d], c2s'[d] = c2s[d], s2c'[d] = s2c[d],
             galoisKeys_' = galoisKeys_ \/ ~ Keyed(d)
      PROVE  Slept(d)'
  BY <1>1, <1>2, SleptUndisturbed DEF Keyed, KeysFor, Outbound
<1>3. ASSUME NEW d \in Clients, Gone(d) \/ pc[d] = "refused"
      PROVE  Slept(d)'
  BY <1>1, <1>3 DEF ClientInv, SocketInv, Gone, Slept
<1>4. CASE handle_accept(c)
  BY <1>2, <1>4 DEF handle_accept
<1>5. CASE read_some(c)
  <2>1. \A d \in Clients \ {c} :
          message_'[d] = message_[d] /\ c2s'[d] = c2s[d] /\ s2c'[d] = s2c[d]
    BY <1>1, <1>5 DEF read_some, TypeOK, WireTypeOK, ServerTypeOK
  <2>2. pc[c] # "ready"
    BY <1>1, <1>5 DEF read_some, Slept
  <2>3. ~ (KeysUnread(c) /\ message_[c] = Keys(c))
    BY <1>1, <1>5, KeysDelimited DEF read_some
  <2>4. Inbound(c)' = Inbound(c) /\ Outbound(c)' = Outbound(c)
    BY <1>1, <1>5, ReadSome DEF read_some, Outbound
  <2>5. /\ Query(c)' = Query(c) /\ Reply(c)' = Reply(c)
        /\ Keyed(c)' = Keyed(c)
    BY <1>5 DEF read_some, Query, Reply, KeysFor, Keyed, Message, Payload,
                delimiter
  <2>6. Slept(c)'
    BY <1>1, <2>2, <2>3, <2>4, <2>5 DEF Slept, QueryUnderWay, ReplyUnderWay
  <2>7. galoisKeys_' = galoisKeys_
    BY <1>5 DEF read_some
  <2> QED
    BY <1>2, <2>1, <2>6, <2>7
<1>6. ASSUME NEW q, q \in {message_[c], EraseDelimiter(message_[c])},
             NEW completion,
             HasDelimiter(message_[c]), respond(c, q, completion),
             UNCHANGED <<is_galkey_set, galoisKeys_, backlog, c2s, peer>>
      PROVE  \A d \in Clients : Slept(d)'
  <2>1. \A d \in Clients \ {c} :
          message_'[d] = message_[d] /\ s2c'[d] = s2c[d]
    BY <1>1, <1>6 DEF respond, cleared, async_write, End, TypeOK, WireTypeOK,
       ServerTypeOK
  <2>2. ~ Gone(c) /\ pc[c] # "refused" => ReplyUnderWay(c)'
    BY <1>1, <1>6, Responded
  <2>3. Slept(c)'
    BY <1>1, <1>3, <1>6, <2>2 DEF Slept
  <2> QED
    BY <1>2, <1>6, <2>1, <2>3
<1>7. CASE handle_read_plain(c) \/ handle_read_pir(c)
  <2>1. ~ exit_on_error(c)
    BY DEF exit_on_error, End
  <2> QED
    BY <1>6, <1>7, <2>1 DEF handle_read_plain, handle_read_pir
<1>8. CASE handle_read_galkeys(c)
  <2>1. /\ galoisKeys_' = c /\ Setup = "PIR" /\ galoisKeys_ = None
        /\ message_' = [message_ EXCEPT ![c] = <<>>]
        /\ UNCHANGED <<c2s, s2c>>
    BY <1>1, <1>8 DEF handle_read_galkeys, cleared, End, KeyInv
  <2>2. \A d \in Clients : ~ Keyed(d)
    BY <2>1, WireAssumption DEF Keyed, KeysFor
  <2>3. \A d \in Clients \ {c} : Slept(d)'
    <3>1. \A d \in Clients \ {c} : message_'[d] = message_[d]
      BY <1>1, <2>1 DEF TypeOK, ServerTypeOK
    <3> QED
      BY <1>2, <2>1, <2>2, <3>1
  <2>4. pc[c] = "ready" => c2s'[c] = <<>>
    BY <1>1, <2>1 DEF Slept
  <2>5. ASSUME pc[c] = "waiting" PROVE QueryUnderWay(c)'
    <3>1. KeysUnread(c) /\ message_[c] = Keys(c)
      BY <1>1, <2>2, <2>5 DEF Slept, QueryUnderWay, ReplyUnderWay
    <3>2. /\ Keys(c) \in Seq(Token) /\ Query(c) \in Seq(Token)
          /\ c2s[c] \in Seq(Token)
      BY <1>1, MessageType DEF Keys, Query, PayloadKinds, TypeOK, WireTypeOK,
         ClientTypeOK
    <3>3. c2s[c] = Query(c)
      <4>1. /\ Joined(Inbound(c), Keys(c), c2s[c])
            /\ Joined(Inbound(c), Keys(c), Query(c))
        BY <3>1 DEF Joined, Inbound, KeysUnread
      <4> QED
        BY <3>2, <4>1, CutBetween
    <3>4. Inbound(c)' = Query(c)
      <4>1. message_'[c] = <<>> /\ c2s'[c] = Query(c)
        BY <1>1, <2>1, <3>3 DEF TypeOK, ServerTypeOK
      <4>2. <<>> \o Query(c) = Query(c)
        BY <3>2, ConcatEmptySeq
      <4> QED
        BY <4>1, <4>2 DEF Inbound
    <3>5. Query(c)' = Query(c) /\ Outbound(c)' = Outbound(c)
      BY <2>1 DEF Query, Message, Payload, delimiter, Outbound
    <3>6. Keyed(c)'
      BY <2>1 DEF Keyed, KeysFor
    <3> QED
      BY <3>1, <3>4, <3>5, <3>6 DEF QueryUnderWay, KeysUnread
  <2> QED
    BY <2>3, <2>4, <2>5 DEF Slept
<1>9. CASE write_some(c)
  BY <1>1, <1>9 DEF write_some, ClientInv, SocketInv
<1>10. CASE handle_write_plain(c) \/ handle_write_pir(c)
  BY <1>2, <1>10 DEF handle_write_plain, handle_write_pir, write_done
<1> QED
  BY <1>4, <1>5, <1>7, <1>8, <1>9, <1>10 DEF ServerStep

\* The client's part: it only asks once the keys are read.
LEMMA ClientStepSlept ==
  ASSUME DelimiterFree, IInv, SleepInv, up, Setup = "PIR" => SleepCovers,
         TypeOK',
         NEW c \in Clients, ClientStep(c) \/ killed(c), UNCHANGED serverVars
  PROVE  \A d \in Clients : Slept(d)'
<1> USE DEF serverVars
<1>1. /\ TypeOK /\ KeyInv
      /\ \A d \in Clients : ClientInv(d)
      /\ \A d \in Clients : Slept(d)
  BY SleptIs DEF IInv, ClientInv
<1>2. ASSUME NEW d \in Clients, d # c PROVE Slept(d)'
  <2>1. /\ pc'[d] = pc[d] /\ asked'[d] = asked[d]
        /\ c2s'[d] = c2s[d] /\ s2c'[d] = s2c[d] /\ response'[d] = response[d]
    BY <1>1, <1>2, OtherUntouched
  <2>2. Outbound(d)' = Outbound(d) /\ Keyed(d)' = Keyed(d)
    BY <2>1 DEF Outbound, Keyed, KeysFor
  <2> QED
    BY <1>1, <2>1, <2>2, SleptUndisturbed
<1>3. Slept(c)'
  <2>1. CASE connect(c)
    <3>1. Joined(<<>>, message_[c], c2s[c])
      BY <1>1, <2>1 DEF connect, ClientInv, StreamInv, Inbound, Joined
    <3>2. c2s[c] = <<>>
      BY <1>1, <3>1, NothingThere DEF TypeOK, WireTypeOK, ServerTypeOK
    <3> QED
      BY <1>1, <2>1, <3>2 DEF connect, goto, Slept, TypeOK, ClientTypeOK
  <2>2. CASE send_galois_keys(c)
    BY <1>1, <2>2 DEF send_galois_keys, goto, Slept, TypeOK, ClientTypeOK
  <2>3. CASE wake_up(c)
    BY <1>1, <2>3 DEF wake_up, goto, wireVars, Slept, ClientInv, SocketInv,
       TypeOK, ClientTypeOK
  <2>4. CASE query(c)
    <3>1. /\ pc[c] = "ready" /\ pc'[c] = "waiting"
          /\ c2s[c] = <<>> /\ message_'[c] = message_[c]
      BY <1>1, <2>4 DEF query, goto, Slept, TypeOK, ClientTypeOK
    <3>2. \/ QueryUnderWay(c)'
          \/ KeysUnread(c)' /\ Inbound(c) = Keys(c)
      BY <1>1, <2>4, QuerySent
    <3>3. Inbound(c) = message_[c]
      BY <1>1, <3>1, ConcatEmptySeq DEF Inbound, TypeOK, ServerTypeOK
    <3>4. Keys(c)' = Keys(c)
      BY DEF Keys, Message, Payload, delimiter
    <3> QED
      BY <3>1, <3>2, <3>3, <3>4 DEF Slept
  <2>5. CASE read_response(c)
    <3>1. Outbound(c)' = Outbound(c)
      BY <1>1, <2>5, ReadResponse
    <3>2. UNCHANGED <<pc, asked, c2s>> /\ Keyed(c)' = Keyed(c)
      BY <2>5 DEF read_response, Keyed, KeysFor
    <3> QED
      BY <1>1, <3>1, <3>2, SleptUndisturbed
  <2>6. CASE receive(c)
    <3>1. ReplyUnderWay(c) /\ goto(c, "ready")
      BY <1>1, <2>6, Received
    <3>2. Joined(<<>>, message_[c], c2s[c])
      BY <3>1 DEF ReplyUnderWay, Inbound, Joined
    <3>3. c2s[c] = <<>> /\ UNCHANGED c2s
      BY <1>1, <2>6, <3>2, NothingThere DEF receive, TypeOK, WireTypeOK,
         ServerTypeOK
    <3> QED
      BY <1>1, <3>1, <3>3 DEF goto, Slept, TypeOK, ClientTypeOK
  <2>7. CASE return_0(c) \/ throw_broken(c) \/ killed(c)
    BY <1>1, <2>7 DEF return_0, throw_broken, Throw, killed, goto, Slept,
       TypeOK, ClientTypeOK
  <2> QED
    BY <2>1, <2>2, <2>3, <2>4, <2>5, <2>6, <2>7 DEF ClientStep
<1> QED
  BY <1>2, <1>3

\* Every step keeps the two apart, given that the sleep covers the reading of
\* the keys.
LEMMA SleepStep ==
  ASSUME DelimiterFree, WholeWrites, Setup = "PIR" => SleepCovers,
         IInv, SleepInv, [Next]_vars
  PROVE  SleepInv'
<1> SUFFICES ASSUME up', NEW d \in Clients PROVE Slept(d)'
  BY DEF SleepInv, Slept
<1>1. up
  BY UpStep
<1>2. TypeOK /\ TypeOK' /\ \A e \in Clients : Slept(e)
  BY <1>1, SleptIs, TypeStep DEF IInv
<1>3. ASSUME UNCHANGED vars \/ (gen_database /\ UNCHANGED clientVars)
      PROVE  Slept(d)'
  <2>1. UNCHANGED <<pc, asked, message_, c2s, s2c, response, galoisKeys_>>
    BY <1>3 DEF vars, wireVars, serverVars, clientVars, gen_database
  <2>2. Outbound(d)' = Outbound(d) /\ Keyed(d)' = Keyed(d)
    BY <2>1 DEF Outbound, Keyed, KeysFor
  <2> QED
    BY <1>2, <2>1, <2>2, SleptUndisturbed
<1>4. ASSUME NEW c \in Clients, ServerStep(c), UNCHANGED clientVars
      PROVE  Slept(d)'
  BY <1>1, <1>4, ServerStepSlept
<1>5. ASSUME NEW c \in Clients, ClientStep(c) \/ killed(c), UNCHANGED serverVars
      PROVE  Slept(d)'
  BY <1>1, <1>2, <1>5, ClientStepSlept
<1>6. CASE Next
  BY <1>3, <1>4, <1>5, <1>6 DEF Next, Terminating
<1> QED
  BY <1>3, <1>6

\* At first nobody has been connected.
LEMMA SleepInit == Init => SleepInv
BY DEF Init, ClientInit, SleepInv

\* A client that sleeps until the server has read its keys never has a query
\* read, and cleared away, together with them.
THEOREM QueriesAreWhole ==
  ASSUME DelimiterFree, WholeWrites, Setup = "PIR" => SleepCovers
  PROVE  Spec => []SleepInv
<1>1. IInv /\ SleepInv /\ [Next]_vars => IInv' /\ SleepInv'
  BY SleepStep, IInvStep
<1> QED
  BY <1>1, IInvInit, SleepInit, PTL DEF Spec

\* ... and so, while the server is there, a client that waits for a response
\* has a server that has bytes of its query or of the reply in hand: the two
\* never wait for each other.
THEOREM NobodyWaitsForAWaiter ==
  ASSUME DelimiterFree, WholeWrites, Setup = "PIR" => SleepCovers
  PROVE  Spec => []NoStandoff
<1>1. ASSUME IInv, SleepInv PROVE NoStandoff
  <2> SUFFICES ASSUME NEW c \in Clients, up, pc[c] = "waiting",
                      c2s[c] = <<>>, s2c[c] = <<>>
               PROVE  HasDelimiter(message_[c]) \/ HasDelimiter(response[c])
    BY DEF NoStandoff
  <2>1. TypeOK /\ Slept(c)
    BY <1>1, SleptIs DEF IInv
  <2>2. Inbound(c) = message_[c] /\ Outbound(c) = response[c]
    BY <2>1, ConcatEmptySeq DEF Inbound, Outbound, TypeOK, ServerTypeOK,
       ClientTypeOK
  <2>3. \/ message_[c] = Keys(c)
        \/ message_[c] = Query(c)
        \/ response[c] = Reply(c)
    BY <2>1, <2>2 DEF Slept, QueryUnderWay, ReplyUnderWay
  <2> QED
    BY <2>1, <2>3, KeysDelimited
<1> QED
  BY <1>1, InvHolds, QueriesAreWhole, PTL

-----------------------------------------------------------------------------
\* A step of a client, seen from the client itself: where it may go.
LEMMA PcStep ==
  ASSUME TypeOK, NEW c \in Clients, ClientStep(c) \/ killed(c)
  PROVE  /\ pc'[c] = "refused" => pc[c] \in {"start", "refused"}
         /\ peer'[c] = "unconnected" => peer[c] = "unconnected"
         /\ pc'[c] = "refused" => ~ up /\ UNCHANGED <<up, peer>>
<1> USE DEF TypeOK, WireTypeOK, ClientTypeOK, goto
<1>1. CASE connect(c)
  BY <1>1 DEF connect
<1>2. CASE send_galois_keys(c) \/ wake_up(c) \/ query(c) \/ read_response(c)
  BY <1>2 DEF send_galois_keys, wake_up, wireVars, query, read_response
<1>3. CASE receive(c)
  BY <1>3 DEF receive, Throw, hang_up
<1>4. CASE return_0(c) \/ throw_broken(c) \/ killed(c)
  BY <1>4 DEF return_0, throw_broken, Throw, hang_up, killed
<1> QED
  BY <1>1, <1>2, <1>3, <1>4 DEF ClientStep

\* A process that ends takes its sockets with it; a client is only refused by
\* a server that is gone.
LEMMA LifeStep ==
  ASSUME IInv, LifeInv, [Next]_vars
  PROVE  LifeInv'
<1> DEFINE Refused == \A d \in Clients :
                        pc[d] = "refused" => ~ up /\ peer[d] = "unconnected"
<1>0. LifeInv <=> (proc \in {"starting", "running"} => up) /\ Refused
  BY DEF LifeInv
<1>z. LifeInv' <=> (proc' \in {"starting", "running"} => up') /\ Refused'
  BY DEF LifeInv
<1>1. up' => up
  BY UpStep
<1>2. ASSUME UNCHANGED vars \/ (gen_database /\ UNCHANGED clientVars)
      PROVE  LifeInv'
  BY <1>2 DEF LifeInv, vars, wireVars, clientVars, serverVars, gen_database
<1>3. ASSUME NEW c \in Clients, ServerStep(c), UNCHANGED clientVars
      PROVE  LifeInv'
  <2>1. UNCHANGED <<pc, peer>>
    BY <1>3 DEF clientVars, ServerStep, handle_accept, read_some,
       handle_read_plain, handle_read_galkeys, handle_read_pir, write_some,
       handle_write_plain, handle_write_pir, write_done
  <2>2. \/ UNCHANGED <<proc, up>>
        \/ End("threw") \/ End("exited") \/ End("crashed")
    BY <1>3 DEF ServerStep, handle_accept, read_some, handle_read_plain,
       handle_read_galkeys, handle_read_pir, write_some, handle_write_plain,
       handle_write_pir, write_done, exit_on_error, respond
  <2>3. proc' \in {"starting", "running"} => up'
    BY <2>2 DEF End, LifeInv
  <2>4. Refused'
    BY <1>0, <1>1, <2>1
  <2> QED
    BY <1>z, <2>3, <2>4
<1>4. ASSUME NEW c \in Clients, ClientStep(c) \/ killed(c), UNCHANGED serverVars
      PROVE  LifeInv'
  <2>1. ASSUME NEW d \in Clients, pc'[d] = "refused"
        PROVE  ~ up' /\ peer'[d] = "unconnected"
    <3>1. CASE d # c
      BY <1>1, <1>4, <2>1, <3>1, OtherUntouched DEF IInv, LifeInv
    <3>2. CASE d = c
      <4>1. ~ up' /\ peer' = peer /\ pc[d] \in {"start", "refused"}
        BY <1>4, <2>1, <3>2, PcStep DEF IInv
      <4> QED
        BY <4>1 DEF IInv, SocketInv, LifeInv
    <3> QED
      BY <3>1, <3>2
  <2>2. up' = up /\ proc' = proc
    BY <1>4 DEF serverVars, ClientStep, connect, send_galois_keys, wake_up,
       wireVars, query, read_response, receive, return_0, throw_broken, killed
  <2> QED
    BY <2>1, <2>2 DEF LifeInv
<1>5. CASE Next
  BY <1>2, <1>3, <1>4, <1>5 DEF Next, Terminating
<1> QED
  BY <1>2, <1>5

-----------------------------------------------------------------------------
\* A reply to c is only computed while the server holds the keys of c.
LEMMA RepliesAreKeyed ==
  ASSUME DelimiterFree, TypeOK, OwnKeysInv, Setup = "PIR",
         NEW c \in Clients,
         NEW q, q \in {message_[c], EraseDelimiter(message_[c])},
         NEW e \in Elements, IsPrefix(Payload("query", c, e), q)
  PROVE  galoisKeys_ = c
<1>1. "query" \in PayloadKinds /\ e \in Elements \cup {None}
  BY DEF PayloadKinds
<1>2. message_[c] \in Seq(Token) /\ c2s[c] \in Seq(Token)
  BY DEF TypeOK, WireTypeOK, ServerTypeOK
<1>3. /\ q \in Seq(Token) /\ Len(q) \in Nat /\ Len(q) <= Len(message_[c])
      /\ \A i \in 1 .. Len(q) : q[i] = message_[c][i]
  BY <1>2, FrontTokens
<1>4. 1 \in 1 .. Len(q) /\ q[1].kind = "query"
  <2>1. /\ Len(Shape["query"]) \in Nat
        /\ 1 <= Len(Shape["query"])
        /\ Len(Shape["query"]) <= Len(q)
        /\ \A i \in 1 .. Len(Shape["query"]) : q[i].kind = "query"
    BY <1>1, <1>3, ParsedTokens
  <2> QED
    BY <1>3, <2>1
<1>5. 1 \in 1 .. Len(message_[c]) /\ message_[c][1].kind = "query"
  <2>1. Len(message_[c]) \in Nat
    BY <1>2, LenProperties
  <2> QED
    BY <1>3, <1>4, <2>1
<1>6. Joined(Inbound(c), message_[c], c2s[c])
  BY DEF Joined, Inbound
<1>7. Inbound(c)[1].kind = "query"
  BY <1>2, <1>5, <1>6, FirstHalf
<1>8. Inbound(c) # <<>>
  BY <1>2, <1>5, <1>6, NothingThere
<1> QED
  BY <1>7, <1>8 DEF OwnKeysInv

\* What one client's bytes start with, over all steps.
LEMMA OwnKeysStep ==
  ASSUME DelimiterFree, IInv, IInv', OwnKeysInv, [Next]_vars
  PROVE  OwnKeysInv'
<1>1. /\ TypeOK /\ KeyInv /\ TypeOK' /\ \A d \in Clients : ClientInv(d)
  BY DEF IInv, ClientInv
<1> SUFFICES ASSUME Setup = "PIR", NEW d \in Clients, galoisKeys_' # d
             PROVE  Inbound(d)' = <<>> \/ Inbound(d)'[1].kind = "key"
  BY DEF OwnKeysInv
<1>2. ASSUME Inbound(d)' = Inbound(d), galoisKeys_ # d
      PROVE  Inbound(d)' = <<>> \/ Inbound(d)'[1].kind = "key"
  BY <1>2 DEF OwnKeysInv
<1>3. ASSUME UNCHANGED vars \/ (gen_database /\ UNCHANGED clientVars)
      PROVE  Inbound(d)' = <<>> \/ Inbound(d)'[1].kind = "key"
  <2>1. UNCHANGED <<message_, c2s, galoisKeys_>>
    BY <1>3 DEF vars, wireVars, serverVars, gen_database
  <2> QED
    BY <1>2, <2>1 DEF Inbound
<1>4. ASSUME NEW c \in Clients, ServerStep(c), UNCHANGED clientVars
      PROVE  Inbound(d)' = <<>> \/ Inbound(d)'[1].kind = "key"
  <2>1. CASE handle_accept(c) \/ write_some(c)
    BY <1>2, <2>1 DEF handle_accept, write_some, Inbound
  <2>2. CASE handle_write_plain(c) \/ handle_write_pir(c)
    BY <1>2, <2>2 DEF handle_write_plain, handle_write_pir, write_done, Inbound
  <2>3. CASE read_some(c)
    <3>1. Inbound(d)' = Inbound(d) /\ galoisKeys_' = galoisKeys_
      BY <1>1, <2>3, ReadSome DEF read_some
    <3> QED
      BY <1>2, <3>1
  <2>4. CASE handle_read_plain(c) \/ handle_read_pir(c)
    <3>1. PICK q \in {message_[c], EraseDelimiter(message_[c])},
               completion \in WriteHandlers :
            exit_on_error(c) \/ respond(c, q, completion)
      BY <2>4 DEF handle_read_plain, handle_read_pir, WriteHandlers
    <3>2. UNCHANGED <<galoisKeys_, c2s>>
      BY <2>4 DEF handle_read_plain, handle_read_pir
    <3>3. CASE UNCHANGED message_
      BY <1>2, <3>2, <3>3 DEF Inbound
    <3>4. CASE /\ \E e \in Elements : IsPrefix(Payload("query", c, e), q)
               /\ message_' = [message_ EXCEPT ![c] = <<>>]
      <4>1. galoisKeys_ = c
        BY <1>1, <3>4, RepliesAreKeyed
      <4>2. message_'[d] = message_[d]
        BY <1>1, <3>2, <3>4, <4>1 DEF TypeOK, ServerTypeOK
      <4> QED
        BY <1>2, <3>2, <4>2 DEF Inbound
    <3> QED
      BY <3>1, <3>3, <3>4 DEF exit_on_error, respond, cleared
  <2>5. CASE handle_read_galkeys(c)
    <3>1. c2s' = c2s
      BY <2>5 DEF handle_read_galkeys
    <3>2. CASE UNCHANGED <<galoisKeys_, message_>>
      BY <1>2, <3>1, <3>2 DEF Inbound
    <3>3. CASE galoisKeys_' = c /\ message_' = [message_ EXCEPT ![c] = <<>>]
      <4>1. galoisKeys_ = None
        BY <1>1, <2>5 DEF handle_read_galkeys, KeyInv
      <4>2. message_'[d] = message_[d]
        BY <1>1, <3>3 DEF TypeOK, ServerTypeOK
      <4> QED
        BY <1>2, <3>1, <4>1, <4>2, WireAssumption DEF Inbound
    <3> QED
      BY <2>5, <3>2, <3>3 DEF handle_read_galkeys, cleared
  <2> QED
    BY <1>4, <2>1, <2>2, <2>3, <2>4, <2>5 DEF ServerStep
<1>5. ASSUME NEW c \in Clients, ClientStep(c) \/ killed(c), UNCHANGED serverVars
      PROVE  Inbound(d)' = <<>> \/ Inbound(d)'[1].kind = "key"
  <2>0. galoisKeys_ # d /\ message_' = message_
    BY <1>5 DEF serverVars
  <2>1. CASE c2s'[d] = c2s[d]
    BY <1>2, <2>0, <2>1 DEF Inbound
  <2>2. CASE d = c /\ send_galois_keys(c)
    <3>1. Inbound(c)' = Keys(c)
      <4>1. pc'[c] = "sleeping"
        BY <1>1, <2>2 DEF send_galois_keys, goto, TypeOK, ClientTypeOK
      <4>2. Inbound(c)' = <<>> \/ Inbound(c)' = Keys(c)'
        BY <4>1 DEF IInv, StreamInv
      <4>3. c2s'[c] # <<>>
        <5>1. c2s'[c] = c2s[c] \o Keys(c)
          BY <1>1, <2>2 DEF send_galois_keys, Keys, TypeOK, WireTypeOK
        <5>2. Keys(c) \in Seq(Token) /\ c2s[c] \in Seq(Token)
          BY <1>1, MessageType DEF Keys, PayloadKinds, TypeOK, WireTypeOK
        <5>3. Joined(c2s'[c], c2s[c], Keys(c))
          BY <5>1 DEF Joined
        <5> QED
          BY <1>1, <5>2, <5>3, NothingThere, KeysDelimited
      <4>4. Inbound(c)' # <<>>
        <5>1. Joined(Inbound(c)', message_'[c], c2s'[c])
          BY DEF Joined, Inbound
        <5>2. message_'[c] \in Seq(Token) /\ c2s'[c] \in Seq(Token)
          BY <1>1 DEF TypeOK, WireTypeOK, ServerTypeOK
        <5> QED
          BY <4>3, <5>1, <5>2, NothingThere
      <4>5. Keys(c)' = Keys(c)
        BY DEF Keys, Message, Payload, delimiter
      <4> QED
        BY <4>2, <4>4, <4>5
    <3> QED
      BY <1>1, <2>2, <3>1, KeysDelimited
  <2>3. CASE d = c /\ query(c)
    <3>1. QueryUnderWay(c)' \/ KeysUnread(c)'
      BY <1>1, <1>5, <2>3, QuerySent
    <3>2. ~ QueryUnderWay(c)'
      BY <2>3 DEF QueryUnderWay, Keyed, KeysFor
    <3>3. (Inbound(c)[1].kind = "key")'
      BY <1>1, <3>1, <3>2, KeysInFrontNext
    <3> QED
      BY <2>3, <3>3
  <2>4. c2s'[d] = c2s[d] \/ (d = c /\ (send_galois_keys(c) \/ query(c)))
    <3>1. CASE d # c
      BY <1>1, <1>5, <3>1, OtherUntouched
    <3>2. CASE d = c
      BY <1>5, <3>2 DEF ClientStep, connect, wake_up, wireVars, read_response,
         receive, return_0, throw_broken, killed
    <3> QED
      BY <3>1, <3>2
  <2> QED
    BY <2>1, <2>2, <2>3, <2>4
<1>6. CASE Next
  BY <1>3, <1>4, <1>5, <1>6 DEF Next, Terminating
<1> QED
  BY <1>3, <1>6

\* The replies in s were computed with the keys of c.
OwnReplies(c, s) ==
  \A i \in 1 .. Len(s) : s[i].kind = "reply" => s[i].who = c

\* Writing more of them, and reading some, leaves only such replies.
LEMMA OwnRepliesCut ==
  ASSUME NEW c \in Clients, NEW s \in Seq(Token), OwnReplies(c, s),
         NEW k \in 0 .. Len(s)
  PROVE  /\ OwnReplies(c, SubSeq(s, k + 1, Len(s)))
         /\ OwnReplies(c, SubSeq(s, 1, k))
<1>1. Len(s) \in Nat /\ k \in Int /\ \A i \in 1 .. Len(s) : s[i] \in Token
  BY LenProperties, ElementOfSeq
<1>2. OwnReplies(c, SubSeq(s, k + 1, Len(s)))
  <2>1. /\ Len(SubSeq(s, k + 1, Len(s))) = Len(s) - k
        /\ \A i \in 1 .. Len(s) - k : SubSeq(s, k + 1, Len(s))[i] = s[k + i]
    BY SuffixOf
  <2>2. ASSUME NEW i \in 1 .. Len(s) - k PROVE k + i \in 1 .. Len(s)
    BY <1>1
  <2> QED
    BY <2>1, <2>2 DEF OwnReplies
<1>3. OwnReplies(c, SubSeq(s, 1, k))
  <2>1. /\ SubSeq(s, 1, k) \in Seq(Token) /\ Len(SubSeq(s, 1, k)) = k
        /\ SubSeq(s, k + 1, Len(s)) \in Seq(Token)
        /\ Joined(s, SubSeq(s, 1, k), SubSeq(s, k + 1, Len(s)))
    BY SplitType DEF Joined
  <2>2. \A i \in 1 .. k : SubSeq(s, 1, k)[i] = s[i]
    BY <2>1, FirstHalf
  <2>3. 1 .. k \subseteq 1 .. Len(s)
    BY <1>1
  <2> QED
    BY <2>1, <2>2, <2>3 DEF OwnReplies
<1> QED
  BY <1>2, <1>3

\* Two sequences with only replies to c, one behind the other.
LEMMA OwnRepliesJoined ==
  ASSUME NEW c \in Clients, NEW a \in Seq(Token), NEW b \in Seq(Token),
         OwnReplies(c, a), OwnReplies(c, b), NEW w, Joined(w, a, b)
  PROVE  OwnReplies(c, w)
<1>1. /\ Len(a) \in Nat /\ Len(b) \in Nat
      /\ Len(w) = Len(a) + Len(b)
      /\ \A i \in 1 .. Len(a) : a[i] = w[i]
      /\ \A i \in 1 .. Len(b) : b[i] = w[Len(a) + i]
  BY HalvesOf
<1>2. ASSUME NEW i \in 1 .. Len(w), w[i].kind = "reply" PROVE w[i].who = c
  <2>1. CASE i \in 1 .. Len(a)
    BY <1>1, <1>2, <2>1 DEF OwnReplies
  <2>2. CASE i \notin 1 .. Len(a)
    <3>1. i - Len(a) \in 1 .. Len(b) /\ Len(a) + (i - Len(a)) = i
      BY <1>1, <2>2
    <3>2. b[i - Len(a)] = w[i]
      BY <1>1, <3>1
    <3> QED
      BY <1>2, <3>1, <3>2 DEF OwnReplies
  <2> QED
    BY <2>1, <2>2
<1> QED
  BY <1>2 DEF OwnReplies

\* The reply that is written for c is one to c.
LEMMA OwnRepliesMessage ==
  ASSUME DelimiterFree, NEW c \in Clients, NEW e \in Elements
  PROVE  OwnReplies(c, Message("reply", c, e))
<1> DEFINE m == Message("reply", c, e)
<1>1. /\ Len(m) \in Nat
      /\ \A i \in 1 .. Len(m) - 1 : m[i].who = c
      /\ m[Len(m)] = delimiter
  <2>1. "reply" \in PayloadKinds /\ c \in Clients \cup {None}
        /\ e \in Elements \cup {None}
    BY DEF PayloadKinds
  <2> QED
    BY <2>1, MessageTokens
<1> HIDE DEF m
<1>2. ASSUME NEW i \in 1 .. Len(m), m[i].kind = "reply" PROVE m[i].who = c
  <2>1. i \in 1 .. Len(m) - 1 \/ i = Len(m)
    BY <1>1
  <2> QED
    BY <1>1, <1>2, <2>1 DEF delimiter
<1> QED
  BY <1>2 DEF OwnReplies, m

\* One step of the replies to one client.
LEMMA OwnRepliesStep ==
  ASSUME DelimiterFree, WholeWrites, IInv, OwnKeysInv, Setup = "PIR",
         NEW d \in Clients, OwnReplies(d, s2c[d]), [Next]_vars
  PROVE  OwnReplies(d, s2c'[d])
<1>1. /\ TypeOK /\ \A c \in Clients : ClientInv(c)
      /\ \A c \in Clients : s2c[c] \in Seq(Token)
  BY DEF IInv, ClientInv, TypeOK, WireTypeOK
<1>2. ASSUME UNCHANGED vars \/ (gen_database /\ UNCHANGED clientVars)
      PROVE  OwnReplies(d, s2c'[d])
  BY <1>2 DEF vars, wireVars, gen_database
<1>3. ASSUME NEW c \in Clients, ServerStep(c), UNCHANGED clientVars
      PROVE  OwnReplies(d, s2c'[d])
  <2>1. CASE \/ handle_accept(c) \/ read_some(c) \/ handle_read_galkeys(c)
             \/ handle_write_plain(c) \/ handle_write_pir(c)
    BY <2>1 DEF handle_accept, read_some, handle_read_galkeys,
       handle_write_plain, handle_write_pir, write_done
  <2>2. CASE write_some(c)
    BY <1>1, <2>2 DEF write_some, ClientInv, SocketInv
  <2>3. CASE handle_read_plain(c) \/ handle_read_pir(c)
    <3>1. PICK q \in {message_[c], EraseDelimiter(message_[c])},
               completion \in WriteHandlers :
            exit_on_error(c) \/ respond(c, q, completion)
      BY <2>3 DEF handle_read_plain, handle_read_pir, WriteHandlers
    <3>2. CASE UNCHANGED s2c
      BY <3>2
    <3>3. ASSUME NEW e \in Elements, IsPrefix(Payload("query", c, e), q),
                 async_write(c, Message("reply", galoisKeys_, e), completion)
          PROVE  OwnReplies(d, s2c'[d])
      <4> DEFINE r == Message("reply", c, e)
      <4>1. galoisKeys_ = c
        BY <1>1, <3>3, RepliesAreKeyed
      <4>2. r \in Seq(Token) /\ Len(r) \in Nat
        <5>1. r \in Seq(Token)
          BY MessageType DEF PayloadKinds
        <5> QED
          BY <5>1, LenProperties
      <4>3. OwnReplies(c, r)
        BY OwnRepliesMessage
      <4> HIDE DEF r
      <4>4. PICK k \in 0 .. Len(r) :
              s2c' = [s2c EXCEPT ![c] = @ \o SubSeq(r, 1, k)]
        <5>1. async_write(c, r, completion)
          BY <3>3, <4>1 DEF r
        <5> DEFINE K == IF Gone(c) THEN {0, Len(r)}
                        ELSE IF WholeWrites THEN {Len(r)} ELSE 0 .. Len(r)
        <5>2. PICK k \in K : s2c' = [s2c EXCEPT ![c] = @ \o SubSeq(r, 1, k)]
          BY <5>1 DEF async_write
        <5>3. k \in 0 .. Len(r)
          BY <4>2, <5>2
        <5> QED
          BY <5>2, <5>3
      <4>5. CASE d # c
        BY <1>1, <4>4, <4>5 DEF TypeOK, WireTypeOK
      <4>6. CASE d = c
        <5>1. s2c'[c] = s2c[c] \o SubSeq(r, 1, k)
          BY <4>4 DEF IInv, TypeOK, WireTypeOK
        <5>2. Joined(s2c'[c], s2c[c], SubSeq(r, 1, k))
          BY <5>1 DEF Joined
        <5>3. SubSeq(r, 1, k) \in Seq(Token) /\ OwnReplies(c, SubSeq(r, 1, k))
          BY <4>2, <4>3, <4>4, SplitType, OwnRepliesCut
        <5> QED
          BY <1>1, <4>6, <5>2, <5>3, OwnRepliesJoined
      <4> QED
        BY <4>5, <4>6
    <3> QED
      BY <3>1, <3>2, <3>3 DEF exit_on_error, respond
  <2> QED
    BY <1>3, <2>1, <2>2, <2>3 DEF ServerStep
<1>4. ASSUME NEW c \in Clients, ClientStep(c) \/ killed(c), UNCHANGED serverVars
      PROVE  OwnReplies(d, s2c'[d])
  <2>1. CASE s2c'[d] = s2c[d]
    BY <2>1
  <2>2. CASE d = c /\ read_response(c)
    <3>1. PICK k \in 1 .. Len(s2c[c]) :
            s2c' = [s2c EXCEPT ![c] = SubSeq(@, k + 1, Len(@))]
      BY <2>2 DEF read_response
    <3>2. Len(s2c[c]) \in Nat /\ k \in 0 .. Len(s2c[c])
      BY <1>1, LenProperties
    <3>3. s2c'[c] = SubSeq(s2c[c], k + 1, Len(s2c[c]))
      BY <3>1 DEF IInv, TypeOK, WireTypeOK
    <3> QED
      BY <1>1, <2>2, <3>2, <3>3, OwnRepliesCut
  <2>3. s2c'[d] = s2c[d] \/ (d = c /\ read_response(c))
    <3>1. CASE d # c
      BY <1>1, <1>4, <3>1, OtherUntouched
    <3>2. CASE d = c
      BY <1>4, <3>2 DEF ClientStep, connect, send_galois_keys, wake_up,
         wireVars, query, receive, return_0, throw_broken, killed
    <3> QED
      BY <3>1, <3>2
  <2> QED
    BY <2>1, <2>2, <2>3
<1>5. CASE Next
  BY <1>2, <1>3, <1>4, <1>5 DEF Next, Terminating
<1> QED
  BY <1>2, <1>5

\* Whatever a client is sent was computed with its own Galois keys, or not
\* sent: also in the presence of clients whose keys the server does not ask
\* for, and of one that does not sleep long enough.
THEOREM RepliesUseOwnKeys ==
  ASSUME DelimiterFree, WholeWrites
  PROVE  Spec => []ReplyUnderOwnKeys
<1>1. Init => OwnKeysInv /\ ReplyUnderOwnKeys
  <2>1. \A c \in Clients : Init => Inbound(c) = <<>> /\ s2c[c] = <<>>
    BY DEF Init, WireInit, ServerInit, Inbound
  <2> QED
    BY <2>1 DEF OwnKeysInv, ReplyUnderOwnKeys
<1>2. /\ IInv /\ OwnKeysInv /\ ReplyUnderOwnKeys /\ [Next]_vars
      => IInv' /\ OwnKeysInv' /\ ReplyUnderOwnKeys'
  <2> SUFFICES ASSUME IInv, OwnKeysInv, ReplyUnderOwnKeys, [Next]_vars
               PROVE  IInv' /\ OwnKeysInv' /\ ReplyUnderOwnKeys'
    OBVIOUS
  <2>1. IInv' /\ OwnKeysInv'
    BY IInvStep, OwnKeysStep
  <2>2. ASSUME Setup = "PIR", NEW c \in Clients PROVE OwnReplies(c, s2c'[c])
    <3>1. OwnReplies(c, s2c[c])
      BY <2>2 DEF ReplyUnderOwnKeys, OwnReplies
    <3> QED
      BY <2>2, <3>1, OwnRepliesStep
  <2> QED
    BY <2>1, <2>2 DEF ReplyUnderOwnKeys, OwnReplies
<1> QED
  BY <1>1, <1>2, IInvInit, PTL DEF Spec

-----------------------------------------------------------------------------
\* The instances that are a service: any number of plain clients, or one PIR
\* client that sleeps until its keys are read.
OneAtATime ==
  Setup = "PIR" => SleepCovers /\ \A c, d \in Clients : c = d

\* A message starts with its payload, with its delimiter or without.
LEMMA MessageParses ==
  ASSUME DelimiterFree, NEW kind \in PayloadKinds,
         NEW who \in Clients \cup {None}, NEW elem \in Elements \cup {None},
         NEW q, q \in {Message(kind, who, elem),
                       EraseDelimiter(Message(kind, who, elem))}
  PROVE  IsPrefix(Payload(kind, who, elem), q)
<1> DEFINE m == Message(kind, who, elem)
           p == Payload(kind, who, elem)
<1>1. /\ m \in Seq(Token) /\ Len(m) \in Nat /\ Len(m) >= 2
      /\ Len(m) = Len(Shape[kind]) + 1
      /\ \A i \in 1 .. Len(m) - 1 : m[i] = p[i]
  BY MessageTokens
<1>2. p \in Seq(Token) /\ Len(p) = Len(Shape[kind]) /\ Len(p) \in Nat
  BY PayloadType, LenProperties
<1>3. /\ q \in Seq(Token) /\ Len(q) \in Nat
      /\ Len(q) >= Len(m) - 1
      /\ \A i \in 1 .. Len(q) : q[i] = m[i]
  <2>1. q \in {m, EraseDelimiter(m)}
    OBVIOUS
  <2> HIDE DEF m
  <2> QED
    BY <1>1, <2>1, FrontTokens
<1> HIDE DEF m, p
<1>4. Len(p) <= Len(q) /\ Len(p) = Len(m) - 1
  BY <1>1, <1>2, <1>3
<1>5. ASSUME NEW i \in 1 .. Len(p) PROVE p[i] = q[i]
  <2>1. i \in 1 .. Len(q) /\ i \in 1 .. Len(m) - 1
    BY <1>2, <1>3, <1>4
  <2> QED
    BY <1>1, <1>3, <2>1
<1>6. IsPrefix(p, q)
  BY <1>2, <1>3, <1>4, <1>5, PrefixIndex
<1> QED
  BY <1>6 DEF p

\* With one PIR client its keys, and before them nothing else, are read by
\* handle_read_galkeys.
LEMMA LoneStep ==
  ASSUME DelimiterFree, OneAtATime, IInv, IInv', SleepInv, SleepInv',
         LifeInv, LoneInv, [Next]_vars
  PROVE  LoneInv'
<1>1. /\ TypeOK /\ KeyInv /\ TypeOK' /\ KeyInv'
      /\ \A d \in Clients : ClientInv(d) /\ ClientInv(d)'
  BY DEF IInv, ClientInv
<1> SUFFICES ASSUME Setup = "PIR" PROVE LoneInv'
  BY DEF LoneInv
<1>a. \A c, d \in Clients : c = d
  BY DEF OneAtATime
<1> DEFINE
      Bound(c) ==
        /\ pc[c] = "start" => c \notin backlog /\ handler[c] = "none"
        /\ c \in backlog => handler[c] = "none"
        /\ handler[c] = "none" => ~ is_galkey_set
        /\ galoisKeys_ = None =>
             handler[c] \in {"none", "handle_read_galkeys"}
        /\ galoisKeys_ # None => pc[c] \notin {"start", "connected"}
      KeysGone(c) ==
        galoisKeys_ # None /\ pc[c] \in {"sleeping", "ready", "waiting"} =>
          Inbound(c) = <<>> \/ Inbound(c)[1].kind # "key"
<1>b. LoneInv <=> \A c \in Clients : Bound(c) /\ KeysGone(c)
  BY DEF LoneInv
<1>c. LoneInv' <=> \A c \in Clients : Bound(c)' /\ KeysGone(c)'
  BY DEF LoneInv
<1>d. \A c \in Clients : Bound(c) /\ KeysGone(c)
  BY <1>b
<1>2. ASSUME NEW c \in Clients, Inbound(c)' = Inbound(c),
             pc'[c] = pc[c] \/ pc[c] \in {"sleeping", "waiting"},
             galoisKeys_' = galoisKeys_
      PROVE  KeysGone(c)'
  BY <1>2, <1>d
<1> HIDE DEF KeysGone
<1>3. ASSUME UNCHANGED vars \/ (gen_database /\ UNCHANGED clientVars)
      PROVE  LoneInv'
  <2>1. UNCHANGED <<pc, backlog, handler, is_galkey_set, galoisKeys_,
                    message_, c2s>>
    BY <1>3 DEF vars, wireVars, serverVars, clientVars, gen_database
  <2>2. \A c \in Clients : KeysGone(c)'
    BY <1>2, <2>1 DEF Inbound
  <2> QED
    BY <1>c, <1>d, <2>1, <2>2
<1>4. ASSUME NEW c \in Clients, ServerStep(c), UNCHANGED clientVars
      PROVE  Bound(c)' /\ KeysGone(c)'
  <2>1. CASE handle_accept(c)
    <3>1. Bound(c)'
      BY <1>1, <1>4, <1>d, <2>1 DEF handle_accept, start, KeyInv, clientVars,
         TypeOK, ServerTypeOK
    <3>2. KeysGone(c)'
      BY <1>2, <1>4, <2>1 DEF handle_accept, clientVars, Inbound
    <3> QED
      BY <3>1, <3>2
  <2>2. CASE read_some(c)
    <3>1. Inbound(c)' = Inbound(c)
      BY <1>1, <2>2, ReadSome
    <3>2. KeysGone(c)'
      BY <1>2, <1>4, <2>2, <3>1 DEF read_some, clientVars
    <3>3. Bound(c)'
      BY <1>4, <1>d, <2>2 DEF read_some, clientVars
    <3> QED
      BY <3>2, <3>3
  <2>3. CASE handle_read_plain(c) \/ handle_read_pir(c)
    <3>1. PICK q \in {message_[c], EraseDelimiter(message_[c])},
               completion \in WriteHandlers :
            \/ exit_on_error(c)
            \/ HasDelimiter(message_[c]) /\ respond(c, q, completion)
      BY <2>3 DEF handle_read_plain, handle_read_pir, WriteHandlers
    <3>2. UNCHANGED <<is_galkey_set, galoisKeys_, backlog, c2s, peer, pc>>
      BY <1>4, <2>3 DEF handle_read_plain, handle_read_pir, clientVars
    <3>3. /\ galoisKeys_ # None
          /\ handler[c] \in ReadHandlers \ {"handle_read_galkeys"}
      BY <1>d, <2>3 DEF handle_read_plain, handle_read_pir, ReadHandlers
    <3>4. CASE UNCHANGED <<handler, message_>>
      BY <1>2, <1>d, <3>2, <3>4 DEF Inbound
    <3>5. ASSUME HasDelimiter(message_[c]),
                 NEW e \in Elements, IsPrefix(Payload("query", c, e), q),
                 handler' = [handler EXCEPT ![c] = completion],
                 message_' = [message_ EXCEPT ![c] = <<>>]
          PROVE  Bound(c)' /\ KeysGone(c)'
      <4>1. Bound(c)'
        BY <1>1, <1>d, <3>2, <3>3, <3>5 DEF TypeOK, ServerTypeOK,
           ReadHandlers, WriteHandlers
      <4>2. CASE pc[c] \notin {"sleeping", "ready", "waiting"}
        BY <3>2, <4>1, <4>2 DEF KeysGone
      <4>3. CASE pc[c] \in {"sleeping", "ready", "waiting"}
        <5>1. ~ Gone(c) /\ pc[c] # "refused"
          BY <1>1, <4>3 DEF ClientInv, SocketInv, Gone
        <5>2. c2s[c] = <<>>
          BY <1>1, <3>5, <5>1, ParsedQuery DEF ClientInv
        <5>3. Inbound(c)' = <<>>
          BY <1>1, <3>2, <3>5, <5>2 DEF Inbound, TypeOK, ServerTypeOK
        <5> QED
          BY <4>1, <5>3 DEF KeysGone
      <4> QED
        BY <4>2, <4>3
    <3> QED
      BY <3>1, <3>4, <3>5 DEF exit_on_error, respond, async_write, cleared
  <2>4. CASE handle_read_galkeys(c)
    <3>1. /\ is_galkey_set /\ galoisKeys_ = None
          /\ UNCHANGED <<c2s, backlog, pc>>
      BY <1>1, <1>4, <2>4 DEF handle_read_galkeys, KeyInv, clientVars
    <3>2. CASE UNCHANGED <<is_galkey_set, galoisKeys_, handler, message_>>
      BY <1>2, <1>d, <3>1, <3>2 DEF Inbound
    <3>3. CASE /\ IsPrefix(Payload("key", c, None), EraseDelimiter(message_[c]))
               /\ galoisKeys_' = c
               /\ message_' = [message_ EXCEPT ![c] = <<>>]
               /\ start(c)
               /\ UNCHANGED up
      <4>1. /\ handler'[c] = "handle_read_pir" /\ galoisKeys_' # None
            /\ handler[c] = "handle_read_galkeys"
        BY <1>1, <2>4, <3>1, <3>3, WireAssumption DEF start, TypeOK,
           ServerTypeOK, handle_read_galkeys
      <4>2. message_'[c] = <<>> /\ c2s'[c] = c2s[c]
        BY <1>1, <3>1, <3>3 DEF TypeOK, ServerTypeOK
      <4>3. CASE Gone(c) \/ pc[c] = "refused"
        <5>1. pc[c] \notin {"start", "connected", "sleeping", "ready", "waiting"}
          BY <1>1, <4>3 DEF ClientInv, SocketInv, Gone
        <5> QED
          BY <1>d, <3>1, <4>1, <5>1 DEF KeysGone
      <4>4. CASE ~ Gone(c) /\ pc[c] # "refused"
        <5>1. HasDelimiter(message_[c]) /\ ~ Keyed(c)
          BY <2>4, <3>1, <4>4, WireAssumption DEF handle_read_galkeys,
             ReadFailed, Gone, Keyed, KeysFor
        <5>2. \/ pc[c] \in {"sleeping", "ready"} /\ c2s[c] = <<>>
              \/ pc[c] = "waiting"
          BY <1>1, <3>3, <4>4, <5>1, ParsedKeys DEF ClientInv
        <5>3. CASE pc[c] \in {"sleeping", "ready"} /\ c2s[c] = <<>>
          <6>1. Inbound(c)' = <<>>
            BY <4>2, <5>3 DEF Inbound
          <6> QED
            BY <1>d, <3>1, <4>1, <5>3, <6>1 DEF KeysGone
        <5>4. CASE pc[c] = "waiting"
          <6>1. up' /\ pc'[c] = "waiting"
            BY <2>4, <3>1, <3>3, <5>4 DEF LifeInv, handle_read_galkeys
          <6>2. /\ Query(c)'[1].kind = "query"
                /\ Keys(c)' # <<>>
            BY <1>1, KeysDelimitedNext
          <6>3. Inbound(c)' = Query(c)' \/ Inbound(c)' = <<>>
            BY <4>2, <6>1, <6>2 DEF SleepInv, QueryUnderWay, ReplyUnderWay
          <6>4. c \notin backlog' /\ galoisKeys_' # None /\ pc'[c] = "waiting"
            BY <1>d, <3>1, <4>1, <6>1
          <6>5. KeysGone(c)'
            BY <6>2, <6>3 DEF KeysGone
          <6> QED
            BY <4>1, <6>4, <6>5
        <5> QED
          BY <5>2, <5>3, <5>4
      <4> QED
        BY <4>3, <4>4
    <3> QED
      BY <2>4, <3>2, <3>3 DEF handle_read_galkeys, cleared
  <2>5. CASE write_some(c)
    BY <1>1, <2>5 DEF write_some, ClientInv, SocketInv
  <2>6. CASE handle_write_plain(c) \/ handle_write_pir(c)
    <3>1. /\ UNCHANGED <<is_galkey_set, galoisKeys_, message_, backlog, c2s,
                         pc>>
          /\ \E h \in {"handle_read_plain", "handle_read_pir", "deleted"} :
               handler' = [handler EXCEPT ![c] = h]
      BY <1>4, <2>6 DEF handle_write_plain, handle_write_pir, write_done,
         clientVars
    <3>2. handler[c] \in WriteHandlers
      BY <2>6 DEF handle_write_plain, handle_write_pir, WriteHandlers
    <3>3. galoisKeys_ # None /\ pc[c] # "start" /\ c \notin backlog
      BY <1>d, <3>2 DEF WriteHandlers
    <3>4. Bound(c)'
      BY <1>1, <1>d, <3>1, <3>3 DEF TypeOK, ServerTypeOK
    <3>5. KeysGone(c)'
      BY <1>2, <3>1 DEF Inbound
    <3> QED
      BY <3>4, <3>5
  <2> QED
    BY <1>4, <2>1, <2>2, <2>3, <2>4, <2>5, <2>6 DEF ServerStep
<1>5. ASSUME NEW c \in Clients, ClientStep(c) \/ killed(c), UNCHANGED serverVars
      PROVE  Bound(c)' /\ KeysGone(c)'
  <2> USE DEF serverVars
  <2>1. CASE connect(c)
    BY <1>1, <1>5, <1>d, <2>1
       DEF connect, goto, KeysGone, TypeOK, WireTypeOK, ClientTypeOK
  <2>2. CASE send_galois_keys(c)
    BY <1>1, <1>5, <1>d, <2>2
       DEF send_galois_keys, goto, KeysGone, TypeOK, ClientTypeOK
  <2>3. CASE query(c)
    <3>1. /\ pc[c] = "ready" /\ pc'[c] = "waiting"
          /\ UNCHANGED <<galoisKeys_, handler, is_galkey_set, backlog>>
      BY <1>1, <1>5, <2>3 DEF query, goto, TypeOK, ClientTypeOK
    <3>2. Bound(c)'
      BY <1>d, <3>1
    <3>3. CASE galoisKeys_ = None
      BY <3>1, <3>2, <3>3 DEF KeysGone
    <3>4. CASE galoisKeys_ # None
      <4>1. Inbound(c) # Keys(c)
        BY <1>1, <1>d, <3>1, <3>4, KeysDelimited DEF KeysGone
      <4>2. QueryUnderWay(c)'
        BY <1>1, <1>5, <2>3, <4>1, QuerySent
      <4>3. Inbound(c)' = Query(c)' /\ Query(c)'[1].kind = "query"
        BY <1>1, <4>2, KeysDelimitedNext DEF QueryUnderWay
      <4> QED
        BY <3>2, <4>3 DEF KeysGone
    <3> QED
      BY <3>3, <3>4
  <2>4. CASE wake_up(c) \/ read_response(c) \/ receive(c)
    <3>1. /\ UNCHANGED <<backlog, c2s, message_, galoisKeys_, handler,
                         is_galkey_set>>
          /\ pc[c] \in {"sleeping", "waiting"}
          /\ pc'[c] \notin {"start", "connected"}
      BY <1>1, <1>5, <2>4 DEF wake_up, wireVars, read_response, receive,
         goto, Throw, TypeOK, ClientTypeOK
    <3>2. Bound(c)'
      BY <1>d, <3>1
    <3>3. KeysGone(c)'
      BY <1>2, <3>1 DEF Inbound
    <3> QED
      BY <3>2, <3>3
  <2>5. CASE return_0(c) \/ throw_broken(c) \/ killed(c)
    <3>1. /\ UNCHANGED <<backlog, galoisKeys_, handler, is_galkey_set>>
          /\ pc'[c] \in Over
      BY <1>1, <1>5, <2>5 DEF return_0, throw_broken, Throw, killed, goto,
         TypeOK, ClientTypeOK, Over
    <3> QED
      BY <1>d, <3>1 DEF KeysGone, Over
  <2> QED
    BY <1>5, <2>1, <2>2, <2>3, <2>4, <2>5 DEF ClientStep
<1>6. ASSUME NEW c \in Clients, Bound(c)' /\ KeysGone(c)'
      PROVE  LoneInv'
  BY <1>a, <1>c, <1>6
<1> HIDE DEF Bound
<1>7. CASE Next
  BY <1>3, <1>4, <1>5, <1>6, <1>7 DEF Next, Terminating
<1> QED
  BY <1>3, <1>7

-----------------------------------------------------------------------------
(***************************************************************************)
(* The processes implement QueryService.  What has to be known for it: the *)
(* server only ends after a client has gone, because every buffer that     *)
(* holds a delimiter and belongs to a client that is there holds one whole *)
(* message of the kind its handler expects.                                *)
(***************************************************************************)

ServiceInv == IInv /\ SleepInv /\ LifeInv /\ LoneInv

\* Who is neither gone nor refused has something in the server's buffer only
\* while it sleeps, is awake or waits.
LEMMA Present ==
  ASSUME DelimiterFree, ServiceInv, up, NEW c \in Clients, ~ Gone(c),
         HasDelimiter(message_[c])
  PROVE  /\ pc[c] \in {"sleeping", "ready", "waiting"}
         /\ Inbound(c) # <<>>
         /\ Joined(Inbound(c), message_[c], c2s[c])
         /\ message_[c] \in Seq(Token) /\ c2s[c] \in Seq(Token)
<1>1. message_[c] \in Seq(Token) /\ c2s[c] \in Seq(Token)
  BY DEF ServiceInv, IInv, TypeOK, WireTypeOK, ServerTypeOK
<1>2. Joined(Inbound(c), message_[c], c2s[c])
  BY DEF Joined, Inbound
<1>3. Inbound(c) # <<>>
  BY <1>1, <1>2, NothingThere
<1>4. pc[c] \notin {"start", "connected"}
  BY <1>3 DEF ServiceInv, IInv, StreamInv
<1>5. pc[c] \notin Over
  BY DEF ServiceInv, IInv, SocketInv, LifeInv, Over
<1> QED
  BY <1>1, <1>2, <1>3, <1>4, <1>5 DEF ServiceInv, IInv, TypeOK, ClientTypeOK

\* Once its keys are read, what the server reads of a client is its query.
LEMMA WholeQuery ==
  ASSUME DelimiterFree, OneAtATime, ServiceInv, up, NEW c \in Clients,
         handler[c] \in {"handle_read_plain", "handle_read_pir"},
         ~ Gone(c), HasDelimiter(message_[c])
  PROVE  /\ message_[c] = Query(c)
         /\ asked[c] \in Elements
         /\ Setup = "PIR" => galoisKeys_ # None
<1>1. TypeOK /\ KeyInv /\ SocketInv(c) /\ StreamInv(c) /\ Slept(c)
  BY SleptIs DEF ServiceInv, IInv
<1>2. Setup = "PIR" => galoisKeys_ # None
  BY DEF ServiceInv, LoneInv
<1>3. Setup = "PIR" \/ Setup = "Plain"
  BY WireAssumption
<1>4. ~ (Setup = "PIR" /\ Inbound(c) = Keys(c))
  BY <1>1, <1>2, Present, KeysDelimited DEF ServiceInv, LoneInv
<1>5. pc[c] = "waiting"
  BY <1>1, <1>3, <1>4, Present DEF StreamInv
<1>6. ~ KeysUnread(c)
  BY <1>1, <1>2, Present, KeysInFront DEF KeysUnread, ServiceInv, LoneInv
<1>7. QueryUnderWay(c)
  BY <1>1, <1>5, <1>6, Present DEF Slept, ReplyUnderWay
<1>8. asked[c] \in Elements
  BY <1>1, <1>5 DEF StreamInv
<1>9. message_[c] = Query(c)
  <2>1. /\ "query" \in PayloadKinds /\ c \in Clients \cup {None}
        /\ asked[c] \in Elements \cup {None}
    BY <1>8 DEF PayloadKinds
  <2> QED
    BY <1>7, <2>1, Present, WholeMessage DEF QueryUnderWay, Query
<1> QED
  BY <1>2, <1>8, <1>9

\* What handle_read_galkeys reads are the keys of the client.
LEMMA WholeKeys ==
  ASSUME DelimiterFree, ServiceInv, up, NEW c \in Clients,
         handler[c] = "handle_read_galkeys",
         ~ Gone(c), HasDelimiter(message_[c])
  PROVE  message_[c] = Keys(c)
<1>1. TypeOK /\ KeyInv /\ StreamInv(c) /\ Slept(c)
  BY SleptIs DEF ServiceInv, IInv
<1>2. ~ Keyed(c)
  BY <1>1, WireAssumption DEF KeyInv, Keyed, KeysFor
<1>3. CASE pc[c] = "waiting"
  BY <1>1, <1>2, <1>3 DEF Slept, QueryUnderWay, ReplyUnderWay
<1>4. CASE pc[c] \in {"sleeping", "ready"}
  <2>1. Inbound(c) = Message("key", c, None)
    BY <1>1, <1>2, <1>4, Present DEF StreamInv, Keys
  <2>2. /\ "key" \in PayloadKinds /\ c \in Clients \cup {None}
        /\ None \in Elements \cup {None}
    BY DEF PayloadKinds
  <2> QED
    BY <2>1, <2>2, Present, WholeMessage DEF Keys
<1> QED
  BY <1>3, <1>4, Present

\* The server ends in a step for a client that has gone.
LEMMA ServerEnds ==
  ASSUME DelimiterFree, OneAtATime, ServiceInv, up, ~ up',
         NEW c \in Clients, ServerStep(c)
  PROVE  Gone(c)
<1> SUFFICES ASSUME ~ Gone(c) PROVE FALSE
  OBVIOUS
<1>1. CASE handle_accept(c)
  BY <1>1 DEF handle_accept, Gone
<1>2. CASE read_some(c) \/ write_some(c)
  BY <1>2 DEF read_some, write_some
<1>3. CASE handle_read_plain(c) \/ handle_read_pir(c)
  <2>1. handler[c] \in {"handle_read_plain", "handle_read_pir"}
    BY <1>3 DEF handle_read_plain, handle_read_pir
  <2>2. ~ exit_on_error(c)
    BY DEF exit_on_error, ReadFailed, Gone
  <2>3. HasDelimiter(message_[c])
    BY <1>3, <2>2 DEF handle_read_plain, handle_read_pir
  <2>4. PICK q \in {message_[c], EraseDelimiter(message_[c])},
             completion \in WriteHandlers :
          respond(c, q, completion)
    BY <1>3, <2>2 DEF handle_read_plain, handle_read_pir, WriteHandlers
  <2>5. /\ message_[c] = Query(c) /\ asked[c] \in Elements
        /\ Setup = "PIR" => galoisKeys_ # None
    BY <2>1, <2>3, WholeQuery
  <2>6. IsPrefix(Payload("query", c, asked[c]), q)
    <3>1. /\ "query" \in PayloadKinds /\ c \in Clients \cup {None}
          /\ asked[c] \in Elements \cup {None}
      BY <2>5 DEF PayloadKinds
    <3> QED
      BY <2>4, <2>5, <3>1, MessageParses DEF Query
  <2> QED
    BY <2>4, <2>5, <2>6 DEF respond
<1>4. CASE handle_read_galkeys(c)
  <2>1. HasDelimiter(message_[c]) /\ handler[c] = "handle_read_galkeys"
    BY <1>4 DEF handle_read_galkeys, ReadFailed, Gone
  <2>2. message_[c] = Keys(c)
    BY <2>1, WholeKeys
  <2>3. IsPrefix(Payload("key", c, None), EraseDelimiter(message_[c]))
    <3>1. /\ "key" \in PayloadKinds /\ c \in Clients \cup {None}
          /\ None \in Elements \cup {None}
      BY DEF PayloadKinds
    <3> QED
      BY <2>2, <3>1, MessageParses DEF Keys
  <2> QED
    BY <1>4, <2>3 DEF handle_read_galkeys
<1>5. CASE handle_write_plain(c) \/ handle_write_pir(c)
  BY <1>5 DEF handle_write_plain, handle_write_pir, write_done
<1> QED
  BY <1>1, <1>2, <1>3, <1>4, <1>5 DEF ServerStep

\* All four invariants hold at first,
LEMMA ServiceInvInit == Init => ServiceInv /\ StopsOnlyAfterEof
<1>1. Init => IInv /\ SleepInv
  BY IInvInit, SleepInit
<1>2. Init => LifeInv /\ LoneInv /\ StopsOnlyAfterEof
  BY WireAssumption DEF Init, WireInit, ServerInit, ClientInit, LifeInv, LoneInv,
     StopsOnlyAfterEof
<1> QED
  BY <1>1, <1>2 DEF ServiceInv

\* and every step keeps them.
LEMMA ServiceInvStep ==
  ASSUME DelimiterFree, WholeWrites, OneAtATime, ServiceInv, [Next]_vars
  PROVE  ServiceInv'
<1>1. IInv' /\ LifeInv'
  BY IInvStep, LifeStep DEF ServiceInv
<1>2. SleepInv'
  BY SleepStep DEF ServiceInv, OneAtATime
<1>3. LoneInv'
  BY <1>1, <1>2, LoneStep DEF ServiceInv
<1> QED
  BY <1>1, <1>2, <1>3 DEF ServiceInv

\* A connection that is closed stays closed.
LEMMA GoneStep ==
  ASSUME IInv, [Next]_vars, NEW d \in Clients, Gone(d)
  PROVE  Gone(d)'
<1>1. CASE UNCHANGED peer
  BY <1>1 DEF Gone
<1>2. ASSUME NEW c \in Clients, ClientStep(c) \/ killed(c)
      PROVE  Gone(d)'
  <2>1. CASE d # c
    BY <1>2, <2>1, OtherUntouched DEF IInv, Gone
  <2>2. CASE d = c /\ connect(c)
    BY <2>2 DEF connect, IInv, SocketInv, Gone
  <2>3. CASE UNCHANGED peer \/ hang_up(c) \/ killed(c)
    BY <1>1, <2>1, <2>3 DEF hang_up, killed, Gone, IInv, TypeOK, WireTypeOK
  <2> QED
    BY <1>2, <2>1, <2>2, <2>3 DEF ClientStep, send_galois_keys, wake_up,
       wireVars, query, read_response, receive, return_0, throw_broken, Throw
<1>3. ASSUME NEW c \in Clients, ServerStep(c)
      PROVE  UNCHANGED peer
  BY <1>3 DEF ServerStep, handle_accept, read_some, handle_read_plain,
     handle_read_galkeys, handle_read_pir, write_some, handle_write_plain,
     handle_write_pir, write_done
<1>4. ASSUME UNCHANGED vars \/ gen_database
      PROVE  UNCHANGED peer
  BY <1>4 DEF vars, wireVars, gen_database
<1> QED
  BY <1>1, <1>2, <1>3, <1>4 DEF Next, Terminating

\* The server takes nobody's service away: it ends only after some client has
\* closed its connection, with any number of plain clients or one PIR client.
THEOREM ServerOutlivesClients ==
  ASSUME DelimiterFree, WholeWrites, OneAtATime
  PROVE  Spec => []StopsOnlyAfterEof
<1>1. /\ ServiceInv /\ StopsOnlyAfterEof /\ [Next]_vars
      => ServiceInv' /\ StopsOnlyAfterEof'
  <2> SUFFICES ASSUME ServiceInv, StopsOnlyAfterEof, [Next]_vars
               PROVE  ServiceInv' /\ StopsOnlyAfterEof'
    OBVIOUS
  <2>1. ServiceInv' /\ IInv
    BY ServiceInvStep DEF ServiceInv
  <2>2. ASSUME NEW d \in Clients, Gone(d) PROVE StopsOnlyAfterEof'
    BY <2>1, <2>2, GoneStep DEF StopsOnlyAfterEof
  <2>3. CASE up /\ ~ up'
    <3>1. ASSUME NEW c \in Clients, ClientStep(c) \/ killed(c)
          PROVE  FALSE
      BY <2>3, <3>1 DEF ClientStep, connect, send_galois_keys, wake_up,
         wireVars, query, read_response, receive, return_0, throw_broken, killed
    <3>2. ~ UNCHANGED vars /\ ~ gen_database
      BY <2>3 DEF vars, wireVars, gen_database
    <3>3. PICK c \in Clients : ServerStep(c)
      BY <3>1, <3>2 DEF Next, Terminating
    <3>4. Gone(c)
      BY <2>3, <3>3, ServerEnds
    <3> QED
      BY <2>1, <2>2, <3>4
  <2> QED
    BY <2>1, <2>2, <2>3 DEF StopsOnlyAfterEof
<1> QED
  BY <1>1, ServiceInvInit, PTL DEF Spec

-----------------------------------------------------------------------------
\* Where a client is for the service, after main() went on at p.
LEMMA StageStep ==
  ASSUME TypeOK, NEW c \in Clients, NEW p, pc' = [pc EXCEPT ![c] = p]
  PROVE  [d \in Clients |-> StageOf(d)]'
           = [[d \in Clients |-> StageOf(d)] EXCEPT ![c] = StageOf(c)']
<1>1. \A d \in Clients : d # c => pc'[d] = pc[d]
  BY DEF TypeOK, ClientTypeOK
<1>2. \A d \in Clients : d # c => StageOf(d)' = StageOf(d)
  BY <1>1 DEF StageOf
<1> QED
  BY <1>2

\* Each step of the processes is a step of the service, or none.
LEMMA ServiceStep ==
  ASSUME DelimiterFree, OneAtATime, ServiceInv, [Next]_vars
  PROVE  [Abstract!ServiceNext]_(Abstract!serviceVars)
<1> USE DEF Abstract!serviceVars
<1>1. TypeOK /\ \A c \in Clients : ClientInv(c)
  BY DEF ServiceInv, IInv, ClientInv
<1>2. ASSUME UNCHANGED <<pc, asked, answer, rounds, up>>
      PROVE  UNCHANGED Abstract!serviceVars
  BY <1>2 DEF StageOf
<1>3. ASSUME UNCHANGED vars \/ (gen_database /\ UNCHANGED clientVars)
      PROVE  UNCHANGED Abstract!serviceVars
  BY <1>2, <1>3 DEF vars, wireVars, clientVars, gen_database
<1>4. ASSUME NEW c \in Clients, ServerStep(c), UNCHANGED clientVars
      PROVE  [Abstract!ServiceNext]_(Abstract!serviceVars)
  <2>0. UNCHANGED up \/ up' = FALSE
    BY <1>4 DEF ServerStep, handle_accept, read_some, handle_read_plain,
       handle_read_galkeys, handle_read_pir, write_some, handle_write_plain,
       handle_write_pir, write_done, exit_on_error, respond, End
  <2>1. UNCHANGED up \/ (up /\ ~ up')
    BY <1>1, <2>0 DEF TypeOK, WireTypeOK
  <2>2. CASE UNCHANGED up
    BY <1>2, <1>4, <2>2 DEF clientVars
  <2>3. CASE up /\ ~ up'
    <3>1. Gone(c)
      BY <1>4, <2>3, ServerEnds
    <3>2. pc[c] \in Over
      BY <1>1, <3>1 DEF ClientInv, SocketInv, Gone, Over, TypeOK, ClientTypeOK
    <3>3. StageOf(c) \in {"left", "failed"}
      BY <3>2 DEF StageOf, Over
    <3>4. UNCHANGED <<[d \in Clients |-> StageOf(d)], asked, answer, rounds>>
      BY <1>4 DEF clientVars, StageOf
    <3>5. up' = FALSE
      BY <2>3 DEF ServiceInv, IInv, TypeOK, WireTypeOK
    <3>6. Abstract!Close
      BY <2>3, <3>3, <3>4, <3>5 DEF Abstract!Close
    <3> QED
      BY <3>6 DEF Abstract!ServiceNext
  <2> QED
    BY <2>1, <2>2, <2>3
<1>5. ASSUME NEW c \in Clients, ClientStep(c) \/ killed(c), UNCHANGED serverVars
      PROVE  [Abstract!ServiceNext]_(Abstract!serviceVars)
  <2>1. CASE connect(c)
    <3>1. /\ pc[c] = "start" /\ UNCHANGED <<asked, answer, rounds, up>>
          /\ \/ up /\ \E p \in {"connected", "ready"} :
                         pc' = [pc EXCEPT ![c] = p]
             \/ ~ up /\ pc' = [pc EXCEPT ![c] = "refused"]
      BY <2>1 DEF connect, goto
    <3>2. ASSUME up, NEW p \in {"connected", "ready"},
                 pc' = [pc EXCEPT ![c] = p]
          PROVE  Abstract!Enter(c)
      <4>1. StageOf(c) = "out" /\ StageOf(c)' = "idle"
        BY <1>1, <3>1, <3>2 DEF StageOf, TypeOK, ClientTypeOK
      <4> QED
        BY <1>1, <3>1, <3>2, <4>1, StageStep DEF Abstract!Enter,
           Abstract!become
    <3>3. ASSUME ~ up, pc' = [pc EXCEPT ![c] = "refused"]
          PROVE  Abstract!Fail(c)
      <4>1. StageOf(c) = "out" /\ StageOf(c)' = "failed"
        BY <1>1, <3>1, <3>3 DEF StageOf, TypeOK, ClientTypeOK
      <4> QED
        BY <1>1, <3>1, <3>3, <4>1, StageStep DEF Abstract!Fail,
           Abstract!become
    <3> QED
      BY <3>1, <3>2, <3>3 DEF Abstract!ServiceNext
  <2>2. CASE send_galois_keys(c) \/ wake_up(c)
    <3>1. /\ pc[c] \in {"connected", "sleeping"}
          /\ pc'[c] \in {"sleeping", "ready"}
          /\ \A d \in Clients : d # c => pc'[d] = pc[d]
          /\ UNCHANGED <<asked, answer, rounds, up>>
      BY <1>1, <2>2 DEF send_galois_keys, wake_up, wireVars, goto, TypeOK,
         ClientTypeOK
    <3>2. \A d \in Clients : StageOf(d)' = StageOf(d)
      BY <3>1 DEF StageOf
    <3> QED
      BY <3>1, <3>2
  <2>3. CASE query(c)
    <3>1. Abstract!Ask(c)
      BY <1>1, <2>3, StageStep DEF query, goto, StageOf, Abstract!Ask,
         Abstract!become, TypeOK, ClientTypeOK
    <3> QED
      BY <3>1 DEF Abstract!ServiceNext
  <2>4. CASE read_response(c)
    BY <1>2, <2>4 DEF read_response
  <2>5. CASE receive(c)
    <3>1. /\ pc[c] = "waiting" /\ UNCHANGED <<asked, up>>
          /\ goto(c, "ready")
          /\ rounds' = [rounds EXCEPT ![c] = @ + 1]
          /\ answer' = [answer EXCEPT ![c] = asked[c]]
      BY <1>1, <1>5, <2>5, Received DEF receive
    <3>2. Abstract!Answer(c)
      BY <1>1, <3>1, StageStep DEF goto, StageOf, Abstract!Answer,
         Abstract!become, TypeOK, ClientTypeOK
    <3> QED
      BY <3>2 DEF Abstract!ServiceNext
  <2>6. CASE return_0(c)
    <3>1. Abstract!Leave(c)
      BY <1>1, <2>6, StageStep DEF return_0, goto, StageOf, Abstract!Leave,
         Abstract!become, TypeOK, ClientTypeOK
    <3> QED
      BY <3>1 DEF Abstract!ServiceNext
  <2>7. CASE throw_broken(c)
    <3>1. Abstract!Fail(c)
      BY <1>1, <2>7, StageStep DEF throw_broken, Throw, goto, StageOf,
         Abstract!Fail, Abstract!become, TypeOK, ClientTypeOK
    <3> QED
      BY <3>1 DEF Abstract!ServiceNext
  <2>8. CASE killed(c)
    <3>1. pc[c] \in {"connected", "sleeping", "ready", "waiting"}
      BY <1>1, <2>8 DEF killed, ServiceInv, LifeInv, ClientInv, SocketInv,
         Gone, TypeOK, ClientTypeOK, Over
    <3>2. Abstract!Fail(c)
      BY <1>1, <2>8, <3>1, StageStep DEF killed, goto, StageOf,
         Abstract!Fail, Abstract!become, TypeOK, ClientTypeOK
    <3> QED
      BY <3>2 DEF Abstract!ServiceNext
  <2> QED
    BY <1>5, <2>1, <2>2, <2>3, <2>4, <2>5, <2>6, <2>7, <2>8 DEF ClientStep
<1>6. CASE Next
  BY <1>3, <1>4, <1>5, <1>6 DEF Next, Terminating
<1> QED
  BY <1>3, <1>6

\* They start as the service does,
LEMMA ServiceStart == Init => Abstract!ServiceInit
BY DEF Init, WireInit, ClientInit, StageOf, Abstract!ServiceInit

\* and so server and clients together, with their buffers, handlers, sockets
\* and keys, are the service of QueryService: every answer is the element
\* asked for, one query at a time, nobody fails but a client that is killed
\* or that finds the server gone, and the server only goes after a client.
THEOREM ServiceImplemented ==
  ASSUME DelimiterFree, WholeWrites, OneAtATime
  PROVE  Spec => ImplementsQueryService
<1>1. ServiceInv /\ [Next]_vars => ServiceInv'
  BY ServiceInvStep
<1>2. ServiceInv /\ [Next]_vars
        => [Abstract!ServiceNext]_(Abstract!serviceVars)
  BY ServiceStep
<1> QED
  BY <1>1, <1>2, ServiceInvInit, ServiceStart, PTL
     DEF Spec, ImplementsQueryService, Abstract!Service
=============================================================================
