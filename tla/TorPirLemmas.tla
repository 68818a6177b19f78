---------------------------- MODULE TorPirLemmas ----------------------------
(***************************************************************************)
(* Type correctness of the whole system, what the operators on bytes       *)
(* return, and what cutting a stream of bytes in two tells about the       *)
(* messages in it: no payload contains the delimiter, so a buffer that     *)
(* holds one holds everything up to the end of the first message.          *)
(***************************************************************************)
EXTENDS TorPirInv, SequenceTheorems, TLAPS

\* A payload of any kind is a sequence of tokens, ...
LEMMA PayloadType ==
  ASSUME NEW kind \in PayloadKinds, NEW who \in Clients \cup {None},
         NEW elem \in Elements \cup {None}
  PROVE  /\ Payload(kind, who, elem) \in Seq(Token)
         /\ Len(Payload(kind, who, elem)) = Len(Shape[kind])
<1>1. Shape[kind] \in Seq(SUBSET (Elements \cup {None}))
  BY WireAssumption
<1>2. Len(Shape[kind]) \in Nat
  BY <1>1, LenProperties
<1> DEFINE tok(p) == [kind |-> kind, who |-> who, elem |-> elem,
                      part |-> p, delim |-> elem \in Shape[kind][p]]
<1>3. \A p \in 1 .. Len(Shape[kind]) : tok(p) \in Token
  BY <1>1, <1>2 DEF Token
<1>4. Payload(kind, who, elem) = [p \in 1 .. Len(Shape[kind]) |-> tok(p)]
  BY DEF Payload
<1> QED
  BY <1>2, <1>3, <1>4

\* ... and so is a message, which has one token more.
LEMMA MessageType ==
  ASSUME NEW kind \in PayloadKinds, NEW who \in Clients \cup {None},
         NEW elem \in Elements \cup {None}
  PROVE  /\ Message(kind, who, elem) \in Seq(Token)
         /\ Len(Message(kind, who, elem)) = Len(Shape[kind]) + 1
<1>1. delimiter \in Token
  BY DEF Token, delimiter
<1>2. <<delimiter>> \in Seq(Token) /\ Len(<<delimiter>>) = 1
  BY <1>1
<1>3. /\ Payload(kind, who, elem) \in Seq(Token)
      /\ Len(Payload(kind, who, elem)) = Len(Shape[kind])
  BY PayloadType
<1> QED
  BY <1>2, <1>3, ConcatProperties DEF Message

\* The two parts a read or a write makes of a sequence of tokens.
LEMMA SplitType ==
  ASSUME NEW S, NEW s \in Seq(S), NEW k \in 0 .. Len(s)
  PROVE  /\ SubSeq(s, 1, k) \in Seq(S)
         /\ SubSeq(s, k + 1, Len(s)) \in Seq(S)
         /\ Len(SubSeq(s, 1, k)) = k
         /\ Len(SubSeq(s, k + 1, Len(s))) = Len(s) - k
         /\ SubSeq(s, 1, k) \o SubSeq(s, k + 1, Len(s)) = s
<1>1. Len(s) \in Nat /\ k \in Int /\ \A i \in 1 .. Len(s) : s[i] \in S
  BY LenProperties, ElementOfSeq
<1>2. \A i \in 1 .. k : s[i] \in S
  BY <1>1
<1>3. \A i \in k + 1 .. Len(s) : s[i] \in S
  BY <1>1
<1>4. SubSeq(s, 1, k) \in Seq(S) /\ Len(SubSeq(s, 1, k)) = k
  BY <1>1, <1>2, SubSeqProperties
<1>5. /\ SubSeq(s, k + 1, Len(s)) \in Seq(S)
      /\ Len(SubSeq(s, k + 1, Len(s))) = Len(s) - k
  <2>1. /\ SubSeq(s, k + 1, Len(s)) \in Seq(S)
        /\ Len(SubSeq(s, k + 1, Len(s)))
             = IF k + 1 <= Len(s) THEN Len(s) - (k + 1) + 1 ELSE 0
    BY <1>1, <1>3, SubSeqProperties
  <2> QED
    BY <1>1, <2>1
<1>6. SubSeq(s, 1, k) \o SubSeq(s, k + 1, Len(s)) = s
  <2>1. /\ 1 \in 1 .. Len(s) + 1
        /\ k \in 1 - 1 .. Len(s)
        /\ Len(s) \in k .. Len(s)
    BY <1>1
  <2> QED
    BY <2>1, ConcatAdjacentSubSeq, SubSeqFull
<1> QED
  BY <1>4, <1>5, <1>6

\* What async_write leaves in the socket and to be written, also over the
\* replies of other connections.
LEMMA AsyncWriteType ==
  ASSUME TypeOK, NEW c \in Clients, NEW reply \in Seq(Token),
         NEW completion \in WriteHandlers,
         async_write(c, reply, completion)
  PROVE  /\ s2c' \in [Clients -> Seq(Token)]
         /\ unsent' \in [Clients -> Seq(Token)]
         /\ handler' \in [Clients -> ReadHandlers \cup WriteHandlers
                                       \cup {"none", "deleted"}]
<1>1. Len(reply) \in Nat
  BY LenProperties
<1> DEFINE K == IF Gone(c) THEN {0, Len(reply)}
                ELSE IF WholeWrites THEN {Len(reply)} ELSE 0 .. Len(reply)
<1>2. PICK k \in K, over \in SUBSET Overwritable(c, reply) :
        /\ s2c' = [s2c EXCEPT ![c] = @ \o SubSeq(reply, 1, k)]
        /\ unsent' = [d \in Clients |->
             IF d = c THEN SubSeq(reply, k + 1, Len(reply))
             ELSE IF d \in over
               THEN SubSeq(reply, Len(reply) - Len(unsent[d]) + 1, Len(reply))
             ELSE unsent[d]]
  BY DEF async_write
<1>3. k \in 0 .. Len(reply)
  BY <1>1
<1>4. /\ SubSeq(reply, 1, k) \in Seq(Token)
      /\ SubSeq(reply, k + 1, Len(reply)) \in Seq(Token)
  BY <1>3, SplitType
<1>5. s2c[c] \o SubSeq(reply, 1, k) \in Seq(Token)
  BY <1>4, ConcatProperties DEF TypeOK, WireTypeOK
<1>6. ASSUME NEW d \in over
      PROVE  SubSeq(reply, Len(reply) - Len(unsent[d]) + 1, Len(reply))
               \in Seq(Token)
  <2>1. d \in Clients /\ Len(unsent[d]) <= Len(reply)
    BY <1>6 DEF Overwritable
  <2>2. Len(unsent[d]) \in Nat
    BY <2>1, LenProperties DEF TypeOK, ServerTypeOK
  <2> DEFINE j == Len(reply) - Len(unsent[d])
  <2>3. j \in 0 .. Len(reply)
    BY <1>1, <2>1, <2>2
  <2> HIDE DEF j
  <2>4. SubSeq(reply, j + 1, Len(reply)) \in Seq(Token)
    BY <2>3, SplitType
  <2> QED
    BY <2>4 DEF j
<1>7. \A d \in Clients : unsent[d] \in Seq(Token)
  BY DEF TypeOK, ServerTypeOK
<1>8. unsent' \in [Clients -> Seq(Token)]
  BY <1>2, <1>4, <1>6, <1>7
<1> QED
  BY <1>2, <1>4, <1>5, <1>8 DEF TypeOK, WireTypeOK, ServerTypeOK, async_write

\* generate_reply and the write of its result, or an exception.
LEMMA RespondType ==
  ASSUME TypeOK, NEW c \in Clients, NEW q, NEW completion \in WriteHandlers,
         respond(c, q, completion)
  PROVE  /\ s2c' \in [Clients -> Seq(Token)]
         /\ unsent' \in [Clients -> Seq(Token)]
         /\ message_' \in [Clients -> Seq(Token)]
         /\ handler' \in [Clients -> ReadHandlers \cup WriteHandlers
                                       \cup {"none", "deleted"}]
         /\ proc' \in {"starting", "running", "exited", "threw", "crashed"}
         /\ up' \in BOOLEAN
<1>1. CASE /\ \E e \in Elements :
                async_write(c, Message("reply", galoisKeys_, e), completion)
           /\ message_' = [message_ EXCEPT ![c] = <<>>]
           /\ UNCHANGED <<proc, up>>
  <2>1. PICK e \in Elements :
          async_write(c, Message("reply", galoisKeys_, e), completion)
    BY <1>1
  <2>2. Message("reply", galoisKeys_, e) \in Seq(Token)
    BY MessageType DEF TypeOK, ServerTypeOK, PayloadKinds
  <2>3. <<>> \in Seq(Token)
    OBVIOUS
  <2> QED
    BY <1>1, <2>1, <2>2, <2>3, AsyncWriteType
       DEF TypeOK, WireTypeOK, ServerTypeOK
<1>2. CASE /\ End("threw")
           /\ UNCHANGED <<handler, message_, unsent, s2c>>
  BY <1>2 DEF TypeOK, WireTypeOK, ServerTypeOK, End
<1> QED
  BY <1>1, <1>2 DEF respond, cleared

\* Every handler, read and write of the server keeps the types.
LEMMA ServerStepType ==
  ASSUME TypeOK, NEW c \in Clients, ServerStep(c), UNCHANGED clientVars
  PROVE  TypeOK'
<1> USE DEF TypeOK, WireTypeOK, ServerTypeOK, ClientTypeOK, clientVars
<1>0. ClientTypeOK'
  OBVIOUS
<1>e. <<>> \in Seq(Token)
  OBVIOUS
<1>1. CASE handle_accept(c)
  BY <1>1 DEF handle_accept, start, End, ReadHandlers
<1>2. CASE read_some(c)
  <2>1. PICK k \in 1 .. Len(c2s[c]) :
          /\ message_' = [message_ EXCEPT ![c] = @ \o SubSeq(c2s[c], 1, k)]
          /\ c2s' = [c2s EXCEPT ![c] = SubSeq(@, k + 1, Len(@))]
    BY <1>2 DEF read_some
  <2>2. Len(c2s[c]) \in Nat /\ k \in 0 .. Len(c2s[c])
    BY LenProperties
  <2>3. /\ SubSeq(c2s[c], 1, k) \in Seq(Token)
        /\ SubSeq(c2s[c], k + 1, Len(c2s[c])) \in Seq(Token)
    BY <2>2, SplitType
  <2>4. message_[c] \o SubSeq(c2s[c], 1, k) \in Seq(Token)
    BY <2>3, ConcatProperties
  <2> QED
    BY <1>2, <2>1, <2>3, <2>4 DEF read_some
<1>3. CASE handle_read_plain(c) \/ handle_read_pir(c)
  <2>1. \/ exit_on_error(c)
        \/ respond(c, message_[c], "handle_write_plain")
        \/ respond(c, EraseDelimiter(message_[c]), "handle_write_pir")
    BY <1>3 DEF handle_read_plain, handle_read_pir
  <2>2. UNCHANGED <<is_galkey_set, galoisKeys_, backlog, c2s, peer>>
    BY <1>3 DEF handle_read_plain, handle_read_pir
  <2>3. CASE exit_on_error(c)
    BY <2>2, <2>3 DEF exit_on_error, End
  <2>4. ASSUME NEW q, NEW completion \in WriteHandlers,
               respond(c, q, completion)
        PROVE  TypeOK'
    <3>1. TypeOK
      OBVIOUS
    <3> QED
      BY <2>2, <2>4, <3>1, RespondType
  <2>5. {"handle_write_plain", "handle_write_pir"} \subseteq WriteHandlers
    BY DEF WriteHandlers
  <2> QED
    BY <2>1, <2>3, <2>4, <2>5
<1>4. CASE handle_read_galkeys(c)
  <2>1. UNCHANGED <<unsent, backlog, c2s, s2c, peer>>
    BY <1>4 DEF handle_read_galkeys, cleared
  <2>2. CASE /\ galoisKeys_' = c
             /\ message_' = [message_ EXCEPT ![c] = <<>>]
             /\ start(c)
             /\ UNCHANGED <<proc, up>>
    BY <1>e, <2>1, <2>2 DEF start, ReadHandlers
  <2>3. CASE /\ End("threw")
             /\ UNCHANGED <<is_galkey_set, galoisKeys_, handler, message_>>
    BY <2>1, <2>3 DEF End
  <2> QED
    BY <1>4, <2>2, <2>3 DEF handle_read_galkeys, cleared
<1>5. CASE write_some(c)
  <2>1. PICK token \in {Head(unsent[c]), Junk} :
          s2c' = [s2c EXCEPT ![c] = Append(@, token)]
    BY <1>5 DEF write_some
  <2>2. /\ Head(unsent[c]) \in Token
        /\ Tail(unsent[c]) \in Seq(Token)
    BY <1>5, HeadTailProperties DEF write_some
  <2>3. Junk \in Token
    BY DEF Junk, Token
  <2>4. Append(s2c[c], token) \in Seq(Token)
    BY <2>2, <2>3, AppendProperties
  <2> QED
    BY <1>5, <2>1, <2>2, <2>4 DEF write_some
<1>6. CASE handle_write_plain(c) \/ handle_write_pir(c)
  <2>1. ASSUME NEW next \in ReadHandlers, write_done(c, next)
        PROVE  TypeOK'
    <3>1. UNCHANGED <<is_galkey_set, galoisKeys_, message_, backlog, c2s, s2c,
                      peer>>
      BY <2>1 DEF write_done
    <3>2. /\ unsent' \in [Clients -> Seq(Token)]
          /\ handler' \in [Clients -> ReadHandlers \cup WriteHandlers
                                        \cup {"none", "deleted"}]
      <4>1. CASE handler' = [handler EXCEPT ![c] = next] /\ UNCHANGED unsent
        BY <2>1, <4>1
      <4>2. CASE /\ handler' = [handler EXCEPT ![c] = "deleted"]
                 /\ unsent' = [unsent EXCEPT ![c] = <<>>]
        BY <1>e, <4>2
      <4> QED
        BY <2>1, <4>1, <4>2 DEF write_done
    <3>3. UNCHANGED <<proc, up>> \/ End("crashed")
      BY <2>1 DEF write_done
    <3> QED
      BY <3>1, <3>2, <3>3 DEF End
  <2>2. {"handle_read_plain", "handle_read_pir"} \subseteq ReadHandlers
    BY DEF ReadHandlers
  <2> QED
    BY <1>6, <2>1, <2>2 DEF handle_write_plain, handle_write_pir
<1> QED
  BY <1>1, <1>2, <1>3, <1>4, <1>5, <1>6 DEF ServerStep

\* So does every step of a client.
LEMMA ClientStepType ==
  ASSUME TypeOK, NEW c \in Clients, ClientStep(c) \/ killed(c),
         UNCHANGED serverVars
  PROVE  TypeOK'
<1> USE DEF TypeOK, WireTypeOK, ServerTypeOK, ClientTypeOK, serverVars
<1>e. <<>> \in Seq(Token)
  OBVIOUS
<1>1. CASE connect(c)
  BY <1>1 DEF connect, goto, Over
<1>2. CASE send_galois_keys(c)
  <2>1. Message("key", c, None) \in Seq(Token)
    BY MessageType DEF PayloadKinds
  <2>2. c2s[c] \o Message("key", c, None) \in Seq(Token)
    BY <2>1, ConcatProperties
  <2> QED
    BY <1>2, <2>2 DEF send_galois_keys, goto, Over
<1>3. CASE wake_up(c)
  BY <1>3 DEF wake_up, goto, wireVars, Over
<1>4. CASE query(c)
  <2>1. PICK e \in Elements :
          /\ asked' = [asked EXCEPT ![c] = e]
          /\ c2s' = [c2s EXCEPT ![c] = @ \o Message("query", c, e)]
    BY <1>4 DEF query
  <2>2. Message("query", c, e) \in Seq(Token)
    BY MessageType DEF PayloadKinds
  <2>3. c2s[c] \o Message("query", c, e) \in Seq(Token)
    BY <2>2, ConcatProperties
  <2> QED
    BY <1>4, <2>1, <2>3 DEF query, goto, Over
<1>5. CASE read_response(c)
  <2>1. PICK k \in 1 .. Len(s2c[c]) :
          /\ response' = [response EXCEPT ![c] = @ \o SubSeq(s2c[c], 1, k)]
          /\ s2c' = [s2c EXCEPT ![c] = SubSeq(@, k + 1, Len(@))]
    BY <1>5 DEF read_response
  <2>2. Len(s2c[c]) \in Nat /\ k \in 0 .. Len(s2c[c])
    BY LenProperties
  <2>3. /\ SubSeq(s2c[c], 1, k) \in Seq(Token)
        /\ SubSeq(s2c[c], k + 1, Len(s2c[c])) \in Seq(Token)
    BY <2>2, SplitType
  <2>4. response[c] \o SubSeq(s2c[c], 1, k) \in Seq(Token)
    BY <2>3, ConcatProperties
  <2> QED
    BY <1>5, <2>1, <2>3, <2>4 DEF read_response
<1>6. CASE receive(c)
  <2>1. ASSUME Throw(c) PROVE /\ pc' = [pc EXCEPT ![c] = "aborted"]
                              /\ peer' \in [Clients -> {"unconnected", "open", "closed", "reset"}]
    BY <2>1 DEF Throw, goto, hang_up
  <2>2. UNCHANGED <<asked, backlog, c2s, s2c, up>>
    BY <1>6 DEF receive
  <2>3. CASE Throw(c) /\ UNCHANGED <<rounds, answer, response>>
    BY <2>1, <2>2, <2>3 DEF Over
  <2>4. CASE /\ answer' \in [Clients -> Elements \cup {None}]
             /\ rounds' = [rounds EXCEPT ![c] = @ + 1]
             /\ response' = [response EXCEPT ![c] = <<>>]
             /\ goto(c, "ready")
             /\ UNCHANGED peer
    BY <1>e, <2>2, <2>4 DEF Over, goto
  <2> QED
    BY <1>6, <2>3, <2>4 DEF receive, fresh_response, decode_reply
<1>7. CASE return_0(c)
  BY <1>7 DEF return_0, goto, hang_up, Over
<1>8. CASE throw_broken(c)
  BY <1>8 DEF throw_broken, goto, Throw, hang_up, Over
<1>9. CASE killed(c)
  BY <1>9 DEF killed, goto, Over
<1> QED
  BY <1>1, <1>2, <1>3, <1>4, <1>5, <1>6, <1>7, <1>8, <1>9 DEF ClientStep

\* So does doing nothing.
LEMMA StutterType ==
  ASSUME TypeOK, UNCHANGED vars
  PROVE  TypeOK'
BY DEF TypeOK, WireTypeOK, ServerTypeOK, ClientTypeOK, vars, wireVars,
       serverVars, clientVars

\* The initial values have the types,
LEMMA InitType == Init => TypeOK
<1>1. <<>> \in Seq(Token)
  OBVIOUS
<1>2. WireInit => WireTypeOK
  BY <1>1 DEF WireInit, WireTypeOK
<1>3. ServerInit => ServerTypeOK
  BY <1>1 DEF ServerInit, ServerTypeOK
<1>4. ClientInit => ClientTypeOK
  BY <1>1 DEF ClientInit, ClientTypeOK
<1> QED
  BY <1>2, <1>3, <1>4 DEF Init, TypeOK

\* and every step keeps them.
LEMMA TypeStep == TypeOK /\ [Next]_vars => TypeOK'
<1>1. ASSUME TypeOK, gen_database, UNCHANGED clientVars
      PROVE  TypeOK'
  BY <1>1 DEF gen_database, wireVars, clientVars, TypeOK, WireTypeOK,
     ServerTypeOK, ClientTypeOK
<1> QED
  BY <1>1, ServerStepType, ClientStepType, StutterType DEF Next, Terminating

\* Type correctness, for any number of clients, elements and queries, in
\* either setup, and whatever the bytes of a payload look like.
THEOREM TypeCorrect == Spec => []TypeOK
BY TypeStep, InitType, PTL DEF Spec

-----------------------------------------------------------------------------

\* What each token of a payload says.
LEMMA PayloadTokens ==
  ASSUME NEW kind \in PayloadKinds, NEW who \in Clients \cup {None},
         NEW elem \in Elements \cup {None},
         NEW i \in 1 .. Len(Shape[kind])
  PROVE  /\ Payload(kind, who, elem)[i].kind = kind
         /\ Payload(kind, who, elem)[i].elem = elem
         /\ Payload(kind, who, elem)[i].who = who
         /\ Payload(kind, who, elem)[i].delim <=> elem \in Shape[kind][i]
BY DEF Payload

\* A message without delimiters in its payload holds one, at its end.
LEMMA MessageTokens ==
  ASSUME DelimiterFree, NEW kind \in PayloadKinds,
         NEW who \in Clients \cup {None}, NEW elem \in Elements \cup {None},
         NEW m, m = Message(kind, who, elem)
  PROVE  /\ m \in Seq(Token)
         /\ Len(m) \in Nat
         /\ Len(m) >= 2
         /\ Len(m) = Len(Shape[kind]) + 1
         /\ \A i \in 1 .. Len(m) - 1 : m[i] = Payload(kind, who, elem)[i]
         /\ \A i \in 1 .. Len(m) - 1 : m[i].kind = kind
         /\ \A i \in 1 .. Len(m) - 1 : m[i].elem = elem
         /\ \A i \in 1 .. Len(m) - 1 : m[i].who = who
         /\ \A i \in 1 .. Len(m) - 1 : ~ m[i].delim
         /\ m[Len(m)] = delimiter
<1>1. Len(Shape[kind]) \in Nat /\ Len(Shape[kind]) > 0
  BY LenProperties, WireAssumption
<1>2. m \in Seq(Token) /\ Len(m) = Len(Shape[kind]) + 1
  BY MessageType
<1> DEFINE p == Payload(kind, who, elem)
<1>3. p \in Seq(Token) /\ Len(p) = Len(Shape[kind])
  BY PayloadType
<1>4. <<delimiter>> \in Seq(Token) /\ Len(<<delimiter>>) = 1
  BY DEF Token, delimiter
<1>5. \A i \in 1 .. Len(p) + 1 :
        m[i] = IF i <= Len(p) THEN p[i] ELSE <<delimiter>>[i - Len(p)]
  BY <1>3, <1>4, ConcatProperties DEF Message
<1>6. ASSUME NEW i \in 1 .. Len(m) - 1
      PROVE  /\ m[i] = p[i]
             /\ m[i].kind = kind
             /\ m[i].elem = elem
             /\ m[i].who = who
             /\ ~ m[i].delim
  <2>1. i \in 1 .. Len(Shape[kind])
    BY <1>1, <1>2
  <2>2. m[i] = p[i]
    BY <1>1, <1>2, <1>3, <1>5, <2>1
  <2>3. elem \notin Shape[kind][i]
    BY <2>1 DEF DelimiterFree
  <2>4. ~ p[i].delim
    BY <2>1, <2>3, PayloadTokens
  <2>5. p[i].kind = kind /\ p[i].elem = elem /\ p[i].who = who
    BY <2>1, PayloadTokens
  <2> QED
    BY <2>2, <2>4, <2>5
<1>7. m[Len(m)] = delimiter
  BY <1>1, <1>2, <1>3, <1>5
<1> QED
  BY <1>1, <1>2, <1>6, <1>7

\* The same as IsPrefix, byte by byte.
LEMMA PrefixIndex ==
  ASSUME NEW S, NEW s \in Seq(S), NEW t \in Seq(S)
  PROVE  IsPrefix(s, t) <=> /\ Len(s) <= Len(t)
                            /\ \A i \in 1 .. Len(s) : s[i] = t[i]
<1>1. Len(s) \in Nat /\ Len(t) \in Nat
  BY LenProperties
<1>2. SubSeq(s, 1, Len(s)) = s
  BY SubSeqFull
<1>3. CASE Len(s) <= Len(t)
  <2>1. Len(s) \in 0 .. Len(t)
    BY <1>1, <1>3
  <2>2. /\ SubSeq(t, 1, Len(s)) \in Seq(S)
        /\ Len(SubSeq(t, 1, Len(s))) = Len(s)
    BY <2>1, SplitType
  <2>3. \A i \in 1 .. Len(s) : SubSeq(t, 1, Len(s))[i] = t[i]
    <3>1. \A i \in 1 .. Len(s) : t[i] \in S
      BY <1>1, <1>3, ElementOfSeq
    <3>2. \A i \in 1 .. Len(s) - 1 + 1 :
            SubSeq(t, 1, Len(s))[i] = t[1 + i - 1]
      BY <1>1, <3>1, SubSeqProperties
    <3> QED
      BY <1>1, <3>2
  <2>4. s = SubSeq(t, 1, Len(s)) <=> \A i \in 1 .. Len(s) : s[i] = t[i]
    BY <2>2, <2>3, SeqEqual
  <2> QED
    BY <1>2, <1>3, <2>4 DEF IsPrefix
<1> QED
  BY <1>1, <1>3 DEF IsPrefix

\* The stream w is a and then b: a buffer and what has not been read yet.
Joined(w, a, b) == w = a \o b

\* Of two halves of a sequence, each has its part of the elements.
LEMMA HalvesOf ==
  ASSUME NEW S, NEW a \in Seq(S), NEW b \in Seq(S), NEW m, Joined(m, a, b)
  PROVE  /\ Len(a) \in Nat /\ Len(b) \in Nat
         /\ Len(m) = Len(a) + Len(b)
         /\ \A i \in 1 .. Len(a) : a[i] = m[i]
         /\ \A i \in 1 .. Len(b) : b[i] = m[Len(a) + i]
<1>1. Len(a) \in Nat /\ Len(b) \in Nat
  BY LenProperties
<1>2. /\ Len(m) = Len(a) + Len(b)
      /\ \A i \in 1 .. Len(a) + Len(b) :
           m[i] = IF i <= Len(a) THEN a[i] ELSE b[i - Len(a)]
  BY ConcatProperties DEF Joined
<1>3. \A i \in 1 .. Len(a) : a[i] = m[i]
  BY <1>1, <1>2
<1>4. ASSUME NEW i \in 1 .. Len(b) PROVE b[i] = m[Len(a) + i]
  <2>1. /\ Len(a) + i \in 1 .. Len(a) + Len(b)
        /\ ~ (Len(a) + i <= Len(a))
        /\ Len(a) + i - Len(a) = i
    BY <1>1
  <2> QED
    BY <1>2, <2>1
<1> QED
  BY <1>1, <1>2, <1>3, <1>4

\* Their lengths add up, ...
LEMMA HalvesLen ==
  ASSUME NEW S, NEW a \in Seq(S), NEW b \in Seq(S), NEW m, Joined(m, a, b)
  PROVE  Len(m) = Len(a) + Len(b)
BY HalvesOf

\* ... and the first is what the sequence starts with.
LEMMA FirstHalf ==
  ASSUME NEW S, NEW a \in Seq(S), NEW b \in Seq(S), NEW m, Joined(m, a, b)
  PROVE  \A i \in 1 .. Len(a) : a[i] = m[i]
BY HalvesOf

\* What is left of a sequence after its first k elements.
LEMMA SuffixOf ==
  ASSUME NEW S, NEW m \in Seq(S), NEW k \in 0 .. Len(m)
  PROVE  /\ SubSeq(m, k + 1, Len(m)) \in Seq(S)
         /\ Len(m) \in Nat
         /\ Len(SubSeq(m, k + 1, Len(m))) = Len(m) - k
         /\ \A i \in 1 .. Len(m) - k :
              SubSeq(m, k + 1, Len(m))[i] = m[k + i]
<1>1. Len(m) \in Nat /\ \A i \in 1 .. Len(m) : m[i] \in S
  BY LenProperties, ElementOfSeq
<1>2. /\ SubSeq(m, k + 1, Len(m)) \in Seq(S)
      /\ Len(SubSeq(m, k + 1, Len(m))) = Len(m) - k
  BY SplitType
<1>3. \A i \in k + 1 .. Len(m) : m[i] \in S
  BY <1>1
<1>4. \A i \in 1 .. Len(m) - (k + 1) + 1 :
        SubSeq(m, k + 1, Len(m))[i] = m[k + 1 + i - 1]
  BY <1>1, <1>3, SubSeqProperties
<1> QED
  BY <1>1, <1>2, <1>4

\* When two messages are cut after the end of the first, what follows the cut
\* is the end of the second.
LEMMA CutInSecond ==
  ASSUME NEW S, NEW a \in Seq(S), NEW b \in Seq(S),
         NEW m \in Seq(S), NEW n \in Seq(S),
         NEW w, Joined(w, a, b), Joined(w, m, n), Len(a) >= Len(m)
  PROVE  \E k \in 0 .. Len(n) : b = SubSeq(n, k + 1, Len(n))
<1>1. /\ Len(a) \in Nat /\ Len(b) \in Nat /\ Len(m) \in Nat /\ Len(n) \in Nat
  BY LenProperties
<1>3. Len(w) = Len(a) + Len(b)
  BY HalvesOf
<1>4. \A i \in 1 .. Len(b) : b[i] = w[Len(a) + i]
  BY HalvesOf
<1>5. Len(w) = Len(m) + Len(n)
  BY HalvesOf
<1>6. \A i \in 1 .. Len(n) : n[i] = w[Len(m) + i]
  BY HalvesOf
<1> DEFINE k == Len(a) - Len(m)
<1>7. k \in 0 .. Len(n)
  BY <1>1, <1>3, <1>5
<1>8. /\ SubSeq(n, k + 1, Len(n)) \in Seq(S)
      /\ Len(SubSeq(n, k + 1, Len(n))) = Len(n) - k
  BY <1>7, SuffixOf
<1>9. \A i \in 1 .. Len(n) - k : SubSeq(n, k + 1, Len(n))[i] = n[k + i]
  BY <1>7, SuffixOf
<1>10. Len(b) = Len(n) - k
  BY <1>1, <1>3, <1>5
<1>11. ASSUME NEW i \in 1 .. Len(b)
       PROVE  b[i] = SubSeq(n, k + 1, Len(n))[i]
  <2>1. /\ k + i \in 1 .. Len(n)
        /\ Len(m) + (k + i) = Len(a) + i
    BY <1>1, <1>7, <1>10
  <2>2. b[i] = w[Len(a) + i] /\ n[k + i] = w[Len(m) + (k + i)]
    BY <1>4, <1>6, <2>1
  <2>3. SubSeq(n, k + 1, Len(n))[i] = n[k + i]
    BY <1>9, <1>10
  <2> QED
    BY <2>1, <2>2, <2>3
<1>12. b = SubSeq(n, k + 1, Len(n))
  BY <1>8, <1>10, <1>11, SeqEqual
<1> QED
  BY <1>7, <1>12

\* When they are cut between, what follows the cut is the second one.
LEMMA CutBetween ==
  ASSUME NEW S, NEW b \in Seq(S), NEW m \in Seq(S), NEW n \in Seq(S),
         NEW w, Joined(w, m, b), Joined(w, m, n)
  PROVE  b = n
<1>1. /\ Len(b) \in Nat /\ Len(m) \in Nat /\ Len(n) \in Nat
  BY LenProperties
<1>2. Len(w) = Len(m) + Len(b)
  BY HalvesLen
<1>3. Len(w) = Len(m) + Len(n)
  BY HalvesLen
<1>4. \A i \in 1 .. Len(b) : b[i] = w[Len(m) + i]
  BY HalvesOf
<1>5. \A i \in 1 .. Len(n) : n[i] = w[Len(m) + i]
  BY HalvesOf
<1>6. Len(b) = Len(n)
  BY <1>1, <1>2, <1>3
<1> QED
  BY <1>4, <1>5, <1>6, SeqEqual

\* A read moves the front of what waits to the end of the buffer.
LEMMA Regroup ==
  ASSUME NEW a \in Seq(Token), NEW s \in Seq(Token), NEW k \in 0 .. Len(s)
  PROVE  (a \o SubSeq(s, 1, k)) \o SubSeq(s, k + 1, Len(s)) = a \o s
<1>1. /\ SubSeq(s, 1, k) \in Seq(Token)
      /\ SubSeq(s, k + 1, Len(s)) \in Seq(Token)
      /\ SubSeq(s, 1, k) \o SubSeq(s, k + 1, Len(s)) = s
  BY SplitType
<1>2. ASSUME NEW x \in Seq(Token), NEW y \in Seq(Token), x \o y = s
      PROVE  (a \o x) \o y = a \o s
  <2>1. (a \o x) \o y = a \o (x \o y)
    <3>1. a \in Seq(Token) /\ x \in Seq(Token) /\ y \in Seq(Token)
      OBVIOUS
    <3> QED
      BY ONLY <3>1, ConcatAssociative
  <2> QED
    BY <1>2, <2>1
<1> QED
  BY <1>1, <1>2, Zenon

\* A buffer that holds a delimiter, cut from a stream that has none before n,
\* holds at least n bytes.
LEMMA BufferReaches ==
  ASSUME NEW a \in Seq(Token), NEW b \in Seq(Token), NEW w, Joined(w, a, b),
         NEW m \in Seq(Token), NEW n \in Seq(Token), Joined(w, m, n),
         \A i \in 1 .. Len(m) - 1 : ~ m[i].delim,
         HasDelimiter(a)
  PROVE  Len(a) >= Len(m)
<1>1. PICK i \in 1 .. Len(a) : a[i].delim
  BY DEF HasDelimiter
<1>2. \A j \in 1 .. Len(a) : a[j] = w[j]
  BY HalvesOf
<1>3. \A j \in 1 .. Len(m) : m[j] = w[j]
  BY HalvesOf
<1>4. Len(a) \in Nat /\ Len(m) \in Nat
  BY LenProperties
<1>5. i \in 1 .. Len(m) => m[i].delim
  BY <1>1, <1>2, <1>3
<1>6. i \notin 1 .. Len(m) - 1
  BY <1>4, <1>5
<1> QED
  BY <1>4, <1>6

\* A buffer that holds a delimiter holds the whole of the only message there.
LEMMA WholeMessage ==
  ASSUME DelimiterFree, NEW kind \in PayloadKinds,
         NEW who \in Clients \cup {None}, NEW elem \in Elements \cup {None},
         NEW a \in Seq(Token), NEW b \in Seq(Token),
         Joined(Message(kind, who, elem), a, b),
         HasDelimiter(a)
  PROVE  a = Message(kind, who, elem) /\ b = <<>>
<1> DEFINE m == Message(kind, who, elem)
<1>1. m \in Seq(Token) /\ Len(m) \in Nat
  BY MessageTokens
<1>2. \A i \in 1 .. Len(m) - 1 : ~ m[i].delim
  BY MessageTokens
<1>3. <<>> \in Seq(Token) /\ Joined(m, m, <<>>)
  BY <1>1, ConcatEmptySeq DEF Joined
<1>4. Len(a) >= Len(m)
  BY <1>1, <1>2, <1>3, BufferReaches
<1>5. Len(m) = Len(a) + Len(b) /\ Len(a) \in Nat /\ Len(b) \in Nat
  BY HalvesOf
<1>6. Len(b) = 0
  BY <1>1, <1>4, <1>5
<1>7. b = <<>>
  BY <1>6, EmptySeq
<1> QED
  BY <1>7, ConcatEmptySeq DEF Joined

\* Nothing is cut into nothing, and holds no delimiter.
LEMMA NothingThere ==
  ASSUME NEW a \in Seq(Token), NEW b \in Seq(Token), Joined(<<>>, a, b)
  PROVE  a = <<>> /\ b = <<>> /\ ~ HasDelimiter(a)
<1>1. a = <<>> /\ b = <<>>
  <2>1. Len(<<>>) = Len(a) + Len(b) /\ Len(a) \in Nat /\ Len(b) \in Nat
    BY HalvesOf
  <2>2. Len(a) = 0 /\ Len(b) = 0
    BY <2>1
  <2> QED
    BY <2>2, EmptySeq
<1>2. ~ \E i \in 1 .. Len(<<>>) : a[i].delim
  BY EmptySeq
<1> QED
  BY <1>1, <1>2 DEF HasDelimiter

\* A string that starts with a payload of some kind starts with its tokens.
LEMMA ParsedTokens ==
  ASSUME NEW kind \in PayloadKinds, NEW who \in Clients \cup {None},
         NEW elem \in Elements \cup {None}, NEW q \in Seq(Token),
         IsPrefix(Payload(kind, who, elem), q)
  PROVE  /\ Len(Shape[kind]) \in Nat
         /\ 1 <= Len(Shape[kind])
         /\ Len(Shape[kind]) <= Len(q)
         /\ \A i \in 1 .. Len(Shape[kind]) : q[i].kind = kind
         /\ \A i \in 1 .. Len(Shape[kind]) : q[i].elem = elem
<1>1. Len(Shape[kind]) \in Nat /\ Len(Shape[kind]) > 0
  BY LenProperties, WireAssumption
<1> DEFINE p == Payload(kind, who, elem)
<1>2. p \in Seq(Token) /\ Len(p) = Len(Shape[kind])
  BY PayloadType
<1>3. Len(p) <= Len(q) /\ \A i \in 1 .. Len(p) : p[i] = q[i]
  BY <1>2, PrefixIndex
<1>4. ASSUME NEW i \in 1 .. Len(Shape[kind])
      PROVE  q[i].kind = kind /\ q[i].elem = elem
  <2>1. p[i] = q[i]
    BY <1>2, <1>3
  <2>2. p[i].kind = kind /\ p[i].elem = elem
    BY PayloadTokens
  <2> QED
    BY <2>1, <2>2
<1> QED
  BY <1>1, <1>2, <1>3, <1>4

\* Both read handlers look at a message without, or with, its delimiter.
LEMMA FrontTokens ==
  ASSUME NEW a \in Seq(Token), NEW q, q \in {a, EraseDelimiter(a)}
  PROVE  /\ q \in Seq(Token)
         /\ Len(q) \in Nat
         /\ Len(q) <= Len(a)
         /\ Len(a) >= 1 => Len(q) >= Len(a) - 1
         /\ \A i \in 1 .. Len(q) : q[i] = a[i]
<1>1. Len(a) \in Nat /\ \A i \in 1 .. Len(a) : a[i] \in Token
  BY LenProperties, ElementOfSeq
<1>2. CASE q = a
  BY <1>1, <1>2
<1>3. CASE q = EraseDelimiter(a)
  <2>1. q = SubSeq(a, 1, Len(a) - 1)
    BY <1>3 DEF EraseDelimiter, Front
  <2>2. \A i \in 1 .. Len(a) - 1 : a[i] \in Token
    BY <1>1
  <2>3. /\ q \in Seq(Token)
        /\ Len(q) = IF 1 <= Len(a) - 1 THEN Len(a) - 1 - 1 + 1 ELSE 0
        /\ \A i \in 1 .. Len(a) - 1 - 1 + 1 : q[i] = a[1 + i - 1]
    BY <1>1, <2>1, <2>2, SubSeqProperties
  <2> QED
    BY <1>1, <2>3
<1> QED
  BY <1>2, <1>3

\* What the client keeps of a whole reply is its payload, ...
LEMMA ReplyStr ==
  ASSUME DelimiterFree, NEW who \in Clients \cup {None},
         NEW elem \in Elements \cup {None}
  PROVE  /\ reply_str(Message("reply", who, elem)) \in Seq(Token)
         /\ Len(reply_str(Message("reply", who, elem))) = Len(Shape["reply"])
         /\ \A i \in 1 .. Len(Shape["reply"]) :
              reply_str(Message("reply", who, elem))[i]
                = Payload("reply", who, elem)[i]
<1> DEFINE m == Message("reply", who, elem)
           n == Len(Shape["reply"])
           I == {i \in 1 .. Len(m) : m[i].delim}
<1>1. "reply" \in PayloadKinds
  BY DEF PayloadKinds
<1>2. /\ m \in Seq(Token)
      /\ Len(m) = n + 1
      /\ n \in Nat
      /\ \A i \in 1 .. Len(m) - 1 : m[i] = Payload("reply", who, elem)[i]
      /\ m[Len(m)] = delimiter
  BY <1>1, MessageTokens, LenProperties, WireAssumption
<1>3. \A i \in 1 .. Len(m) - 1 : ~ m[i].delim
  BY <1>1, MessageTokens
<1>4. m[Len(m)].delim
  BY <1>2 DEF delimiter
<1>5. Len(m) \in I /\ \A i \in I : i = Len(m)
  BY <1>2, <1>3, <1>4
<1>6. SelectInSeq(m, LAMBDA t : t.delim) = Len(m)
  <2>1. I # {} /\ Min(I) = Len(m)
    <3>1. \A x \in I : x = Len(m)
      BY <1>5
    <3> HIDE DEF I
    <3> QED
      BY <1>2, <1>5, <3>1 DEF Min
  <2> QED
    BY <2>1 DEF SelectInSeq
<1>7. reply_str(m) = SubSeq(m, 1, n)
  BY <1>2, <1>6 DEF reply_str
<1>8. \A i \in 1 .. n : m[i] \in Token
  BY <1>2, ElementOfSeq
<1>9. /\ SubSeq(m, 1, n) \in Seq(Token)
      /\ Len(SubSeq(m, 1, n)) = IF 1 <= n THEN n - 1 + 1 ELSE 0
      /\ \A i \in 1 .. n - 1 + 1 : SubSeq(m, 1, n)[i] = m[1 + i - 1]
  BY <1>2, <1>8, SubSeqProperties
<1> QED
  BY <1>2, <1>7, <1>9

\* ... and it decodes to the element it was made for.
LEMMA ReplyDecodes ==
  ASSUME DelimiterFree, NEW c \in Clients, NEW elem \in Elements
  PROVE  decode_reply(c, reply_str(Message("reply", KeysFor(c), elem)))
           = {elem}
<1> DEFINE str == reply_str(Message("reply", KeysFor(c), elem))
<1>1. KeysFor(c) \in Clients \cup {None} /\ "reply" \in PayloadKinds
  BY DEF KeysFor, PayloadKinds
<1>2. /\ str \in Seq(Token)
      /\ Len(str) = Len(Shape["reply"])
      /\ \A i \in 1 .. Len(Shape["reply"]) :
           str[i] = Payload("reply", KeysFor(c), elem)[i]
  BY <1>1, ReplyStr
<1>3. Len(Shape["reply"]) \in Nat /\ Len(Shape["reply"]) > 0
  BY <1>1, LenProperties, WireAssumption
<1> HIDE DEF str
<1>e. elem \in Elements \cup {None}
  OBVIOUS
<1>4. IsPrefix(Payload("reply", KeysFor(c), elem), str)
  <2>1. /\ Payload("reply", KeysFor(c), elem) \in Seq(Token)
        /\ Len(Payload("reply", KeysFor(c), elem)) = Len(Shape["reply"])
    BY <1>1, <1>e, PayloadType
  <2> QED
    BY <1>2, <1>3, <2>1, PrefixIndex
<1>5. ASSUME NEW e \in Elements,
             IsPrefix(Payload("reply", KeysFor(c), e), str)
      PROVE  e = elem
  <2>1. str[1].elem = e
    <3>1. e \in Elements \cup {None}
      OBVIOUS
    <3> QED
      BY <1>1, <1>2, <1>3, <1>5, <3>1, ParsedTokens
  <2>2. str[1].elem = elem
    <3>1. 1 \in 1 .. Len(Shape["reply"])
      BY <1>3
    <3>2. Payload("reply", KeysFor(c), elem)[1].elem = elem
      BY <1>1, <1>e, <3>1, PayloadTokens
    <3> QED
      BY <1>2, <3>1, <3>2
  <2> QED
    BY <2>1, <2>2
<1>6. decode_reply(c, str)
        = {e \in Elements : IsPrefix(Payload("reply", KeysFor(c), e), str)}
  BY DEF decode_reply, KeysFor
<1>7. decode_reply(c, str) = {elem}
  BY <1>4, <1>5, <1>6
<1> QED
  BY <1>7 DEF str
=============================================================================
