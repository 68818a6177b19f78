---------------------------- MODULE TorPirProofs ----------------------------
(***************************************************************************)
(* IInv is inductive, and with it every answer is the one asked for.  One  *)
(* lemma per step that changes what is under way for a client; the steps   *)
(* that leave it as it was are all covered by Undisturbed.                 *)
(***************************************************************************)
EXTENDS TorPirLemmas, WellFoundedInduction

ClientInv(c) == SocketInv(c) /\ StreamInv(c) /\ AnswerInv(c)

\* A step that leaves alone what is under way for d, and does not take away
\* the keys it needs.
LEMMA Undisturbed ==
  ASSUME NEW d \in Clients, ClientInv(d),
         pc'[d] = pc[d], asked'[d] = asked[d], rounds'[d] = rounds[d],
         answer'[d] = answer[d], peer'[d] = peer[d],
         Inbound(d)' = Inbound(d), Outbound(d)' = Outbound(d),
         ~ Gone(d) => unsent'[d] = <<>>,
         Keyed(d) => Keyed(d)'
  PROVE  ClientInv(d)'
<1>1. SocketInv(d)'
  BY DEF ClientInv, SocketInv, Gone
<1>2. AnswerInv(d)'
  BY DEF ClientInv, AnswerInv
<1>3. Query(d)' = Query(d) /\ Reply(d)' = Reply(d) /\ Keys(d)' = Keys(d)
  BY DEF Query, Reply, Keys, KeysFor, Message, Payload, delimiter
<1>4. /\ KeysUnread(d) => KeysUnread(d)'
      /\ QueryUnderWay(d) => QueryUnderWay(d)'
      /\ ReplyUnderWay(d) => ReplyUnderWay(d)'
      /\ QueryCut(d) => QueryCut(d)'
  BY <1>3 DEF KeysUnread, QueryUnderWay, ReplyUnderWay, QueryCut
<1>5. StreamInv(d)'
  BY <1>3, <1>4 DEF ClientInv, StreamInv
<1> QED
  BY <1>1, <1>2, <1>5 DEF ClientInv

-----------------------------------------------------------------------------
\* Cutting a stream elsewhere does not change what is in it.
LEMMA ReadSome ==
  ASSUME TypeOK, NEW c \in Clients, read_some(c)
  PROVE  \A d \in Clients : Inbound(d)' = Inbound(d)
<1>1. PICK k \in 1 .. Len(c2s[c]) :
        /\ message_' = [message_ EXCEPT ![c] = @ \o SubSeq(c2s[c], 1, k)]
        /\ c2s' = [c2s EXCEPT ![c] = SubSeq(@, k + 1, Len(@))]
  BY DEF read_some
<1>2. c2s[c] \in Seq(Token) /\ message_[c] \in Seq(Token)
  BY DEF TypeOK, WireTypeOK, ServerTypeOK
<1>3. k \in 0 .. Len(c2s[c])
  BY <1>2, LenProperties
<1>4. /\ message_'[c] = message_[c] \o SubSeq(c2s[c], 1, k)
      /\ c2s'[c] = SubSeq(c2s[c], k + 1, Len(c2s[c]))
  BY <1>1 DEF TypeOK, WireTypeOK, ServerTypeOK
<1>7. Inbound(c)' = Inbound(c)
  BY <1>2, <1>3, <1>4, Regroup DEF Inbound
<1>8. ASSUME NEW d \in Clients, d # c PROVE Inbound(d)' = Inbound(d)
  <2>1. message_'[d] = message_[d] /\ c2s'[d] = c2s[d]
    BY <1>1, <1>8 DEF TypeOK, WireTypeOK, ServerTypeOK
  <2> QED
    BY <2>1 DEF Inbound
<1> QED
  BY <1>7, <1>8

\* The same on the client's side.
LEMMA ReadResponse ==
  ASSUME TypeOK, NEW c \in Clients, read_response(c)
  PROVE  \A d \in Clients : Outbound(d)' = Outbound(d)
<1>1. PICK k \in 1 .. Len(s2c[c]) :
        /\ response' = [response EXCEPT ![c] = @ \o SubSeq(s2c[c], 1, k)]
        /\ s2c' = [s2c EXCEPT ![c] = SubSeq(@, k + 1, Len(@))]
  BY DEF read_response
<1>2. s2c[c] \in Seq(Token) /\ response[c] \in Seq(Token)
  BY DEF TypeOK, WireTypeOK, ClientTypeOK
<1>3. k \in 0 .. Len(s2c[c])
  BY <1>2, LenProperties
<1>4. /\ response'[c] = response[c] \o SubSeq(s2c[c], 1, k)
      /\ s2c'[c] = SubSeq(s2c[c], k + 1, Len(s2c[c]))
  BY <1>1 DEF TypeOK, WireTypeOK, ClientTypeOK
<1>7. Outbound(c)' = Outbound(c)
  BY <1>2, <1>3, <1>4, Regroup DEF Outbound
<1>8. ASSUME NEW d \in Clients, d # c PROVE Outbound(d)' = Outbound(d)
  <2>1. response'[d] = response[d] /\ s2c'[d] = s2c[d]
    BY <1>1, <1>8 DEF TypeOK, WireTypeOK, ClientTypeOK
  <2> QED
    BY <2>1 DEF Outbound
<1> QED
  BY <1>7, <1>8

-----------------------------------------------------------------------------
\* Of a query that was cut, only the end is left.
LEMMA CutTokens ==
  ASSUME TypeOK, NEW c \in Clients, QueryCut(c)
  PROVE  \E k \in 1 .. Len(Query(c)) :
           /\ Len(Inbound(c)) = Len(Query(c)) - k
           /\ \A i \in 1 .. Len(Query(c)) - k :
                Inbound(c)[i] = Query(c)[k + i]
<1>1. PICK k \in 1 .. Len(Query(c)) :
        Inbound(c) = SubSeq(Query(c), k + 1, Len(Query(c)))
  BY DEF QueryCut
<1>2. Query(c) \in Seq(Token)
  BY MessageType DEF Query, TypeOK, ClientTypeOK, PayloadKinds
<1>3. k \in 0 .. Len(Query(c))
  BY <1>2, LenProperties
<1>4. Len(Inbound(c)) = Len(Query(c)) - k
  BY <1>1, <1>2, <1>3, SuffixOf
<1>5. \A i \in 1 .. Len(Query(c)) - k : Inbound(c)[i] = Query(c)[k + i]
  BY <1>1, <1>2, <1>3, SuffixOf
<1> QED
  BY <1>4, <1>5

\* A query the server can parse is the one its client is waiting on, whole:
\* not the keys of a second client, nor what handle_read_galkeys left of one.
LEMMA ParsedQuery ==
  ASSUME DelimiterFree, TypeOK, NEW c \in Clients, SocketInv(c), StreamInv(c),
         ~ Gone(c), pc[c] # "refused",
         HasDelimiter(message_[c]),
         NEW q, q \in {message_[c], EraseDelimiter(message_[c])},
         NEW e \in Elements, IsPrefix(Payload("query", c, e), q)
  PROVE  /\ pc[c] = "waiting" /\ QueryUnderWay(c)
         /\ message_[c] = Query(c) /\ c2s[c] = <<>>
         /\ e = asked[c]
<1> DEFINE a == message_[c]
           b == c2s[c]
<1>1. a \in Seq(Token) /\ b \in Seq(Token)
  BY DEF TypeOK, WireTypeOK, ServerTypeOK
<1>2. "query" \in PayloadKinds /\ "key" \in PayloadKinds
  BY DEF PayloadKinds
<1>3. /\ q \in Seq(Token)
      /\ Len(q) \in Nat
      /\ Len(q) <= Len(a)
      /\ Len(a) >= 1 => Len(q) >= Len(a) - 1
      /\ \A i \in 1 .. Len(q) : q[i] = a[i]
  BY <1>1, FrontTokens
<1>4. /\ Len(Shape["query"]) \in Nat
      /\ 1 <= Len(Shape["query"])
      /\ Len(Shape["query"]) <= Len(q)
      /\ \A i \in 1 .. Len(Shape["query"]) : q[i].kind = "query"
      /\ \A i \in 1 .. Len(Shape["query"]) : q[i].elem = e
  <2>1. c \in Clients \cup {None} /\ e \in Elements \cup {None}
    OBVIOUS
  <2> QED
    BY <1>2, <1>3, <2>1, ParsedTokens
<1>5. /\ 1 \in 1 .. Len(a)
      /\ a[1].kind = "query"
      /\ a[1].elem = e
  <2>1. 1 \in 1 .. Len(q) /\ 1 \in 1 .. Len(Shape["query"])
    BY <1>3, <1>4
  <2>2. q[1] = a[1] /\ q[1].kind = "query" /\ q[1].elem = e
    BY <1>3, <1>4, <2>1
  <2>3. Len(a) \in Nat
    BY <1>1, LenProperties
  <2> QED
    BY <1>3, <2>1, <2>2, <2>3
<1>j. Joined(Inbound(c), a, b)
  BY DEF Joined, Inbound
<1>6. Inbound(c) # <<>>
  BY <1>1, <1>j, NothingThere
<1>7. a[1] = Inbound(c)[1]
  BY <1>1, <1>5, <1>j, FirstHalf
<1>8. /\ Keys(c) \in Seq(Token)
      /\ Len(Keys(c)) \in Nat /\ Len(Keys(c)) >= 2
      /\ Keys(c)[1].kind = "key"
  <2>1. c \in Clients \cup {None} /\ None \in Elements \cup {None}
    OBVIOUS
  <2>2. /\ Keys(c) \in Seq(Token)
        /\ Len(Keys(c)) \in Nat /\ Len(Keys(c)) >= 2
        /\ \A i \in 1 .. Len(Keys(c)) - 1 : Keys(c)[i].kind = "key"
    BY <1>2, <2>1, MessageTokens DEF Keys
  <2> QED
    BY <2>2
<1>9. Inbound(c) # Keys(c)
  BY <1>5, <1>7, <1>8
<1>10. pc[c] = "waiting"
  <2>1. pc[c] \notin {"start", "connected"}
    BY <1>6 DEF StreamInv
  <2>2. pc[c] \notin {"sleeping", "ready"}
    BY <1>6, <1>9 DEF StreamInv
  <2>3. pc[c] \notin Over
    BY DEF SocketInv, Over, Gone
  <2> QED
    BY <2>1, <2>2, <2>3 DEF TypeOK, ClientTypeOK
<1>11. c \in Clients \cup {None} /\ asked[c] \in Elements \cup {None}
  BY DEF TypeOK, ClientTypeOK
<1>12. /\ Query(c) \in Seq(Token)
       /\ Len(Query(c)) \in Nat /\ Len(Query(c)) >= 2
       /\ Len(Query(c)) = Len(Shape["query"]) + 1
       /\ \A i \in 1 .. Len(Query(c)) - 1 : Query(c)[i].elem = asked[c]
       /\ Query(c)[Len(Query(c))] = delimiter
  BY <1>2, <1>11, MessageTokens DEF Query
<1>13. ~ KeysUnread(c)
  <2>1. Joined(Inbound(c), Keys(c), Query(c)) => Inbound(c)[1] = Keys(c)[1]
    BY <1>8, <1>12, FirstHalf
  <2>2. KeysUnread(c) => Joined(Inbound(c), Keys(c), Query(c))
    BY DEF KeysUnread, Joined
  <2> QED
    BY <1>5, <1>7, <1>8, <2>1, <2>2
<1>14. ~ ReplyUnderWay(c)
  BY <1>6 DEF ReplyUnderWay
<1>15. ~ QueryCut(c)
  <2> SUFFICES ASSUME QueryCut(c) PROVE FALSE
    OBVIOUS
  <2> DEFINE n == Len(Shape["query"])
             w == Inbound(c)
  <2>0. Len(a) \in Nat /\ Len(b) \in Nat
    BY <1>1, LenProperties
  <2>1. Len(w) = Len(a) + Len(b)
    BY <1>1, <1>j, HalvesLen
  <2>2. \A i \in 1 .. Len(a) : a[i] = w[i]
    BY <1>1, <1>j, FirstHalf
  <2>3. PICK k \in 1 .. Len(Query(c)) :
          /\ Len(w) = Len(Query(c)) - k
          /\ \A i \in 1 .. Len(Query(c)) - k : w[i] = Query(c)[k + i]
    BY CutTokens
  <2> HIDE DEF w
  <2>4. k = 1 /\ Len(a) = n
    <3>1. n \in Nat /\ 1 <= n /\ n <= Len(a) /\ Len(Query(c)) = n + 1
      BY <1>3, <1>4, <1>12, <2>0
    <3>a. Len(w) = Len(Query(c)) - k
      BY <2>3
    <3>b. k \in 1 .. Len(Query(c))
      BY <2>3
    <3> HIDE DEF a, b, n
    <3> QED
      BY <2>0, <2>1, <3>1, <3>a, <3>b
  <2>5. a[n] = Query(c)[n + 1]
    <3>1. n \in 1 .. Len(Query(c)) - k /\ n \in 1 .. Len(a) /\ k + n = n + 1
      BY <1>4, <1>12, <2>0, <2>4
    <3> QED
      BY <2>2, <2>3, <3>1
  <2>6. a[n].kind = "query"
    <3>1. n \in 1 .. Len(q) /\ n \in 1 .. n
      BY <1>3, <1>4
    <3> QED
      BY <1>3, <1>4, <3>1
  <2> QED
    BY <1>12, <2>5, <2>6 DEF delimiter
<1>16. QueryUnderWay(c)
  BY <1>10, <1>13, <1>14, <1>15 DEF StreamInv
<1>17. a = Query(c) /\ b = <<>>
  BY <1>1, <1>2, <1>11, <1>16, <1>j, WholeMessage DEF QueryUnderWay, Query
<1>18. e = asked[c]
  BY <1>5, <1>12, <1>17
<1> QED
  BY <1>10, <1>16, <1>17, <1>18

\* The same for the Galois keys: they are whole, with nothing behind them but
\* the query of a client that did not sleep long enough, or the end of it.
LEMMA ParsedKeys ==
  ASSUME DelimiterFree, TypeOK, NEW c \in Clients, SocketInv(c), StreamInv(c),
         ~ Gone(c), pc[c] # "refused", ~ Keyed(c),
         HasDelimiter(message_[c]),
         IsPrefix(Payload("key", c, None), EraseDelimiter(message_[c]))
  PROVE  \/ /\ pc[c] \in {"sleeping", "ready"}
            /\ c2s[c] = <<>>
            /\ Outbound(c) = <<>>
         \/ /\ pc[c] = "waiting"
            /\ \E k \in 0 .. Len(Query(c)) :
                 c2s[c] = SubSeq(Query(c), k + 1, Len(Query(c)))
            /\ message_[c] = Keys(c) => c2s[c] = Query(c)
            /\ Outbound(c) = <<>>
<1> DEFINE a == message_[c]
           b == c2s[c]
<1>1. a \in Seq(Token) /\ b \in Seq(Token)
  BY DEF TypeOK, WireTypeOK, ServerTypeOK
<1>2. "query" \in PayloadKinds /\ "key" \in PayloadKinds
  BY DEF PayloadKinds
<1>3. c \in Clients \cup {None} /\ None \in Elements \cup {None}
  OBVIOUS
<1>4. asked[c] \in Elements \cup {None}
  BY DEF TypeOK, ClientTypeOK
<1>j. Joined(Inbound(c), a, b)
  BY DEF Joined, Inbound
<1>5. Inbound(c) # <<>>
  BY <1>1, <1>j, NothingThere
<1>6. CASE pc[c] \in {"sleeping", "ready"}
  <2>1. Inbound(c) = Keys(c) /\ Outbound(c) = <<>>
    BY <1>5, <1>6 DEF StreamInv
  <2>2. b = <<>>
    BY <1>1, <1>2, <1>3, <1>j, <2>1, WholeMessage DEF Keys
  <2> QED
    BY <1>6, <2>1, <2>2
<1>7. pc[c] \notin {"start", "connected"}
  BY <1>5 DEF StreamInv
<1>8. pc[c] \notin Over
  BY DEF SocketInv, Over
<1>9. CASE pc[c] = "waiting"
  <2>1. KeysUnread(c) \/ QueryCut(c)
    BY <1>9 DEF StreamInv, QueryUnderWay, ReplyUnderWay
  <2>2. /\ Keys(c) \in Seq(Token)
        /\ Len(Keys(c)) \in Nat
        /\ \A i \in 1 .. Len(Keys(c)) - 1 : ~ Keys(c)[i].delim
    BY <1>2, <1>3, MessageTokens DEF Keys
  <2>3. /\ Query(c) \in Seq(Token)
        /\ Len(Query(c)) \in Nat
        /\ \A i \in 1 .. Len(Query(c)) - 1 : Query(c)[i].kind = "query"
        /\ Query(c)[Len(Query(c))] = delimiter
    BY <1>2, <1>3, <1>4, MessageTokens DEF Query
  <2>4. ~ QueryCut(c)
    <3> DEFINE q == EraseDelimiter(a)
    <3>1. q \in Seq(Token) /\ Len(q) \in Nat /\ Len(q) <= Len(a)
      BY <1>1, FrontTokens
    <3>2. \A i \in 1 .. Len(q) : q[i] = a[i]
      BY <1>1, FrontTokens
    <3>3. /\ Len(Shape["key"]) \in Nat
          /\ 1 <= Len(Shape["key"])
          /\ Len(Shape["key"]) <= Len(q)
          /\ \A i \in 1 .. Len(Shape["key"]) : q[i].kind = "key"
      BY <1>2, <1>3, <3>1, ParsedTokens
    <3>4. Len(a) \in Nat /\ Len(b) \in Nat
      BY <1>1, LenProperties
    <3> HIDE DEF q
    <3>5. 1 \in 1 .. Len(a) /\ a[1].kind = "key"
      <4>1. /\ 1 \in 1 .. Len(q)
            /\ 1 \in 1 .. Len(Shape["key"])
            /\ 1 \in 1 .. Len(a)
        BY <3>1, <3>3, <3>4
      <4> QED
        BY <3>2, <3>3, <4>1
    <3> SUFFICES ASSUME QueryCut(c) PROVE FALSE
      OBVIOUS
    <3> DEFINE w == Inbound(c)
    <3>6. Len(w) = Len(a) + Len(b)
      BY <1>1, <1>j, HalvesLen
    <3>7. \A i \in 1 .. Len(a) : a[i] = w[i]
      BY <1>1, <1>j, FirstHalf
    <3>8. PICK k \in 1 .. Len(Query(c)) :
            /\ Len(w) = Len(Query(c)) - k
            /\ \A i \in 1 .. Len(Query(c)) - k : w[i] = Query(c)[k + i]
      BY CutTokens
    <3> HIDE DEF w
    <3>11. /\ 1 \in 1 .. Len(Query(c)) - k
           /\ k + 1 \in 1 .. Len(Query(c))
      <4>a. Len(w) = Len(Query(c)) - k
        BY <3>8
      <4>b. 1 <= Len(a)
        BY <3>4, <3>5
      <4>1. Len(a) + Len(b) = Len(Query(c)) - k /\ 1 <= Len(a)
        BY <3>6, <4>a, <4>b
      <4>2. k \in 1 .. Len(Query(c)) /\ Len(Query(c)) \in Nat
        BY <2>3
      <4> HIDE DEF a, b
      <4> QED
        BY <3>4, <4>1, <4>2
    <3>12. Query(c)[k + 1].kind = "key"
      BY <3>5, <3>7, <3>8, <3>11
    <3>13. k + 1 \in 1 .. Len(Query(c)) - 1 \/ k + 1 = Len(Query(c))
      BY <2>3, <3>11
    <3> QED
      BY <2>3, <3>12, <3>13 DEF delimiter
  <2>5. KeysUnread(c) /\ Joined(Inbound(c), Keys(c), Query(c))
    BY <2>1, <2>4 DEF KeysUnread, Joined
  <2>6. Len(a) >= Len(Keys(c))
    BY <1>1, <1>j, <2>2, <2>3, <2>5, BufferReaches
  <2>7. \E k \in 0 .. Len(Query(c)) :
          b = SubSeq(Query(c), k + 1, Len(Query(c)))
    <3> HIDE DEF a, b
    <3>1. PICK w : w = Inbound(c)
      OBVIOUS
    <3>2. Joined(w, a, b) /\ Joined(w, Keys(c), Query(c))
      BY <1>j, <2>5, <3>1
    <3> QED
      BY <1>1, <2>2, <2>3, <2>6, <3>2, CutInSecond
  <2>8. a = Keys(c) => b = Query(c)
    BY <1>1, <1>j, <2>2, <2>3, <2>5, CutBetween
  <2> QED
    BY <1>9, <2>5, <2>7, <2>8 DEF KeysUnread
<1> QED
  BY <1>6, <1>7, <1>8, <1>9 DEF TypeOK, ClientTypeOK

-----------------------------------------------------------------------------
\* What generate_reply and the write of its result do to every client.
LEMMA Responded ==
  ASSUME DelimiterFree, WholeWrites, TypeOK,
         NEW c \in Clients, \A d \in Clients : ClientInv(d),
         HasDelimiter(message_[c]),
         NEW q, q \in {message_[c], EraseDelimiter(message_[c])},
         NEW completion, respond(c, q, completion),
         UNCHANGED <<is_galkey_set, galoisKeys_, backlog, c2s, peer>>,
         UNCHANGED clientVars
  PROVE  /\ \A d \in Clients : ClientInv(d)'
         /\ up' /\ ~ Gone(c) /\ pc[c] # "refused" => ReplyUnderWay(c)'
<1> USE DEF clientVars
<1>1. CASE End("threw") /\ UNCHANGED <<handler, message_, unsent, s2c>>
  <2>0. ~ up'
    BY <1>1 DEF End
  <2> SUFFICES ASSUME NEW d \in Clients PROVE ClientInv(d)'
    BY <2>0
  <2>1. Inbound(d)' = Inbound(d) /\ Outbound(d)' = Outbound(d)
    BY <1>1 DEF Inbound, Outbound
  <2>2. Keyed(d) => Keyed(d)'
    BY DEF Keyed, KeysFor
  <2>3. ~ Gone(d) => unsent'[d] = <<>>
    BY <1>1 DEF ClientInv, SocketInv
  <2> QED
    BY <2>1, <2>2, <2>3, Undisturbed
<1>2. CASE /\ \E e \in Elements :
                /\ IsPrefix(Payload("query", c, e), q)
                /\ async_write(c, Message("reply", galoisKeys_, e), completion)
           /\ message_' = [message_ EXCEPT ![c] = <<>>]
  <2>1. PICK e \in Elements :
          /\ IsPrefix(Payload("query", c, e), q)
          /\ async_write(c, Message("reply", galoisKeys_, e), completion)
    BY <1>2
  <2> DEFINE r == Message("reply", galoisKeys_, e)
  <2>2. r \in Seq(Token) /\ Len(r) \in Nat
    <3>1. r \in Seq(Token)
      BY MessageType DEF TypeOK, ServerTypeOK, PayloadKinds
    <3> QED
      BY <3>1, LenProperties
  <2>3. PICK k \in 0 .. Len(r) :
          /\ ~ Gone(c) => k = Len(r)
          /\ s2c' = [s2c EXCEPT ![c] = @ \o SubSeq(r, 1, k)]
          /\ unsent'[c] = SubSeq(r, k + 1, Len(r))
          /\ \A d \in Clients \ {c} :
               unsent[d] = <<>> => unsent'[d] = <<>>
    <3> DEFINE K == IF Gone(c) THEN {0, Len(r)}
                    ELSE IF WholeWrites THEN {Len(r)} ELSE 0 .. Len(r)
    <3>1. PICK k \in K, over \in SUBSET Overwritable(c, r) :
            /\ s2c' = [s2c EXCEPT ![c] = @ \o SubSeq(r, 1, k)]
            /\ unsent' = [d \in Clients |->
                 IF d = c THEN SubSeq(r, k + 1, Len(r))
                 ELSE IF d \in over
                   THEN SubSeq(r, Len(r) - Len(unsent[d]) + 1, Len(r))
                 ELSE unsent[d]]
      <4> HIDE DEF r
      <4> QED
        BY <2>1 DEF async_write, r
    <3>2. k \in 0 .. Len(r) /\ (~ Gone(c) => k = Len(r))
      BY <2>2, <3>1
    <3>3. unsent'[c] = SubSeq(r, k + 1, Len(r))
      BY <3>1
    <3>4. ASSUME NEW d \in Clients \ {c}, unsent[d] = <<>>
          PROVE  unsent'[d] = <<>>
      <4>1. d \notin over
        BY <3>4 DEF Overwritable
      <4> QED
        BY <3>1, <3>4, <4>1
    <3> QED
      BY <3>1, <3>2, <3>3, <3>4
  <2>4. ASSUME NEW d \in Clients, d # c PROVE ClientInv(d)'
    <3>1. /\ message_'[d] = message_[d] /\ s2c'[d] = s2c[d]
          /\ unsent[d] = <<>> => unsent'[d] = <<>>
      BY <1>2, <2>3, <2>4 DEF TypeOK, WireTypeOK, ServerTypeOK
    <3>2. Inbound(d)' = Inbound(d) /\ Outbound(d)' = Outbound(d)
      BY <3>1 DEF Inbound, Outbound
    <3>3. Keyed(d) => Keyed(d)'
      BY DEF Keyed, KeysFor
    <3>4. ~ Gone(d) => unsent'[d] = <<>>
      BY <3>1 DEF ClientInv, SocketInv
    <3> QED
      BY <3>2, <3>3, <3>4, Undisturbed
  <2>5. ~ Gone(c) => unsent'[c] = <<>>
    <3>1. SubSeq(r, Len(r) + 1, Len(r)) = <<>>
      BY <2>2, SubSeqEmpty
    <3> QED
      BY <2>3, <3>1 DEF TypeOK, ServerTypeOK
  <2>6. ASSUME Gone(c) \/ pc[c] = "refused"
       PROVE  ClientInv(c)'
    <3>1. SocketInv(c)'
      BY <2>5 DEF ClientInv, SocketInv, Gone
    <3>2. AnswerInv(c)'
      BY DEF ClientInv, AnswerInv
    <3>3. pc[c] \notin {"start", "connected", "sleeping", "ready", "waiting"}
      BY <2>6 DEF ClientInv, SocketInv, Gone
    <3>4. StreamInv(c)'
      BY <3>3 DEF StreamInv
    <3> QED
      BY <3>1, <3>2, <3>4 DEF ClientInv
  <2>7. ASSUME ~ Gone(c) /\ pc[c] # "refused"
       PROVE  ClientInv(c)' /\ ReplyUnderWay(c)'
    <3>1. /\ pc[c] = "waiting" /\ QueryUnderWay(c)
          /\ message_[c] = Query(c) /\ c2s[c] = <<>>
          /\ e = asked[c]
      BY <2>1, <2>7, ParsedQuery DEF ClientInv
    <3>2. r = Reply(c) /\ Reply(c)' = Reply(c)
      BY <3>1 DEF QueryUnderWay, Keyed, Reply, KeysFor, Message, Payload,
                  delimiter
    <3>3. response[c] = <<>> /\ s2c[c] = <<>>
      <4>1. response[c] \in Seq(Token) /\ s2c[c] \in Seq(Token)
        BY DEF TypeOK, WireTypeOK, ClientTypeOK
      <4>2. Joined(<<>>, response[c], s2c[c])
        BY <3>1 DEF QueryUnderWay, Outbound, Joined
      <4> QED
        BY <4>1, <4>2, NothingThere
    <3>4. s2c'[c] = r
      <4>1. SubSeq(r, 1, Len(r)) = r /\ <<>> \o r = r
        BY <2>2, SubSeqFull, ConcatEmptySeq
      <4> HIDE DEF r
      <4> QED
        BY <2>3, <2>7, <3>3, <4>1 DEF TypeOK, WireTypeOK
    <3>5. Outbound(c)' = Reply(c)'
      <4>1. <<>> \o r = r
        BY <2>2, ConcatEmptySeq
      <4> QED
        BY <3>2, <3>3, <3>4, <4>1 DEF Outbound
    <3>6. Inbound(c)' = <<>>
      BY <1>2, <3>1 DEF Inbound, TypeOK, ServerTypeOK
    <3>7. Keyed(c)'
      BY <3>1 DEF QueryUnderWay, Keyed, KeysFor
    <3>8. ReplyUnderWay(c)'
      BY <3>5, <3>6, <3>7 DEF ReplyUnderWay
    <3>9. StreamInv(c)'
      BY <3>1, <3>8 DEF ClientInv, StreamInv
    <3>10. SocketInv(c)'
      BY <2>5 DEF ClientInv, SocketInv, Gone
    <3>11. AnswerInv(c)'
      BY DEF ClientInv, AnswerInv
    <3> QED
      BY <3>8, <3>9, <3>10, <3>11 DEF ClientInv
  <2> QED
    BY <2>4, <2>6, <2>7
<1> QED
  BY <1>1, <1>2 DEF respond, cleared

\* What a parsed set of keys does: only now can the replies to c be computed.
LEMMA KeysRead ==
  ASSUME DelimiterFree, TypeOK, KeyInv,
         NEW c \in Clients, \A d \in Clients : ClientInv(d),
         handle_read_galkeys(c), galoisKeys_' = c,
         message_' = [message_ EXCEPT ![c] = <<>>],
         IsPrefix(Payload("key", c, None), EraseDelimiter(message_[c])),
         UNCHANGED clientVars
  PROVE  \A d \in Clients : ClientInv(d)'
<1> USE DEF clientVars
<1>1. /\ Setup = "PIR" /\ galoisKeys_ = None
      /\ UNCHANGED <<unsent, backlog, c2s, s2c, peer>>
  BY DEF handle_read_galkeys, KeyInv
<1>2. \A d \in Clients : ~ Keyed(d)
  BY <1>1, WireAssumption DEF Keyed, KeysFor
<1>3. Keyed(c)'
  BY <1>1 DEF Keyed, KeysFor
<1>4. ASSUME NEW d \in Clients, d # c PROVE ClientInv(d)'
  <2>1. message_'[d] = message_[d]
    BY <1>4 DEF TypeOK, ServerTypeOK
  <2>2. Inbound(d)' = Inbound(d) /\ Outbound(d)' = Outbound(d)
    BY <1>1, <2>1 DEF Inbound, Outbound
  <2>3. ~ Gone(d) => unsent'[d] = <<>>
    BY <1>1 DEF ClientInv, SocketInv
  <2> QED
    BY <1>1, <1>2, <2>2, <2>3, Undisturbed
<1>5. SocketInv(c)' /\ AnswerInv(c)'
  BY <1>1 DEF ClientInv, SocketInv, AnswerInv, Gone
<1>6. ASSUME Gone(c) \/ pc[c] = "refused"
     PROVE  ClientInv(c)'
  <2>1. pc[c] \notin {"start", "connected", "sleeping", "ready", "waiting"}
    BY <1>6 DEF ClientInv, SocketInv, Gone
  <2>2. StreamInv(c)'
    BY <2>1 DEF StreamInv
  <2> QED
    BY <1>5, <2>2 DEF ClientInv
<1>7. ASSUME ~ Gone(c) /\ pc[c] # "refused"
     PROVE  ClientInv(c)'
  <2>1. HasDelimiter(message_[c])
    BY <1>7 DEF handle_read_galkeys, ReadFailed, Gone
  <2>2. \/ /\ pc[c] \in {"sleeping", "ready"}
           /\ c2s[c] = <<>>
           /\ Outbound(c) = <<>>
        \/ /\ pc[c] = "waiting"
           /\ \E k \in 0 .. Len(Query(c)) :
                c2s[c] = SubSeq(Query(c), k + 1, Len(Query(c)))
           /\ message_[c] = Keys(c) => c2s[c] = Query(c)
           /\ Outbound(c) = <<>>
    BY <1>2, <1>7, <2>1, ParsedKeys DEF ClientInv
  <2>3. Inbound(c)' = c2s[c] /\ Outbound(c)' = Outbound(c)
    <3>1. message_'[c] = <<>> /\ c2s[c] \in Seq(Token)
      BY DEF TypeOK, WireTypeOK, ServerTypeOK
    <3>2. <<>> \o c2s[c] = c2s[c]
      BY <3>1, ConcatEmptySeq
    <3> QED
      BY <1>1, <3>1, <3>2 DEF Inbound, Outbound
  <2>4. CASE pc[c] \in {"sleeping", "ready"}
    <3>1. StreamInv(c)'
      BY <1>3, <2>2, <2>3, <2>4 DEF StreamInv
    <3> QED
      BY <1>5, <3>1 DEF ClientInv
  <2>5. CASE pc[c] = "waiting"
    <3>1. Query(c)' = Query(c)
      BY DEF Query, Message, Payload, delimiter
    <3>2. Query(c) \in Seq(Token) /\ Len(Query(c)) \in Nat
      <4>1. Query(c) \in Seq(Token)
        BY MessageType DEF Query, TypeOK, ClientTypeOK, PayloadKinds
      <4> QED
        BY <4>1, LenProperties
    <3>3. PICK k \in 0 .. Len(Query(c)) :
            c2s[c] = SubSeq(Query(c), k + 1, Len(Query(c)))
      BY <2>2, <2>5
    <3>4. CASE k = 0
      <4>1. c2s[c] = Query(c)
        BY <3>2, <3>3, <3>4, SubSeqFull
      <4>2. QueryUnderWay(c)'
        BY <1>3, <2>2, <2>3, <2>5, <3>1, <4>1 DEF QueryUnderWay
      <4>3. StreamInv(c)'
        BY <2>5, <4>2 DEF ClientInv, StreamInv
      <4> QED
        BY <1>5, <4>3 DEF ClientInv
    <3>5. CASE k # 0
      <4>1. k \in 1 .. Len(Query(c))
        BY <3>2, <3>3, <3>5
      <4>2. QueryCut(c)'
        BY <2>2, <2>3, <2>5, <3>1, <3>3, <4>1 DEF QueryCut
      <4>3. StreamInv(c)'
        BY <2>5, <4>2 DEF ClientInv, StreamInv
      <4> QED
        BY <1>5, <4>3 DEF ClientInv
    <3> QED
      BY <3>4, <3>5
  <2> QED
    BY <2>2, <2>4, <2>5
<1> QED
  BY <1>4, <1>6, <1>7

-----------------------------------------------------------------------------
\* Every other step of the server leaves what is under way as it was.
LEMMA ServerStepInv ==
  ASSUME DelimiterFree, WholeWrites, IInv,
         NEW c \in Clients, ServerStep(c), UNCHANGED clientVars
  PROVE  \A d \in Clients : ClientInv(d)'
<1> USE DEF clientVars
<1>1. TypeOK /\ KeyInv /\ \A d \in Clients : ClientInv(d)
  BY DEF IInv, ClientInv
<1>2. ASSUME UNCHANGED <<galoisKeys_, peer>>,
             \A d \in Clients : Inbound(d)' = Inbound(d),
             \A d \in Clients : Outbound(d)' = Outbound(d),
             \A d \in Clients : ~ Gone(d) => unsent'[d] = <<>>
      PROVE  \A d \in Clients : ClientInv(d)'
  <2> SUFFICES ASSUME NEW d \in Clients PROVE ClientInv(d)'
    OBVIOUS
  <2>1. Keyed(d) => Keyed(d)'
    BY <1>2 DEF Keyed, KeysFor
  <2> QED
    BY <1>1, <1>2, <2>1, Undisturbed
<1>3. \A d \in Clients : ~ Gone(d) => unsent[d] = <<>>
  BY <1>1 DEF ClientInv, SocketInv
<1>4. ASSUME UNCHANGED <<galoisKeys_, peer, message_, c2s, s2c, unsent>>
      PROVE  \A d \in Clients : ClientInv(d)'
  <2>1. \A d \in Clients : Inbound(d)' = Inbound(d) /\ Outbound(d)' = Outbound(d)
    BY <1>4 DEF Inbound, Outbound
  <2> QED
    BY <1>2, <1>3, <1>4, <2>1
<1>5. CASE handle_accept(c)
  BY <1>4, <1>5 DEF handle_accept
<1>6. CASE read_some(c)
  <2>1. \A d \in Clients : Inbound(d)' = Inbound(d)
    BY <1>1, <1>6, ReadSome
  <2>2. UNCHANGED <<galoisKeys_, peer, s2c, unsent>>
    BY <1>6 DEF read_some
  <2>3. \A d \in Clients : Outbound(d)' = Outbound(d)
    BY <2>2 DEF Outbound
  <2> QED
    BY <1>2, <1>3, <2>1, <2>2, <2>3
<1>7. ASSUME NEW q, q \in {message_[c], EraseDelimiter(message_[c])},
             NEW completion,
             \/ exit_on_error(c)
             \/ HasDelimiter(message_[c]) /\ respond(c, q, completion),
             UNCHANGED <<is_galkey_set, galoisKeys_, backlog, c2s, peer>>
      PROVE  \A d \in Clients : ClientInv(d)'
  <2>1. CASE exit_on_error(c)
    BY <1>4, <1>7, <2>1 DEF exit_on_error
  <2>2. CASE HasDelimiter(message_[c]) /\ respond(c, q, completion)
    BY <1>1, <1>7, <2>2, Responded
  <2> QED
    BY <1>7, <2>1, <2>2
<1>8. CASE handle_read_plain(c)
  BY <1>7, <1>8 DEF handle_read_plain
<1>9. CASE handle_read_pir(c)
  BY <1>7, <1>9 DEF handle_read_pir
<1>10. CASE handle_read_galkeys(c)
  <2>1. CASE /\ IsPrefix(Payload("key", c, None), EraseDelimiter(message_[c]))
             /\ galoisKeys_' = c
             /\ message_' = [message_ EXCEPT ![c] = <<>>]
    BY <1>1, <1>10, <2>1, KeysRead
  <2>2. CASE UNCHANGED <<galoisKeys_, message_, unsent, c2s, s2c, peer>>
    BY <1>4, <2>2
  <2> QED
    BY <1>10, <2>1, <2>2 DEF handle_read_galkeys, cleared
<1>11. CASE write_some(c)
  BY <1>3, <1>11 DEF write_some
<1>12. CASE handle_write_plain(c) \/ handle_write_pir(c)
  <2>1. PICK next : write_done(c, next)
    BY <1>12 DEF handle_write_plain, handle_write_pir
  <2>2. UNCHANGED <<galoisKeys_, message_, c2s, s2c, peer>>
    BY <2>1 DEF write_done
  <2>3. unsent' = unsent \/ unsent' = [unsent EXCEPT ![c] = <<>>]
    BY <2>1 DEF write_done
  <2>4. \A d \in Clients : ~ Gone(d) => unsent'[d] = <<>>
    BY <1>1, <1>3, <2>3 DEF TypeOK, ServerTypeOK
  <2>5. \A d \in Clients : Inbound(d)' = Inbound(d) /\ Outbound(d)' = Outbound(d)
    BY <2>2 DEF Inbound, Outbound
  <2> QED
    BY <1>2, <2>2, <2>4, <2>5
<1> QED
  BY <1>5, <1>6, <1>8, <1>9, <1>10, <1>11, <1>12 DEF ServerStep

\* The keys of the first connection, and no others, reach galoisKeys_[0].
LEMMA KeyStepInv ==
  ASSUME TypeOK, KeyInv, NEW c \in Clients, ServerStep(c)
  PROVE  KeyInv'
<1>1. CASE handle_accept(c)
  <2>1. CASE UNCHANGED <<is_galkey_set, handler>>
    BY <1>1, <2>1 DEF handle_accept, KeyInv
  <2>2. CASE start(c)
    <3>1. galoisKeys_' = galoisKeys_
      BY <1>1 DEF handle_accept
    <3>2. CASE Setup = "PIR" /\ ~ is_galkey_set
      <4>1. /\ is_galkey_set'
            /\ handler' = [handler EXCEPT ![c] = "handle_read_galkeys"]
        BY <2>2, <3>2 DEF start
      <4>2. \A d \in Clients : handler'[d] = "handle_read_galkeys" => d = c
        BY <3>2, <4>1 DEF KeyInv, TypeOK, ServerTypeOK
      <4>3. galoisKeys_ = None
        BY <3>2 DEF KeyInv
      <4> QED
        BY <3>1, <3>2, <4>1, <4>2, <4>3 DEF KeyInv
    <3>3. CASE ~ (Setup = "PIR" /\ ~ is_galkey_set)
      <4>1. /\ is_galkey_set' <=> is_galkey_set
            /\ handler'[c] # "handle_read_galkeys"
            /\ \A d \in Clients : d # c => handler'[d] = handler[d]
        BY <2>2, <3>3, WireAssumption DEF start, TypeOK, ServerTypeOK
      <4>2. \A d \in Clients : handler'[d] = "handle_read_galkeys"
                                => handler[d] = "handle_read_galkeys"
        BY <4>1
      <4> QED
        BY <3>1, <4>1, <4>2 DEF KeyInv
    <3> QED
      BY <3>2, <3>3
  <2> QED
    BY <1>1, <2>1, <2>2 DEF handle_accept
<1>2. ASSUME UNCHANGED <<is_galkey_set, galoisKeys_>>,
             \A d \in Clients : handler'[d] = "handle_read_galkeys"
                                => handler[d] = "handle_read_galkeys"
      PROVE  KeyInv'
  BY <1>2 DEF KeyInv
<1>3. CASE read_some(c) \/ write_some(c)
  BY <1>2, <1>3 DEF read_some, write_some
<1>4. CASE handle_read_plain(c) \/ handle_read_pir(c)
  <2>1. UNCHANGED <<is_galkey_set, galoisKeys_>>
    BY <1>4 DEF handle_read_plain, handle_read_pir
  <2>2. \/ UNCHANGED handler
        \/ handler' = [handler EXCEPT ![c] = "handle_write_plain"]
        \/ handler' = [handler EXCEPT ![c] = "handle_write_pir"]
    BY <1>4 DEF handle_read_plain, handle_read_pir, exit_on_error, respond,
                async_write
  <2> QED
    BY <1>2, <2>1, <2>2 DEF TypeOK, ServerTypeOK
<1>5. CASE handle_write_plain(c) \/ handle_write_pir(c)
  <2>1. UNCHANGED <<is_galkey_set, galoisKeys_>>
    BY <1>5 DEF handle_write_plain, handle_write_pir, write_done
  <2>2. \/ handler' = [handler EXCEPT ![c] = "handle_read_plain"]
        \/ handler' = [handler EXCEPT ![c] = "handle_read_pir"]
        \/ handler' = [handler EXCEPT ![c] = "deleted"]
    BY <1>5 DEF handle_write_plain, handle_write_pir, write_done
  <2> QED
    BY <1>2, <2>1, <2>2 DEF TypeOK, ServerTypeOK
<1>6. CASE handle_read_galkeys(c)
  <2>1. CASE UNCHANGED <<is_galkey_set, galoisKeys_, handler>>
    BY <1>2, <2>1
  <2>2. CASE start(c)
    <3>1. /\ Setup = "PIR" /\ is_galkey_set
          /\ \A d \in Clients : handler[d] = "handle_read_galkeys" => d = c
      BY <1>6 DEF handle_read_galkeys, KeyInv
    <3>2. /\ is_galkey_set'
          /\ handler' = [handler EXCEPT ![c] = "handle_read_pir"]
      BY <2>2, <3>1 DEF start
    <3>3. \A d \in Clients : handler'[d] # "handle_read_galkeys"
      BY <3>1, <3>2 DEF TypeOK, ServerTypeOK
    <3> QED
      BY <3>1, <3>2, <3>3 DEF KeyInv
  <2> QED
    BY <1>6, <2>1, <2>2 DEF handle_read_galkeys, cleared
<1> QED
  BY <1>1, <1>3, <1>4, <1>5, <1>6 DEF ServerStep

-----------------------------------------------------------------------------
\* The step of one client leaves another where it is,
LEMMA OtherUntouched ==
  ASSUME TypeOK, NEW c \in Clients, ClientStep(c) \/ killed(c),
         NEW d \in Clients, d # c
  PROVE  /\ pc'[d] = pc[d] /\ asked'[d] = asked[d] /\ rounds'[d] = rounds[d]
         /\ answer'[d] = answer[d] /\ peer'[d] = peer[d]
         /\ response'[d] = response[d] /\ c2s'[d] = c2s[d] /\ s2c'[d] = s2c[d]
<1> USE DEF TypeOK, WireTypeOK, ClientTypeOK, goto
<1>1. CASE connect(c)
  BY <1>1 DEF connect
<1>2. CASE send_galois_keys(c)
  BY <1>2 DEF send_galois_keys
<1>3. CASE wake_up(c)
  BY <1>3 DEF wake_up, wireVars
<1>4. CASE query(c)
  BY <1>4 DEF query
<1>5. CASE read_response(c)
  BY <1>5 DEF read_response
<1>6. CASE receive(c)
  BY <1>6 DEF receive, fresh_response, Throw, hang_up
<1>7. CASE return_0(c)
  BY <1>7 DEF return_0, hang_up
<1>8. CASE throw_broken(c)
  BY <1>8 DEF throw_broken, Throw, hang_up
<1>9. CASE killed(c)
  BY <1>9 DEF killed
<1> QED
  BY <1>1, <1>2, <1>3, <1>4, <1>5, <1>6, <1>7, <1>8, <1>9 DEF ClientStep

\* and what holds of it.
LEMMA OtherClient ==
  ASSUME TypeOK, NEW c \in Clients, ClientStep(c) \/ killed(c),
         UNCHANGED serverVars,
         NEW d \in Clients, d # c, ClientInv(d)
  PROVE  ClientInv(d)'
<1> USE DEF serverVars
<1>1. /\ pc'[d] = pc[d] /\ asked'[d] = asked[d] /\ rounds'[d] = rounds[d]
      /\ answer'[d] = answer[d] /\ peer'[d] = peer[d]
      /\ response'[d] = response[d] /\ c2s'[d] = c2s[d] /\ s2c'[d] = s2c[d]
  BY OtherUntouched
<1>2. Inbound(d)' = Inbound(d) /\ Outbound(d)' = Outbound(d)
  BY <1>1 DEF Inbound, Outbound
<1>3. ~ Gone(d) => unsent'[d] = <<>>
  BY DEF ClientInv, SocketInv
<1>4. Keyed(d) => Keyed(d)'
  BY DEF Keyed, KeysFor
<1> QED
  BY <1>1, <1>2, <1>3, <1>4, Undisturbed

\* A client that is over has nothing under way that matters.
LEMMA ClientOver ==
  ASSUME NEW c \in Clients, ClientInv(c), TypeOK, TypeOK',
         pc'[c] \in {"done", "aborted", "killed"},
         pc'[c] = "done" => pc[c] = "ready",
         peer'[c] \in {"closed", "reset"},
         UNCHANGED <<asked, answer, rounds>>
  PROVE  ClientInv(c)'
<1>1. SocketInv(c)'
  BY DEF SocketInv, Gone
<1>2. StreamInv(c)'
  BY DEF StreamInv
<1>3. AnswerInv(c)'
  BY DEF ClientInv, AnswerInv
<1> QED
  BY <1>1, <1>2, <1>3 DEF ClientInv

\* The keys, or a query, are written behind what is there already.
LEMMA KeysSent ==
  ASSUME TypeOK, NEW c \in Clients, ClientInv(c), send_galois_keys(c),
         Setup = "PIR", UNCHANGED serverVars
  PROVE  ClientInv(c)'
<1> USE DEF serverVars
<1>1. Keys(c) \in Seq(Token)
  BY MessageType DEF Keys, PayloadKinds
<1>2. Joined(<<>>, message_[c], c2s[c]) /\ Outbound(c) = <<>>
  BY DEF send_galois_keys, ClientInv, StreamInv, Inbound, Joined
<1>3. message_[c] = <<>> /\ c2s[c] = <<>>
  BY <1>2, NothingThere DEF TypeOK, WireTypeOK, ServerTypeOK
<1>4. c2s'[c] = <<>> \o Keys(c)
  BY <1>3 DEF send_galois_keys, TypeOK, WireTypeOK, Keys
<1>5. Inbound(c)' = Keys(c)'
  <2>1. <<>> \o Keys(c) = Keys(c)
    BY <1>1, ConcatEmptySeq
  <2>2. Keys(c)' = Keys(c)
    BY DEF Keys, Message, Payload, delimiter
  <2> QED
    BY <1>3, <1>4, <2>1, <2>2 DEF Inbound
<1>6. Outbound(c)' = <<>>
  BY <1>2 DEF send_galois_keys, Outbound
<1>7. pc'[c] = "sleeping" /\ pc[c] = "connected"
  BY DEF send_galois_keys, goto, TypeOK, ClientTypeOK
<1>8. StreamInv(c)'
  BY <1>5, <1>6, <1>7 DEF StreamInv
<1>9. SocketInv(c)' /\ AnswerInv(c)'
  BY <1>7 DEF send_galois_keys, ClientInv, SocketInv, AnswerInv, Gone
<1> QED
  BY <1>8, <1>9 DEF ClientInv

\* The query is all there is, or follows the keys.
LEMMA QuerySent ==
  ASSUME TypeOK, NEW c \in Clients, ClientInv(c), query(c),
         UNCHANGED serverVars
  PROVE  /\ ClientInv(c)'
         /\ \/ QueryUnderWay(c)'
            \/ KeysUnread(c)' /\ Inbound(c) = Keys(c)
<1> USE DEF serverVars
<1>1. PICK e \in Elements :
        /\ asked' = [asked EXCEPT ![c] = e]
        /\ c2s' = [c2s EXCEPT ![c] = @ \o Message("query", c, e)]
  BY DEF query
<1> DEFINE q == Message("query", c, e)
<1>2. asked'[c] = e /\ c2s'[c] = c2s[c] \o q
  BY <1>1 DEF TypeOK, WireTypeOK, ClientTypeOK
<1>3. Query(c)' = q /\ Keys(c)' = Keys(c)
  BY <1>2 DEF Query, Keys, Message, Payload, delimiter
<1>4. q \in Seq(Token) /\ c2s[c] \in Seq(Token) /\ message_[c] \in Seq(Token)
  BY MessageType DEF PayloadKinds, TypeOK, WireTypeOK, ServerTypeOK
<1> HIDE DEF q
<1>5. Inbound(c)' = Inbound(c) \o q
  <2>1. Inbound(c)' = message_[c] \o (c2s[c] \o q)
    BY <1>2 DEF Inbound
  <2>2. (message_[c] \o c2s[c]) \o q = message_[c] \o (c2s[c] \o q)
    <3>1. ASSUME NEW x \in Seq(Token), NEW y \in Seq(Token), NEW z \in Seq(Token)
          PROVE  (x \o y) \o z = x \o (y \o z)
      BY ConcatAssociative
    <3> QED
      BY <1>4, <3>1, Zenon
  <2> QED
    BY <2>1, <2>2 DEF Inbound
<1>6. pc[c] = "ready" /\ pc'[c] = "waiting"
  BY DEF query, goto, TypeOK, ClientTypeOK
<1>7. Outbound(c)' = <<>>
  BY <1>6 DEF query, Outbound, ClientInv, StreamInv
<1>8. ASSUME Inbound(c) = <<>>, Keyed(c) PROVE QueryUnderWay(c)'
  <2>1. <<>> \o q = q
    BY <1>4, ConcatEmptySeq
  <2>2. Inbound(c)' = Query(c)'
    BY <1>3, <1>5, <1>8, <2>1
  <2>3. Keyed(c)'
    BY <1>8 DEF Keyed, KeysFor
  <2> QED
    BY <1>7, <2>2, <2>3 DEF QueryUnderWay
<1>9. ASSUME Inbound(c) = Keys(c), Setup = "PIR" PROVE KeysUnread(c)'
  BY <1>3, <1>5, <1>7, <1>9 DEF KeysUnread
<1>10. \/ QueryUnderWay(c)'
       \/ KeysUnread(c)' /\ Inbound(c) = Keys(c)
  BY <1>6, <1>8, <1>9 DEF ClientInv, StreamInv
<1>11. StreamInv(c)'
  BY <1>2, <1>6, <1>10 DEF StreamInv
<1>12. SocketInv(c)' /\ AnswerInv(c)'
  BY <1>6 DEF query, ClientInv, SocketInv, AnswerInv, Gone
<1> QED
  BY <1>10, <1>11, <1>12 DEF ClientInv

\* A response that read_until ends is the whole reply to the last query, and
\* nothing more: it decodes to the element that was asked for.
LEMMA Received ==
  ASSUME DelimiterFree, TypeOK, NEW c \in Clients, ClientInv(c), receive(c),
         UNCHANGED serverVars
  PROVE  /\ ClientInv(c)'
         /\ ReplyUnderWay(c)
         /\ goto(c, "ready")
         /\ rounds' = [rounds EXCEPT ![c] = @ + 1]
         /\ answer' = [answer EXCEPT ![c] = asked[c]]
<1> USE DEF serverVars
<1>1. pc[c] = "waiting" /\ HasDelimiter(response[c])
  BY DEF receive
<1>2. response[c] \in Seq(Token) /\ s2c[c] \in Seq(Token)
  BY DEF TypeOK, WireTypeOK, ClientTypeOK
<1>3. Outbound(c) # <<>>
  BY <1>1, <1>2, NothingThere DEF Outbound, Joined
<1>4. ReplyUnderWay(c) /\ asked[c] \in Elements
  BY <1>1, <1>3 DEF ClientInv, StreamInv, KeysUnread, QueryUnderWay, QueryCut
<1>5. KeysFor(c) \in Clients \cup {None} /\ "reply" \in PayloadKinds
  BY DEF KeysFor, PayloadKinds
<1>6. response[c] = Reply(c) /\ s2c[c] = <<>>
  <2>1. Joined(Message("reply", KeysFor(c), asked[c]), response[c], s2c[c])
    BY <1>4 DEF ReplyUnderWay, Outbound, Reply, Joined
  <2>2. asked[c] \in Elements \cup {None}
    BY <1>4
  <2> QED
    BY <1>1, <1>2, <1>5, <2>1, <2>2, WholeMessage DEF Reply
<1> DEFINE str == reply_str(response[c])
<1>7. Len(str) = Len(Shape["reply"]) /\ decode_reply(c, str) = {asked[c]}
  <2>1. asked[c] \in Elements \cup {None}
    BY <1>4
  <2>2. Len(str) = Len(Shape["reply"])
    BY <1>5, <1>6, <2>1, ReplyStr DEF Reply
  <2>3. decode_reply(c, str) = {asked[c]}
    BY <1>4, <1>6, ReplyDecodes DEF Reply
  <2> QED
    BY <2>2, <2>3
<1>8. ~ (Len(str) < Len(Shape["reply"]))
  <2>1. Len(Shape["reply"]) \in Nat
    BY <1>5, LenProperties, WireAssumption
  <2> QED
    BY <1>7, <2>1
<1>9. /\ \/ \E e \in decode_reply(c, str) :
              answer' = [answer EXCEPT ![c] = e]
         \/ /\ decode_reply(c, str) = {}
            /\ answer' = [answer EXCEPT ![c] = None]
      /\ rounds' = [rounds EXCEPT ![c] = @ + 1]
      /\ response' = [response EXCEPT ![c] = <<>>]
      /\ goto(c, "ready")
      /\ UNCHANGED <<peer, asked, c2s, s2c>>
  BY <1>8 DEF receive, fresh_response
<1> HIDE DEF str
<1>a. answer' = [answer EXCEPT ![c] = asked[c]]
  BY <1>7, <1>9
<1>10. answer'[c] = asked'[c]
  BY <1>9, <1>a DEF TypeOK, ClientTypeOK
<1>11. pc'[c] = "ready" /\ response'[c] = <<>>
  BY <1>9 DEF goto, TypeOK, ClientTypeOK
<1>12. Outbound(c)' = <<>>
  BY <1>6, <1>9, <1>11 DEF Outbound
<1>13. Inbound(c)' = <<>> /\ Keyed(c)'
  BY <1>4, <1>9 DEF ReplyUnderWay, Inbound, Keyed, KeysFor
<1>14. StreamInv(c)'
  BY <1>11, <1>12, <1>13 DEF StreamInv
<1>15. AnswerInv(c)'
  BY <1>10, <1>11 DEF AnswerInv
<1>16. SocketInv(c)'
  BY <1>1, <1>9, <1>11 DEF ClientInv, SocketInv, Gone
<1> QED
  BY <1>4, <1>9, <1>a, <1>14, <1>15, <1>16 DEF ClientInv

\* A connection starts with nothing under way.
LEMMA Connected ==
  ASSUME TypeOK, NEW c \in Clients, ClientInv(c), KeyInv, connect(c),
         UNCHANGED serverVars
  PROVE  ClientInv(c)'
<1> USE DEF serverVars
<1>1. /\ pc[c] = "start" /\ peer[c] = "unconnected"
      /\ Inbound(c) = <<>> /\ Outbound(c) = <<>>
      /\ unsent[c] = <<>> /\ rounds[c] = 0
  BY DEF connect, ClientInv, SocketInv, StreamInv, AnswerInv, Gone
<1>2. Inbound(c)' = <<>> /\ Outbound(c)' = <<>>
  BY <1>1 DEF connect, Inbound, Outbound
<1>3. \/ /\ pc'[c] = IF Setup = "PIR" THEN "connected" ELSE "ready"
         /\ peer'[c] = "open"
      \/ pc'[c] = "refused" /\ peer'[c] = "unconnected"
  BY <1>1 DEF connect, goto, TypeOK, WireTypeOK, ClientTypeOK
<1>4. SocketInv(c)'
  BY <1>1, <1>3 DEF SocketInv, Gone
<1>5. AnswerInv(c)'
  BY <1>1, <1>3, WireAssumption DEF connect, AnswerInv
<1>6. Setup = "Plain" => Keyed(c)'
  BY WireAssumption DEF KeyInv, Keyed, KeysFor
<1>7. StreamInv(c)'
  BY <1>2, <1>3, <1>6, WireAssumption DEF StreamInv
<1> QED
  BY <1>4, <1>5, <1>7 DEF ClientInv

\* Every step of a client keeps what holds of all of them.
LEMMA ClientStepInv ==
  ASSUME DelimiterFree, IInv, TypeOK',
         NEW c \in Clients, ClientStep(c) \/ killed(c), UNCHANGED serverVars
  PROVE  KeyInv' /\ \A d \in Clients : ClientInv(d)'
<1>1. TypeOK /\ KeyInv /\ \A d \in Clients : ClientInv(d)
  BY DEF IInv, ClientInv
<1>2. KeyInv'
  BY <1>1 DEF KeyInv, serverVars
<1>3. ASSUME NEW d \in Clients, d # c PROVE ClientInv(d)'
  BY <1>1, <1>3, OtherClient
<1>4. ClientInv(c)'
  <2>1. CASE connect(c)
    BY <1>1, <2>1, Connected
  <2>2. CASE send_galois_keys(c)
    <3>1. Setup = "PIR"
      BY <1>1, <2>2 DEF send_galois_keys, ClientInv, SocketInv
    <3> QED
      BY <1>1, <2>2, <3>1, KeysSent
  <2>3. CASE wake_up(c)
    <3>1. /\ pc[c] = "sleeping" /\ pc'[c] = "ready"
          /\ Inbound(c)' = Inbound(c) /\ Outbound(c)' = Outbound(c)
          /\ Keyed(c)' = Keyed(c) /\ Keys(c)' = Keys(c)
      BY <1>1, <2>3 DEF wake_up, goto, wireVars, serverVars, Inbound, Outbound,
         Keyed, KeysFor, Keys, Message, Payload, delimiter, TypeOK, ClientTypeOK
    <3>2. StreamInv(c)'
      BY <1>1, <3>1 DEF ClientInv, StreamInv
    <3>3. SocketInv(c)' /\ AnswerInv(c)'
      <4>1. UNCHANGED <<asked, rounds, answer, peer, unsent>>
        BY <2>3 DEF wake_up, wireVars, serverVars
      <4>2. SocketInv(c) /\ AnswerInv(c) /\ rounds[c] = 0
        BY <1>1, <3>1 DEF ClientInv, AnswerInv
      <4>3. SocketInv(c)'
        BY <3>1, <4>1, <4>2 DEF SocketInv, Gone
      <4>4. AnswerInv(c)'
        BY <3>1, <4>1, <4>2 DEF AnswerInv
      <4> QED
        BY <4>3, <4>4
    <3> QED
      BY <3>2, <3>3 DEF ClientInv
  <2>4. CASE query(c)
    BY <1>1, <2>4, QuerySent
  <2>5. CASE read_response(c)
    <3>1. Outbound(c)' = Outbound(c)
      BY <1>1, <2>5, ReadResponse
    <3>2. UNCHANGED <<pc, asked, rounds, answer, peer, c2s>>
      BY <2>5 DEF read_response
    <3>3. Inbound(c)' = Inbound(c)
      BY <3>2 DEF Inbound, serverVars
    <3>4. ~ Gone(c) => unsent'[c] = <<>>
      BY <1>1 DEF ClientInv, SocketInv, serverVars
    <3>5. Keyed(c) => Keyed(c)'
      BY DEF Keyed, KeysFor, serverVars
    <3> QED
      BY <1>1, <3>1, <3>2, <3>3, <3>4, <3>5, Undisturbed
  <2>6. CASE receive(c)
    BY <1>1, <2>6, Received
  <2>7. CASE return_0(c)
    BY <1>1, <2>7, ClientOver
       DEF return_0, goto, hang_up, TypeOK, WireTypeOK, ClientTypeOK
  <2>8. CASE throw_broken(c)
    BY <1>1, <2>8, ClientOver
       DEF throw_broken, Throw, goto, hang_up, TypeOK, WireTypeOK, ClientTypeOK
  <2>9. CASE killed(c)
    BY <1>1, <2>9, ClientOver
       DEF killed, goto, TypeOK, WireTypeOK, ClientTypeOK
  <2> QED
    BY <2>1, <2>2, <2>3, <2>4, <2>5, <2>6, <2>7, <2>8, <2>9 DEF ClientStep
<1> QED
  BY <1>2, <1>3, <1>4

-----------------------------------------------------------------------------
\* The processes start with nothing under way.
LEMMA IInvInit == Init => IInv
<1> SUFFICES ASSUME Init PROVE IInv
  OBVIOUS
<1> USE DEF Init, WireInit, ServerInit, ClientInit
<1>1. TypeOK
  BY InitType
<1>2. KeyInv
  BY DEF KeyInv
<1>3. ASSUME NEW c \in Clients PROVE SocketInv(c) /\ StreamInv(c) /\ AnswerInv(c)
  <2>1. Inbound(c) = <<>> /\ Outbound(c) = <<>>
    BY DEF Inbound, Outbound
  <2> QED
    BY <2>1 DEF SocketInv, StreamInv, AnswerInv, Gone
<1> QED
  BY <1>1, <1>2, <1>3 DEF IInv

\* Every step of the server or of a client keeps IInv.
LEMMA IInvStep ==
  ASSUME DelimiterFree, WholeWrites, IInv, [Next]_vars
  PROVE  IInv'
<1>1. TypeOK'
  BY TypeStep DEF IInv
<1>2. CASE UNCHANGED vars
  <2>1. KeyInv'
    BY <1>2 DEF IInv, KeyInv, vars, serverVars
  <2>2. ASSUME NEW c \in Clients PROVE ClientInv(c)'
    <3>1. Inbound(c)' = Inbound(c) /\ Outbound(c)' = Outbound(c)
      BY <1>2 DEF Inbound, Outbound, vars, wireVars, serverVars, clientVars
    <3>2. Keyed(c) => Keyed(c)'
      BY <1>2 DEF Keyed, KeysFor, vars, serverVars
    <3>3. ClientInv(c)
      BY DEF IInv, ClientInv
    <3> QED
      BY <1>2, <3>1, <3>2, <3>3, Undisturbed
         DEF vars, wireVars, serverVars, clientVars, ClientInv, SocketInv
  <2> QED
    BY <1>1, <2>1, <2>2 DEF IInv, ClientInv
<1>3. CASE gen_database /\ UNCHANGED clientVars
  <2>1. KeyInv'
    BY <1>3 DEF IInv, KeyInv, gen_database
  <2>2. ASSUME NEW c \in Clients PROVE ClientInv(c)'
    <3>1. Inbound(c)' = Inbound(c) /\ Outbound(c)' = Outbound(c)
      BY <1>3 DEF Inbound, Outbound, gen_database, wireVars, clientVars
    <3>2. Keyed(c) => Keyed(c)'
      BY <1>3 DEF Keyed, KeysFor, gen_database
    <3>3. ClientInv(c)
      BY DEF IInv, ClientInv
    <3> QED
      BY <1>3, <3>1, <3>2, <3>3, Undisturbed
         DEF gen_database, wireVars, clientVars, ClientInv, SocketInv
  <2> QED
    BY <1>1, <2>1, <2>2 DEF IInv, ClientInv
<1>4. ASSUME NEW c \in Clients, ServerStep(c), UNCHANGED clientVars
      PROVE  IInv'
  <2>1. KeyInv'
    BY <1>4, KeyStepInv DEF IInv
  <2>2. \A d \in Clients : ClientInv(d)'
    BY <1>4, ServerStepInv
  <2> QED
    BY <1>1, <2>1, <2>2 DEF IInv, ClientInv
<1>5. ASSUME NEW c \in Clients, ClientStep(c) \/ killed(c), UNCHANGED serverVars
      PROVE  IInv'
  <2>1. KeyInv' /\ \A d \in Clients : ClientInv(d)'
    BY <1>1, <1>5, ClientStepInv
  <2> QED
    BY <1>1, <2>1 DEF IInv, ClientInv
<1> QED
  BY <1>2, <1>3, <1>4, <1>5 DEF Next, Terminating

\* For any number of clients, elements and queries, with keys or without, and
\* however long the sleep: IInv holds throughout, when no payload contains the
\* delimiter and replies are written whole.
THEOREM InvHolds ==
  ASSUME DelimiterFree, WholeWrites
  PROVE  Spec => []IInv
<1>1. IInv /\ [Next]_vars => IInv'
  BY IInvStep
<1> QED
  BY <1>1, IInvInit, PTL DEF Spec

\* ... and so whatever a client has just received is the element it last
\* asked for, although reads and writes cut the streams anywhere, connections
\* share the server's keys, and clients come, go and are killed at any time.
THEOREM AnswersAreRight ==
  ASSUME DelimiterFree, WholeWrites
  PROVE  Spec => []AnswerIsElementAsked
<1>1. IInv => AnswerIsElementAsked
  BY DEF IInv, AnswerInv, AnswerIsElementAsked
<1> QED
  BY <1>1, InvHolds, PTL

-----------------------------------------------------------------------------
\* KeyInv needs nothing but the types: no step of a client or of the start
\* touches what it is about.
LEMMA KeyInvStep ==
  ASSUME TypeOK, KeyInv, [Next]_vars
  PROVE  KeyInv'
<1>1. CASE UNCHANGED serverVars
  BY <1>1 DEF KeyInv, serverVars
<1>2. CASE gen_database
  BY <1>2 DEF KeyInv, gen_database
<1>3. ASSUME NEW c \in Clients, ServerStep(c), UNCHANGED clientVars
      PROVE  KeyInv'
  BY <1>3, KeyStepInv
<1> QED
  BY <1>1, <1>2, <1>3 DEF Next, Terminating, vars

\* Once galoisKeys_[0] is set no step changes it, however many clients connect
\* and in whatever order, and whatever their bytes look like.
THEOREM KeysStayTheSame == Spec => KeysWrittenOnce
<1>1. Init => TypeOK /\ KeyInv
  BY InitType DEF Init, ServerInit, KeyInv
<1>2. TypeOK /\ KeyInv /\ [Next]_vars => TypeOK' /\ KeyInv'
  BY TypeStep, KeyInvStep
<1>3. TypeOK /\ KeyInv /\ [Next]_vars
        => [galoisKeys_ # None => UNCHANGED galoisKeys_]_vars
  <2> SUFFICES ASSUME KeyInv, Next, galoisKeys_ # None
               PROVE  UNCHANGED galoisKeys_
    OBVIOUS
  <2>1. CASE gen_database \/ UNCHANGED serverVars
    BY <2>1 DEF gen_database, serverVars
  <2>2. ASSUME NEW c \in Clients, ServerStep(c) PROVE UNCHANGED galoisKeys_
    <3>1. CASE handle_read_galkeys(c)
      BY <3>1 DEF handle_read_galkeys, KeyInv
    <3>2. CASE handle_write_plain(c) \/ handle_write_pir(c)
      BY <3>2 DEF handle_write_plain, handle_write_pir, write_done
    <3> QED
      BY <2>2, <3>1, <3>2 DEF ServerStep, handle_accept, read_some,
         handle_read_plain, handle_read_pir, write_some
  <2> QED
    BY <2>1, <2>2 DEF Next, Terminating, vars
<1> QED
  BY <1>1, <1>2, <1>3, PTL DEF Spec, KeysWrittenOnce

-----------------------------------------------------------------------------
\* With keys each client has at most one reply under way, whatever its bytes
\* look like and whoever cuts or clears them.

\* The tokens on either side of a cut.
LEMMA PartTokens ==
  ASSUME NEW s \in Seq(Token), NEW k \in 0 .. Len(s)
  PROVE  LET a == SubSeq(s, 1, k)
             b == SubSeq(s, k + 1, Len(s))
         IN  /\ a \in Seq(Token) /\ Len(a) = k /\ \A i \in 1 .. k : a[i] = s[i]
             /\ b \in Seq(Token) /\ Len(b) = Len(s) - k
             /\ \A i \in 1 .. Len(s) - k : b[i] = s[k + i]
<1>1. Len(s) \in Nat /\ \A i \in 1 .. Len(s) : s[i] \in Token
  BY LenProperties, ElementOfSeq
<1>2. \A i \in 1 .. k : s[i] \in Token
  BY <1>1
<1>3. \A i \in 1 .. k - 1 + 1 : SubSeq(s, 1, k)[i] = s[1 + i - 1]
  BY <1>1, <1>2, SubSeqProperties
<1>4. SubSeq(s, 1, k) \in Seq(Token) /\ Len(SubSeq(s, 1, k)) = k
  BY SplitType
<1> QED
  BY <1>1, <1>3, <1>4, SuffixOf

\* The tokens of a message, also of one whose payload holds a delimiter.
LEMMA AnyMessage ==
  ASSUME NEW kind \in PayloadKinds, NEW who \in Clients \cup {None},
         NEW elem \in Elements \cup {None}
  PROVE  LET m == Message(kind, who, elem)
         IN  /\ m \in Seq(Token) /\ Len(Shape[kind]) \in Nat \ {0}
             /\ Len(m) = Len(Shape[kind]) + 1
             /\ \A i \in 1 .. Len(m) - 1 : m[i].kind = kind
             /\ \A i \in 1 .. Len(m) - 1 : m[i].elem = elem
             /\ \A i \in 1 .. Len(m) - 1 : m[i].part = i
             /\ m[Len(m)].kind = "end" /\ m[Len(m)].elem = None
<1> DEFINE p == Payload(kind, who, elem)
           m == Message(kind, who, elem)
           n == Len(Shape[kind])
<1>1. n \in Nat \ {0} /\ m \in Seq(Token) /\ Len(m) = n + 1
  BY MessageType, LenProperties, WireAssumption
<1>2. p \in Seq(Token) /\ Len(p) = n
  BY PayloadType
<1>3. <<delimiter>> \in Seq(Token) /\ Len(<<delimiter>>) = 1
  BY DEF Token, delimiter
<1>4. \A i \in 1 .. Len(p) + 1 : m[i] = IF i <= Len(p) THEN p[i] ELSE <<delimiter>>[i - Len(p)]
  BY <1>2, <1>3, ConcatProperties DEF Message
<1>5. \A i \in 1 .. n : p[i].kind = kind /\ p[i].elem = elem /\ p[i].part = i
  BY DEF Payload
<1> HIDE DEF p, m, n
<1>6. m[n + 1] = delimiter /\ \A i \in 1 .. n : m[i] = p[i]
  BY <1>1, <1>2, <1>4
<1> QED
  BY <1>1, <1>5, <1>6 DEF delimiter, m, n

\* A reply is about the one element.
LEMMA ReplyTokens ==
  ASSUME NEW who \in Clients \cup {None}, NEW elem \in Elements \cup {None}
  PROVE  /\ Message("reply", who, elem) \in Seq(Token)
         /\ Len(Shape["reply"]) \in Nat \ {0}
         /\ Len(Message("reply", who, elem)) = Len(Shape["reply"]) + 1
         /\ About(Message("reply", who, elem), elem)
<1> DEFINE m == Message("reply", who, elem)
           n == Len(Shape["reply"])
<1>1. "reply" \in PayloadKinds
  BY DEF PayloadKinds
<1>2. /\ m \in Seq(Token) /\ n \in Nat \ {0} /\ Len(m) = n + 1
      /\ \A i \in 1 .. Len(m) - 1 :
           m[i].elem = elem
      /\ m[Len(m)].kind = "end" /\ m[Len(m)].elem = None
  BY <1>1, AnyMessage
<1> HIDE DEF m, n
<1>3. \A i \in 1 .. Len(m) : i \in 1 .. Len(m) - 1 \/ i = Len(m)
  BY <1>2
<1>4. About(m, elem)
  BY <1>2, <1>3 DEF About
<1> QED
  BY <1>2, <1>4 DEF m, n

\* A client that is not asking has no query, and no reply, under way.
LEMMA NotAsking ==
  ASSUME NEW c \in Clients, OneReply(c), pc[c] \in Live, pc[c] # "waiting"
  PROVE  /\ response[c] = <<>> /\ s2c[c] = <<>> /\ unsent[c] = <<>>
         /\ \A i \in 1 .. Len(message_[c]) :
              ~ (message_[c][i].kind = "query" /\ message_[c][i].part = 1)
         /\ \A i \in 1 .. Len(c2s[c]) :
              ~ (c2s[c][i].kind = "query" /\ c2s[c][i].part = 1)
BY DEF OneReply, Replied, LastQuery

\* A step that leaves alone what is under way for d.
LEMMA SameStreams ==
  ASSUME NEW d \in Clients, OneReply(d),
         pc'[d] = pc[d], asked'[d] = asked[d], answer'[d] = answer[d],
         peer'[d] = peer[d], response'[d] = response[d], s2c'[d] = s2c[d],
         message_'[d] = message_[d], c2s'[d] = c2s[d],
         ~ Gone(d) => unsent'[d] = unsent[d]
  PROVE  OneReply(d)'
<1>1. CASE pc[d] \in Live
  <2>1. unsent'[d] = unsent[d] /\ Gone(d)' = Gone(d)
    BY <1>1 DEF OneReply, Gone
  <2> QED
    BY <1>1, <2>1 DEF OneReply, Replied, About, LastQuery
<1>2. CASE pc[d] \notin Live
  BY <1>2 DEF OneReply
<1> QED
  BY <1>1, <1>2

\* The bytes a read moves from the socket into the buffer are the same bytes.
LEMMA ReadMoves ==
  ASSUME NEW a \in Seq(Token), NEW b \in Seq(Token), NEW k \in 1 .. Len(b),
         NEW x, x = a \o SubSeq(b, 1, k),
         NEW y, y = SubSeq(b, k + 1, Len(b))
  PROVE  /\ x \in Seq(Token) /\ y \in Seq(Token)
         /\ Len(x) = Len(a) + k /\ Len(y) = Len(b) - k
         /\ \A i \in 1 .. Len(a) : x[i] = a[i]
         /\ \A i \in 1 .. k : x[Len(a) + i] = b[i]
         /\ \A i \in 1 .. Len(b) - k : y[i] = b[k + i]
<1>1. Len(a) \in Nat /\ Len(b) \in Nat /\ k \in 0 .. Len(b)
  BY LenProperties
<1> DEFINE h == SubSeq(b, 1, k)
<1>2. /\ h \in Seq(Token) /\ Len(h) = k /\ \A i \in 1 .. k : h[i] = b[i]
      /\ y \in Seq(Token) /\ Len(y) = Len(b) - k
      /\ \A i \in 1 .. Len(b) - k : y[i] = b[k + i]
  BY <1>1, PartTokens
<1>3. x = a \o h
  OBVIOUS
<1> HIDE DEF h
<1>4. /\ x \in Seq(Token) /\ Len(x) = Len(a) + Len(h)
      /\ \A i \in 1 .. Len(a) + Len(h) : x[i] = IF i <= Len(a) THEN a[i] ELSE h[i - Len(a)]
  <2>1. h \in Seq(Token)
    BY <1>2
  <2>2. /\ a \o h \in Seq(Token) /\ Len(a \o h) = Len(a) + Len(h)
        /\ \A i \in 1 .. Len(a) + Len(h) :
             (a \o h)[i] = IF i <= Len(a) THEN a[i] ELSE h[i - Len(a)]
    BY ONLY <2>1, a \in Seq(Token), ConcatProperties
  <2> QED
    BY <1>3, <2>2
<1>5. \A i \in 1 .. k : x[Len(a) + i] = b[i]
  <2> SUFFICES ASSUME NEW i \in 1 .. k PROVE x[Len(a) + i] = b[i]
    OBVIOUS
  <2> DEFINE j == Len(a) + i
  <2>1. j \in 1 .. Len(a) + Len(h) /\ ~ (j <= Len(a)) /\ j - Len(a) = i
    BY <1>1, <1>2
  <2> HIDE DEF j
  <2>2. x[j] = h[i]
    BY <1>4, <2>1
  <2> QED
    BY <1>2, <2>2 DEF j
<1>6. \A i \in 1 .. Len(a) : x[i] = a[i]
  BY <1>1, <1>2, <1>4
<1> QED
  BY <1>2, <1>4, <1>5, <1>6

\* Reading a query moves its beginning, but its end with it.
LEMMA QueryRead ==
  ASSUME TypeOK, NEW c \in Clients, OneReply(c), read_some(c), UNCHANGED clientVars
  PROVE  OneReply(c)'
<1>1. PICK k \in 1 .. Len(c2s[c]) :
        /\ message_' = [message_ EXCEPT ![c] = @ \o SubSeq(c2s[c], 1, k)]
        /\ c2s' = [c2s EXCEPT ![c] = SubSeq(@, k + 1, Len(@))]
  BY DEF read_some
<1>2. /\ s2c' = s2c /\ unsent' = unsent /\ peer' = peer /\ pc' = pc
      /\ asked' = asked /\ response' = response /\ answer' = answer
  BY DEF read_some, clientVars
<1> DEFINE a == message_[c]
           b == c2s[c]
           x == message_'[c]
           y == c2s'[c]
<1>3. /\ a \in Seq(Token) /\ b \in Seq(Token)
      /\ x = a \o SubSeq(b, 1, k) /\ y = SubSeq(b, k + 1, Len(b))
  BY <1>1 DEF TypeOK, WireTypeOK, ServerTypeOK
<1> HIDE DEF a, b, x, y
<1>4. /\ Len(x) = Len(a) + k /\ Len(y) = Len(b) - k
      /\ \A i \in 1 .. Len(a) : x[i] = a[i]
      /\ \A i \in 1 .. k : x[Len(a) + i] = b[i]
      /\ \A i \in 1 .. Len(b) - k : y[i] = b[k + i]
  <2>1. k \in 1 .. Len(b)
    BY DEF b
  <2> QED
    BY <1>3, <2>1, ReadMoves
<1>5. Len(a) \in Nat /\ Len(b) \in Nat /\ k \in 1 .. Len(b)
  BY <1>3, LenProperties DEF b
<1>6. CASE pc[c] \in Live
  <2>1. LastQuery(c, a, Len(b)) /\ LastQuery(c, b, 0) /\ ~ Replied(c)
    <3>1. b # <<>>
      BY <1>3, <1>5
    <3> QED
      BY <1>6, <3>1 DEF OneReply, a, b
  <2>2. LastQuery(c, x, Len(y))
    <3> SUFFICES ASSUME NEW i \in 1 .. Len(x), x[i].kind = "query", x[i].part = 1
                 PROVE  /\ pc[c] = "waiting" /\ x[i].elem = asked[c]
                        /\ Len(x) + Len(y) = i + Len(Shape["query"])
      BY DEF LastQuery
    <3>1. CASE i \in 1 .. Len(a)
      <4>1. x[i] = a[i]
        BY <1>4, <3>1
      <4>2. pc[c] = "waiting" /\ a[i].elem = asked[c]
            /\ Len(a) + Len(b) = i + Len(Shape["query"])
        BY <2>1, <3>1, <4>1 DEF LastQuery
      <4>3. Len(x) + Len(y) = Len(a) + Len(b)
        BY ONLY <1>4, <1>5
      <4> QED
        BY <4>1, <4>2, <4>3
    <3>2. CASE i \notin 1 .. Len(a)
      <4> DEFINE j == i - Len(a)
      <4>1. j \in 1 .. k /\ j \in 1 .. Len(b) /\ Len(a) + j = i
        BY <1>4, <1>5, <3>2
      <4>2. x[i] = b[j]
        <5> HIDE DEF j
        <5>1. x[Len(a) + j] = b[j]
          BY <1>4, <4>1
        <5> QED
          BY <4>1, <5>1
      <4> HIDE DEF j
      <4>3. pc[c] = "waiting" /\ b[j].elem = asked[c] /\ Len(b) + 0 = j + Len(Shape["query"])
        BY <2>1, <4>1, <4>2 DEF LastQuery
      <4>4. Len(Shape["query"]) \in Nat
        BY LenProperties, WireAssumption DEF PayloadKinds
      <4>5. Len(x) + Len(y) = i + Len(Shape["query"])
        <5> DEFINE m == Len(Shape["query"])
                   la == Len(a)
                   lb == Len(b)
                   lx == Len(x)
                   ly == Len(y)
        <5>1. /\ la \in Nat /\ lb \in Nat /\ k \in Nat /\ m \in Nat /\ j \in 1 .. k
              /\ lx = la + k /\ ly = lb - k /\ la + j = i /\ lb + 0 = j + m
          BY <1>4, <1>5, <4>1, <4>3, <4>4
        <5> HIDE DEF m, la, lb, lx, ly
        <5>2. lx + ly = i + m
          BY <5>1
        <5> QED
          BY <5>2 DEF m, lx, ly
      <4> QED
        BY <4>2, <4>3, <4>5
    <3> QED
      BY <3>1, <3>2
  <2>3. LastQuery(c, y, 0)
    <3> SUFFICES ASSUME NEW i \in 1 .. Len(y), y[i].kind = "query", y[i].part = 1
                 PROVE  /\ pc[c] = "waiting" /\ y[i].elem = asked[c]
                        /\ Len(y) + 0 = i + Len(Shape["query"])
      BY DEF LastQuery
    <3> DEFINE j == k + i
    <3>1. j \in 1 .. Len(b) /\ y[i] = b[j]
      BY <1>4, <1>5
    <3>2. pc[c] = "waiting" /\ b[j].elem = asked[c] /\ Len(b) + 0 = j + Len(Shape["query"])
      BY <2>1, <3>1 DEF LastQuery
    <3>3. Len(Shape["query"]) \in Nat
      BY LenProperties, WireAssumption DEF PayloadKinds
    <3>4. Len(y) + 0 = i + Len(Shape["query"])
      <4> DEFINE m == Len(Shape["query"])
                 lb == Len(b)
                 ly == Len(y)
      <4>1. /\ lb \in Nat /\ k \in 1 .. lb /\ m \in Nat
            /\ ly = lb - k /\ i \in 1 .. ly /\ lb + 0 = j + m
        BY <1>4, <1>5, <3>2, <3>3
      <4> HIDE DEF m, lb, ly
      <4>2. ly + 0 = i + m
        BY <4>1
      <4> QED
        BY <4>2 DEF m, ly
    <3> HIDE DEF j
    <3> QED
      BY <3>1, <3>2, <3>4
  <2> QED
    BY <1>2, <1>6, <2>1, <2>2, <2>3 DEF OneReply, Replied, About, LastQuery, Gone, x, y
<1>7. CASE pc[c] \notin Live
  BY <1>2, <1>7 DEF OneReply
<1> QED
  BY <1>6, <1>7

\* A query that can be parsed is all there is of its client, and the reply to
\* it is the only one.
LEMMA ReplyBegun ==
  ASSUME Separate, TypeOK, NEW c \in Clients,
         \A d \in Clients : OneReply(d),
         NEW completion, respond(c, EraseDelimiter(message_[c]), completion),
         HasDelimiter(message_[c]),
         UNCHANGED <<c2s, peer>>, UNCHANGED clientVars
  PROVE  \A d \in Clients : OneReply(d)'
<1>0. /\ pc' = pc /\ asked' = asked /\ answer' = answer /\ response' = response
      /\ c2s' = c2s /\ peer' = peer
  BY DEF clientVars
<1>1. CASE UNCHANGED <<message_, unsent, s2c>>
  BY <1>0, <1>1, SameStreams
<1>2. CASE ~ UNCHANGED <<message_, unsent, s2c>>
  <2> DEFINE q == EraseDelimiter(message_[c])
             n == Len(Shape["reply"])
  <2>1. PICK e \in Elements :
          /\ IsPrefix(Payload("query", c, e), q)
          /\ async_write(c, Message("reply", galoisKeys_, e), completion)
          /\ message_' = [message_ EXCEPT ![c] = <<>>]
    BY <1>2 DEF respond, cleared
  <2> DEFINE r == Message("reply", galoisKeys_, e)
  <2>2. /\ r \in Seq(Token) /\ n \in Nat \ {0} /\ Len(r) = n + 1
        /\ \A i \in 1 .. Len(r) : r[i].elem \in {e, None}
    <3>1. "reply" \in PayloadKinds /\ galoisKeys_ \in Clients \cup {None}
      BY DEF PayloadKinds, TypeOK, ServerTypeOK
    <3>2. e \in Elements \cup {None}
      OBVIOUS
    <3>3. r \in Seq(Token) /\ n \in Nat \ {0} /\ Len(r) = n + 1 /\ About(r, e)
      BY <3>1, <3>2, ReplyTokens
    <3> QED
      BY <3>3 DEF About
  <2>3. PICK k \in 0 .. Len(r), over \in SUBSET Overwritable(c, r) :
          /\ WholeWrites /\ ~ Gone(c) => k = Len(r)
          /\ s2c' = [s2c EXCEPT ![c] = @ \o SubSeq(r, 1, k)]
          /\ unsent' = [d \in Clients |->
               IF d = c THEN SubSeq(r, k + 1, Len(r))
               ELSE IF d \in over
                 THEN SubSeq(r, Len(r) - Len(unsent[d]) + 1, Len(r))
               ELSE unsent[d]]
    <3> DEFINE K == IF Gone(c) THEN {0, Len(r)}
                    ELSE IF WholeWrites THEN {Len(r)} ELSE 0 .. Len(r)
    <3>1. PICK k \in K, over \in SUBSET Overwritable(c, r) :
            /\ s2c' = [s2c EXCEPT ![c] = @ \o SubSeq(r, 1, k)]
            /\ unsent' = [d \in Clients |->
                 IF d = c THEN SubSeq(r, k + 1, Len(r))
                 ELSE IF d \in over
                   THEN SubSeq(r, Len(r) - Len(unsent[d]) + 1, Len(r))
                 ELSE unsent[d]]
      <4> HIDE DEF r
      <4> QED
        BY <2>1 DEF async_write, r
    <3>2. k \in 0 .. Len(r) /\ (WholeWrites /\ ~ Gone(c) => k = Len(r))
      BY <2>2, <3>1
    <3> QED
      BY <3>1, <3>2
  <2>4. ASSUME NEW d \in Clients, d # c PROVE OneReply(d)'
    <3>1. message_'[d] = message_[d] /\ s2c'[d] = s2c[d]
      BY <2>1, <2>3, <2>4 DEF TypeOK, WireTypeOK, ServerTypeOK
    <3>2. CASE pc[d] \in Live
      <4>1. WholeWrites /\ unsent[d] = <<>>
        BY <2>4, <3>2 DEF Separate, OneReply
      <4>2. d \notin over
        BY <4>1 DEF Overwritable
      <4>3. unsent'[d] = unsent[d]
        BY <2>3, <2>4, <4>2
      <4> QED
        BY <1>0, <3>1, <4>3, SameStreams
    <3>3. CASE pc[d] \notin Live
      BY <1>0, <3>3 DEF OneReply
    <3> QED
      BY <3>2, <3>3
  <2>5. ASSUME pc[c] \in Live PROVE OneReply(c)'
    <3>1. /\ message_[c] \in Seq(Token) /\ c2s[c] \in Seq(Token)
          /\ s2c[c] \in Seq(Token) /\ unsent[c] \in Seq(Token)
      BY DEF TypeOK, WireTypeOK, ServerTypeOK
    <3>2. /\ LastQuery(c, message_[c], Len(c2s[c])) /\ ~ Gone(c)
          /\ Replied(c) => message_[c] = <<>>
      BY <2>5 DEF OneReply
    <3> DEFINE a == message_[c]
               b == c2s[c]
               m == Len(Shape["query"])
    <3>3. /\ m \in Nat \ {0} /\ m + 1 <= Len(a)
          /\ a[1].kind = "query" /\ a[1].part = 1 /\ a[1].elem = e
      <4>1. "query" \in PayloadKinds /\ e \in Elements \cup {None}
            /\ c \in Clients \cup {None}
        BY DEF PayloadKinds
      <4>2. /\ q \in Seq(Token) /\ Len(q) \in Nat /\ Len(q) <= Len(a)
            /\ \A i \in 1 .. Len(q) : q[i] = a[i]
        BY <3>1, FrontTokens
      <4>3. Len(a) \in Nat /\ Len(a) >= 1
        BY <3>1, LenProperties DEF HasDelimiter
      <4>4. Len(q) = Len(a) - 1
        <5>1. q = SubSeq(a, 1, Len(a) - 1)
          BY DEF EraseDelimiter, Front
        <5>2. Len(a) - 1 \in 0 .. Len(a)
          BY <4>3
        <5> QED
          BY <3>1, <5>1, <5>2, PartTokens
      <4> DEFINE p == Payload("query", c, e)
      <4>5. p \in Seq(Token) /\ Len(p) = m /\ m \in Nat \ {0}
        BY <4>1, PayloadType, LenProperties, WireAssumption
      <4>6. Len(p) <= Len(q) /\ \A i \in 1 .. Len(p) : p[i] = q[i]
        <5>1. IsPrefix(p, q)
          BY <2>1
        <5> HIDE DEF p, q
        <5> QED
          BY <4>2, <4>5, <5>1, PrefixIndex
      <4>7. 1 \in 1 .. m /\ p[1].kind = "query" /\ p[1].part = 1 /\ p[1].elem = e
        <5>1. 1 \in 1 .. m
          BY <4>5
        <5> QED
          BY <5>1 DEF Payload
      <4> HIDE DEF p, q, m
      <4>8. 1 \in 1 .. Len(p) /\ 1 \in 1 .. Len(q) /\ m + 1 <= Len(a)
        BY <4>2, <4>3, <4>4, <4>5, <4>6
      <4>9. a[1] = p[1]
        BY <4>2, <4>6, <4>8
      <4> QED
        BY <4>5, <4>7, <4>8, <4>9
    <3>4. /\ pc[c] = "waiting" /\ asked[c] = e /\ Len(a) + Len(b) = 1 + m
      <4>1. 1 \in 1 .. Len(a)
        BY <3>3
      <4> QED
        BY <3>2, <3>3, <4>1 DEF LastQuery
    <3>5. b = <<>>
      <4> DEFINE la == Len(a)
                 lb == Len(b)
      <4>1. /\ la \in Nat /\ lb \in Nat /\ m \in Nat
            /\ m + 1 <= la /\ la + lb = 1 + m
        BY <3>1, <3>3, <3>4, LenProperties
      <4> HIDE DEF a, b, m, la, lb
      <4>3. lb = 0
        BY <4>1
      <4>2. Len(b) = 0
        BY <4>3 DEF lb
      <4> USE DEF b
      <4> QED
        BY <3>1, <4>2, EmptySeq
    <3>6. response[c] = <<>> /\ s2c[c] = <<>>
      <4>1. a # <<>>
        BY <3>3
      <4> QED
        BY <3>2, <4>1 DEF Replied
    <3> DEFINE u == SubSeq(r, 1, k)
               v == SubSeq(r, k + 1, Len(r))
    <3>7. s2c'[c] = u /\ unsent'[c] = v /\ message_'[c] = <<>> /\ c2s'[c] = <<>>
      <4>1. <<>> \o u = u
        <5>1. u \in Seq(Token)
          BY <2>2, <2>3, PartTokens
        <5> HIDE DEF u
        <5> QED
          BY <5>1
      <4>2. s2c'[c] = s2c[c] \o u /\ unsent'[c] = v
        BY <2>3 DEF TypeOK, WireTypeOK
      <4>3. message_'[c] = <<>> /\ c2s'[c] = <<>>
        BY <1>0, <2>1, <3>5 DEF TypeOK, ServerTypeOK
      <4> QED
        BY <3>6, <4>1, <4>2, <4>3
    <3>8. /\ Len(u) = k /\ Len(v) = Len(r) - k
          /\ About(u, e) /\ About(v, e)
      <4>1. /\ u \in Seq(Token) /\ Len(u) = k /\ \A i \in 1 .. k : u[i] = r[i]
            /\ v \in Seq(Token) /\ Len(v) = Len(r) - k
            /\ \A i \in 1 .. Len(r) - k : v[i] = r[k + i]
        BY <2>2, <2>3, PartTokens
      <4> HIDE DEF u, v, r
      <4>2. \A i \in 1 .. k : i \in 1 .. Len(r)
        BY <2>2, <2>3
      <4>3. \A i \in 1 .. Len(r) - k : k + i \in 1 .. Len(r)
        BY <2>2, <2>3
      <4> QED
        BY <2>2, <4>1, <4>2, <4>3 DEF About
    <3>9. WholeWrites => v = <<>>
      <4> SUFFICES ASSUME WholeWrites PROVE v = <<>>
        OBVIOUS
      <4>1. Len(v) = 0
        BY <2>2, <2>3, <3>2, <3>8
      <4>2. v \in Seq(Token)
        BY <2>2, <2>3, PartTokens
      <4> QED
        BY <4>1, <4>2, EmptySeq
    <3> HIDE DEF u, v, r, a, b, m, n
    <3>10. Len(response'[c]) + Len(s2c'[c]) + Len(unsent'[c]) <= n + 1
      <4>1. response'[c] = <<>> /\ Len(<<>>) = 0
        BY <1>0, <3>6
      <4>2. Len(s2c'[c]) = k /\ Len(unsent'[c]) = Len(r) - k
        BY <3>7, <3>8
      <4>3. k \in 0 .. Len(r) /\ Len(r) \in Nat /\ Len(r) <= n + 1
        BY <2>2, <2>3, LenProperties
      <4> DEFINE l == Len(r)
                 y == Len(s2c'[c])
                 z == Len(unsent'[c])
      <4>4. l \in Nat /\ l <= n + 1 /\ k \in 0 .. l /\ y = k /\ z = l - k
        BY <4>2, <4>3
      <4>5. n \in Nat
        BY LenProperties, WireAssumption DEF n
      <4> HIDE DEF l, y, z
      <4>6. 0 + y + z <= n + 1
        BY <4>4, <4>5
      <4> QED
        BY <4>1, <4>6 DEF y, z
    <3>11. LastQuery(c, message_[c], Len(c2s[c]))' /\ LastQuery(c, c2s[c], 0)'
      BY <3>7 DEF LastQuery
    <3> QED
      BY <1>0, <3>2, <3>4, <3>6, <3>7, <3>8, <3>9, <3>10, <3>11
         DEF OneReply, Replied, About, Gone, Live, n
  <2>6. ASSUME pc[c] \notin Live PROVE OneReply(c)'
    BY <1>0, <2>6 DEF OneReply
  <2> QED
    BY <2>4, <2>5, <2>6
<1> QED
  BY <1>1, <1>2

\* What is left of a reply moves into the socket, or is lost on the way.
LEMMA ReplyWritten ==
  ASSUME TypeOK, NEW c \in Clients, OneReply(c), write_some(c), UNCHANGED clientVars
  PROVE  OneReply(c)'
<1> DEFINE s == s2c[c]
           u == unsent[c]
           e == asked[c]
<1>1. PICK token \in {Head(u), Junk} : s2c' = [s2c EXCEPT ![c] = Append(@, token)]
  BY DEF write_some
<1>2. /\ s \in Seq(Token) /\ u \in Seq(Token) /\ u # <<>>
  BY DEF write_some, TypeOK, WireTypeOK, ServerTypeOK
<1>3. s2c'[c] = Append(s, token) /\ unsent'[c] = Tail(u)
  BY <1>1 DEF write_some, TypeOK, WireTypeOK, ServerTypeOK
<1>4. /\ pc' = pc /\ asked' = asked /\ answer' = answer /\ response' = response
      /\ message_' = message_ /\ c2s' = c2s /\ peer' = peer
  BY DEF write_some, clientVars
<1>5. CASE pc[c] \in Live
  <2>1. About(s, e) /\ About(u, e) /\ Replied(c)
    BY <1>2, <1>5 DEF OneReply, Replied
  <2>2. token \in Token /\ token.elem \in {e, None}
    <3>1. CASE token = Junk
      BY <3>1 DEF Junk, Token
    <3>2. CASE token = Head(u)
      <4>1. Head(u) = u[1] /\ 1 \in 1 .. Len(u)
        BY <1>2, HeadTailProperties, LenProperties, EmptySeq
      <4>2. u[1] \in Token
        BY <1>2, <4>1, ElementOfSeq
      <4> HIDE DEF u, e
      <4> QED
        BY <2>1, <3>2, <4>1, <4>2 DEF About
    <3> QED
      BY <3>1, <3>2
  <2> DEFINE x == Append(s, token)
             y == Tail(u)
  <2>3. /\ Len(x) = Len(s) + 1 /\ x[Len(s) + 1] = token
        /\ \A i \in 1 .. Len(s) : x[i] = s[i]
    BY <1>2, <2>2, AppendProperties
  <2>4. /\ Len(u) \in Nat /\ Len(u) >= 1 /\ Len(y) = Len(u) - 1
        /\ \A i \in 1 .. Len(u) - 1 : y[i] = u[i + 1]
    <3>1. Len(u) \in Nat /\ Len(u) # 0
      BY <1>2, LenProperties, EmptySeq
    <3>2. /\ Len(y) = Len(u) - 1
          /\ \A i \in 1 .. Len(Tail(u)) : Tail(u)[i] = u[i + 1]
      BY <1>2, HeadTailProperties
    <3> QED
      BY <3>1, <3>2
  <2>5. About(x, e)
    <3>1. Len(s) \in Nat
      BY <1>2, LenProperties
    <3>2. \A i \in 1 .. Len(x) : i \in 1 .. Len(s) \/ i = Len(s) + 1
      BY <2>3, <3>1
    <3> HIDE DEF x, s, e
    <3> QED
      BY <2>1, <2>2, <2>3, <3>2 DEF About
  <2>6. About(y, e)
    <3>1. \A i \in 1 .. Len(y) : i + 1 \in 1 .. Len(u) /\ i \in 1 .. Len(u) - 1
      BY <2>4
    <3> HIDE DEF y, u, e
    <3> QED
      BY <2>1, <2>4, <3>1 DEF About
  <2>7. Len(response'[c]) + Len(s2c'[c]) + Len(unsent'[c]) <= Len(Shape["reply"]) + 1
    <3> DEFINE r == Len(response[c])
               ls == Len(s)
               lu == Len(u)
               n == Len(Shape["reply"])
    <3>1. r \in Nat /\ ls \in Nat /\ lu \in Nat /\ n \in Nat /\ r + ls + lu <= n + 1
      <4>1. response[c] \in Seq(Token) /\ Shape["reply"] \in Seq(SUBSET (Elements \cup {None}))
        BY WireAssumption DEF TypeOK, ClientTypeOK, PayloadKinds
      <4> QED
        BY <1>2, <1>5, <4>1, LenProperties DEF OneReply
    <3>2. Len(response'[c]) = r /\ Len(s2c'[c]) = ls + 1 /\ Len(unsent'[c]) = lu - 1
      BY <1>3, <1>4, <2>3, <2>4
    <3> HIDE DEF r, ls, lu, n
    <3>3. r + (ls + 1) + (lu - 1) <= n + 1
      BY <3>1
    <3> QED
      BY <3>2, <3>3 DEF n
  <2>8. ~ WholeWrites
    BY <1>2, <1>5 DEF OneReply
  <2> HIDE DEF x, y
  <2>9. About(s2c[c], asked[c])' /\ About(unsent[c], asked[c])'
    BY <1>3, <1>4, <2>5, <2>6 DEF About, x, y
  <2>10. Replied(c) => pc[c] = "waiting" /\ message_[c] = <<>> /\ c2s[c] = <<>>
    BY <1>5 DEF OneReply
  <2> QED
    BY <1>4, <1>5, <2>1, <2>7, <2>8, <2>9, <2>10 DEF OneReply, About, LastQuery, Gone, Live
<1>6. CASE pc[c] \notin Live
  BY <1>4, <1>6 DEF OneReply
<1> QED
  BY <1>5, <1>6

\* The server's part.
LEMMA ServerStepReplies ==
  ASSUME Setup = "PIR", Separate, TypeOK, OneReplyInv,
         NEW c \in Clients, ServerStep(c), UNCHANGED clientVars
  PROVE  OneReplyInv'
<1>1. /\ pc' = pc /\ asked' = asked /\ answer' = answer /\ response' = response
  BY DEF clientVars
<1>2. \A d \in Clients : OneReply(d)
  BY DEF OneReplyInv
<1>3. \A d \in Clients : handler[d] \notin {"handle_read_plain", "handle_write_plain"}
  BY DEF OneReplyInv
<1>4. ASSUME UNCHANGED <<message_, c2s, s2c, peer, unsent>>
      PROVE  \A d \in Clients : OneReply(d)'
  BY <1>1, <1>2, <1>4, SameStreams
<1>5. CASE handle_accept(c)
  <2>1. \A d \in Clients : OneReply(d)'
    BY <1>4, <1>5 DEF handle_accept
  <2>2. \A d \in Clients : handler'[d] \notin {"handle_read_plain", "handle_write_plain"}
    BY <1>3, <1>5 DEF handle_accept, start, TypeOK, ServerTypeOK
  <2> QED
    BY <2>1, <2>2 DEF OneReplyInv
<1>6. CASE read_some(c)
  <2>1. OneReply(c)'
    BY <1>2, <1>6, QueryRead
  <2>2. ASSUME NEW d \in Clients, d # c PROVE OneReply(d)'
    <3>1. /\ message_'[d] = message_[d] /\ c2s'[d] = c2s[d]
          /\ s2c' = s2c /\ peer' = peer /\ unsent' = unsent
      BY <1>6, <2>2 DEF read_some, TypeOK, WireTypeOK, ServerTypeOK
    <3> QED
      BY <1>1, <1>2, <3>1, SameStreams
  <2>3. handler' = handler
    BY <1>6 DEF read_some
  <2> QED
    BY <1>3, <2>1, <2>2, <2>3 DEF OneReplyInv
<1>7. CASE handle_read_galkeys(c)
  <2>1. UNCHANGED <<unsent, c2s, s2c, peer>>
    BY <1>7 DEF handle_read_galkeys
  <2>2. ASSUME NEW d \in Clients PROVE OneReply(d)'
    <3>1. CASE message_'[d] = message_[d]
      BY <1>1, <1>2, <2>1, <3>1, SameStreams
    <3>2. CASE message_'[d] = <<>>
      <4>1. LastQuery(d, message_[d], Len(c2s[d]))'
        BY <3>2 DEF LastQuery
      <4>2. LastQuery(d, c2s[d], 0)' <=> LastQuery(d, c2s[d], 0)
        BY <1>1, <2>1 DEF LastQuery
      <4>3. OneReply(d)
        BY <1>2
      <4> QED
        BY <1>1, <2>1, <3>2, <4>1, <4>2, <4>3 DEF OneReply, Replied, About, Gone
    <3> QED
      BY <1>7, <3>1, <3>2 DEF handle_read_galkeys, cleared, TypeOK, ServerTypeOK
  <2>3. \A d \in Clients : handler'[d] \notin {"handle_read_plain", "handle_write_plain"}
    BY <1>3, <1>7 DEF handle_read_galkeys, start, TypeOK, ServerTypeOK
  <2> QED
    BY <2>2, <2>3 DEF OneReplyInv
<1>8. CASE handle_read_pir(c)
  <2>1. UNCHANGED <<c2s, peer>>
    BY <1>8 DEF handle_read_pir
  <2>2. CASE exit_on_error(c)
    <3>1. UNCHANGED <<handler, message_, unsent, s2c>>
      BY <2>2 DEF exit_on_error
    <3> QED
      BY <1>3, <1>4, <2>1, <3>1 DEF OneReplyInv
  <2>3. CASE HasDelimiter(message_[c])
             /\ respond(c, EraseDelimiter(message_[c]), "handle_write_pir")
    <3>1. \A d \in Clients : OneReply(d)'
      BY <1>2, <2>1, <2>3, ReplyBegun
    <3>2. \A d \in Clients : handler'[d] \notin {"handle_read_plain", "handle_write_plain"}
      BY <1>3, <2>3 DEF respond, async_write, TypeOK, ServerTypeOK
    <3> QED
      BY <3>1, <3>2 DEF OneReplyInv
  <2> QED
    BY <1>8, <2>2, <2>3 DEF handle_read_pir
<1>9. CASE write_some(c)
  <2>1. OneReply(c)'
    BY <1>2, <1>9, ReplyWritten
  <2>2. ASSUME NEW d \in Clients, d # c PROVE OneReply(d)'
    <3>1. /\ s2c'[d] = s2c[d] /\ unsent'[d] = unsent[d]
          /\ message_' = message_ /\ c2s' = c2s /\ peer' = peer
      BY <1>9, <2>2 DEF write_some, TypeOK, WireTypeOK, ServerTypeOK
    <3> QED
      BY <1>1, <1>2, <3>1, SameStreams
  <2>3. handler' = handler
    BY <1>9 DEF write_some
  <2> QED
    BY <1>3, <2>1, <2>2, <2>3 DEF OneReplyInv
<1>10. CASE handle_write_pir(c)
  <2>1. UNCHANGED <<message_, c2s, s2c, peer>>
    BY <1>10 DEF handle_write_pir, write_done
  <2>2. ASSUME NEW d \in Clients PROVE ~ Gone(d) => unsent'[d] = unsent[d]
    BY <1>10 DEF handle_write_pir, write_done, TypeOK, ServerTypeOK
  <2>3. \A d \in Clients : OneReply(d)'
    BY <1>1, <1>2, <2>1, <2>2, SameStreams
  <2>4. \A d \in Clients : handler'[d] \notin {"handle_read_plain", "handle_write_plain"}
    BY <1>3, <1>10 DEF handle_write_pir, write_done, TypeOK, ServerTypeOK
  <2> QED
    BY <2>3, <2>4 DEF OneReplyInv
<1>11. ~ handle_read_plain(c) /\ ~ handle_write_plain(c)
  BY <1>3 DEF handle_read_plain, handle_write_plain
<1> QED
  BY <1>5, <1>6, <1>7, <1>8, <1>9, <1>10, <1>11 DEF ServerStep

-----------------------------------------------------------------------------
\* The client's part.

\* What it keeps of a response ends before the first delimiter.
LEMMA StrBeforeDelimiter ==
  ASSUME NEW r \in Seq(Token), HasDelimiter(r)
  PROVE  /\ reply_str(r) \in Seq(Token)
         /\ Len(reply_str(r)) + 1 <= Len(r)
         /\ \A i \in 1 .. Len(reply_str(r)) : reply_str(r)[i] = r[i]
<1> DEFINE I == {i \in 1 .. Len(r) : r[i].delim}
           less == OpToRel(<, Nat)
<1>1. Len(r) \in Nat
  BY LenProperties
<1>2. I # {} /\ I \subseteq Nat
  BY <1>1 DEF HasDelimiter
<1>3. Min(I) \in I
  <2> HIDE DEF I
  <2>1. \E m \in I : \A y \in I : ~ (<<y, m>> \in less)
    BY <1>2, NatLessThanWellFounded, WFMin
  <2>2. PICK m \in I : \A y \in I : ~ (<<y, m>> \in less)
    BY <2>1
  <2>3. \A y \in I : m <= y
    <3> SUFFICES ASSUME NEW y \in I PROVE m <= y
      OBVIOUS
    <3>1. m \in Nat /\ y \in Nat /\ <<y, m>> \notin less
      BY <1>2, <2>2
    <3> QED
      BY <3>1 DEF OpToRel
  <2> QED
    BY <2>3 DEF Min
<1> DEFINE k == Min(I) - 1
<1>4. SelectInSeq(r, LAMBDA t : t.delim) = Min(I)
  BY <1>2 DEF SelectInSeq
<1>5. reply_str(r) = SubSeq(r, 1, k)
  BY <1>4 DEF reply_str
<1>6. k \in 0 .. Len(r) /\ k + 1 <= Len(r)
  <2> DEFINE m == Min(I)
  <2>1. m \in 1 .. Len(r)
    BY <1>3
  <2> HIDE DEF m
  <2>2. m - 1 \in 0 .. Len(r) /\ (m - 1) + 1 <= Len(r)
    BY <1>1, <2>1
  <2> QED
    BY <2>2 DEF m
<1> HIDE DEF k
<1> QED
  BY <1>5, <1>6, PartTokens

\* Reading a reply moves its beginning.
LEMMA ReplyRead ==
  ASSUME TypeOK, NEW c \in Clients, OneReply(c), read_response(c),
         UNCHANGED serverVars
  PROVE  OneReply(c)'
<1>1. PICK k \in 1 .. Len(s2c[c]) :
        /\ response' = [response EXCEPT ![c] = @ \o SubSeq(s2c[c], 1, k)]
        /\ s2c' = [s2c EXCEPT ![c] = SubSeq(@, k + 1, Len(@))]
  BY DEF read_response
<1>2. /\ c2s' = c2s /\ unsent' = unsent /\ peer' = peer /\ pc' = pc
      /\ asked' = asked /\ message_' = message_ /\ answer' = answer
      /\ pc[c] = "waiting"
  BY DEF read_response, serverVars
<1> DEFINE a == response[c]
           b == s2c[c]
           x == response'[c]
           y == s2c'[c]
           e == asked[c]
<1>3. /\ a \in Seq(Token) /\ b \in Seq(Token)
      /\ x = a \o SubSeq(b, 1, k) /\ y = SubSeq(b, k + 1, Len(b))
      /\ unsent[c] \in Seq(Token)
  BY <1>1 DEF TypeOK, WireTypeOK, ServerTypeOK, ClientTypeOK
<1> HIDE DEF a, b, x, y
<1>4. /\ Len(x) = Len(a) + k /\ Len(y) = Len(b) - k
      /\ \A i \in 1 .. Len(a) : x[i] = a[i]
      /\ \A i \in 1 .. k : x[Len(a) + i] = b[i]
      /\ \A i \in 1 .. Len(b) - k : y[i] = b[k + i]
  <2>1. k \in 1 .. Len(b)
    BY DEF b
  <2> QED
    BY <1>3, <2>1, ReadMoves
<1>5. Len(a) \in Nat /\ Len(b) \in Nat /\ k \in 1 .. Len(b)
  BY <1>3, LenProperties DEF b
<1>6. About(a, e) /\ About(b, e) /\ b # <<>>
      /\ Len(a) + Len(b) + Len(unsent[c]) <= Len(Shape["reply"]) + 1
  <2>1. b # <<>>
    BY <1>3, <1>5
  <2> QED
    BY <1>2, <2>1 DEF OneReply, Live, a, b
<1> HIDE DEF e
<1>7. About(x, e)
  <2> SUFFICES ASSUME NEW i \in 1 .. Len(x) PROVE x[i].elem \in {e, None}
    BY DEF About
  <2>1. CASE i \in 1 .. Len(a)
    BY <1>4, <1>6, <2>1 DEF About
  <2>2. CASE i \notin 1 .. Len(a)
    <3> DEFINE j == i - Len(a)
    <3>1. j \in 1 .. k /\ j \in 1 .. Len(b) /\ Len(a) + j = i
      BY <1>4, <1>5, <2>2
    <3> HIDE DEF j
    <3>2. x[Len(a) + j] = b[j]
      BY <1>4, <3>1
    <3> QED
      BY <1>6, <3>1, <3>2 DEF About
  <2> QED
    BY <2>1, <2>2
<1>8. About(y, e)
  <2>1. \A i \in 1 .. Len(y) : i \in 1 .. Len(b) - k /\ k + i \in 1 .. Len(b)
    BY <1>4, <1>5
  <2> QED
    BY <1>4, <1>6, <2>1 DEF About
<1>9. Len(x) + Len(y) + Len(unsent[c]) <= Len(Shape["reply"]) + 1
  <2> DEFINE n == Len(Shape["reply"])
             la == Len(a)
             lb == Len(b)
             lu == Len(unsent[c])
             lx == Len(x)
             ly == Len(y)
  <2>1. /\ la \in Nat /\ lb \in Nat /\ k \in Nat /\ lu \in Nat /\ n \in Nat
        /\ lx = la + k /\ ly = lb - k /\ la + lb + lu <= n + 1
    <3>1. n \in Nat
      BY WireAssumption, LenProperties DEF PayloadKinds
    <3>2. lu \in Nat
      BY <1>3, LenProperties
    <3>3. k \in Nat
      BY <1>5
    <3> QED
      BY <1>4, <1>5, <1>6, <3>1, <3>2, <3>3
  <2> HIDE DEF n, la, lb, lu, lx, ly
  <2>2. lx + ly + lu <= n + 1
    BY <2>1
  <2> QED
    BY <2>2 DEF n, lu, lx, ly
<1>10. Replied(c)
  BY <1>6 DEF Replied, b
<1> QED
  BY <1>2, <1>7, <1>8, <1>9, <1>10
     DEF OneReply, Replied, About, LastQuery, Gone, Live, x, y, e

\* A client that can keep a response has kept all of the reply: nothing of it
\* is left to mix with the next.
LEMMA ReplyReceived ==
  ASSUME Setup = "PIR", TypeOK, NEW c \in Clients, OneReply(c), receive(c),
         UNCHANGED serverVars
  PROVE  OneReply(c)'
<1> DEFINE r == response[c]
           str == reply_str(r)
           n == Len(Shape["reply"])
           e == asked[c]
<1>1. /\ pc[c] = "waiting" /\ HasDelimiter(r)
      /\ c2s' = c2s /\ s2c' = s2c /\ asked' = asked
      /\ message_' = message_ /\ unsent' = unsent
  BY DEF receive, serverVars
<1>2. r \in Seq(Token) /\ s2c[c] \in Seq(Token) /\ unsent[c] \in Seq(Token)
      /\ e \in Elements \cup {None}
  BY DEF TypeOK, WireTypeOK, ServerTypeOK, ClientTypeOK
<1>3. n \in Nat \ {0}
  BY WireAssumption, LenProperties DEF PayloadKinds
<1>4. /\ str \in Seq(Token) /\ Len(str) + 1 <= Len(r)
      /\ \A i \in 1 .. Len(str) : str[i] = r[i]
  BY <1>1, <1>2, StrBeforeDelimiter
<1>5. /\ Len(r) + Len(s2c[c]) + Len(unsent[c]) <= n + 1
      /\ About(r, e) /\ ~ Gone(c)
      /\ Replied(c) => message_[c] = <<>> /\ c2s[c] = <<>>
  BY <1>1 DEF OneReply, Live
<1>6. CASE Len(str) < n
  <2>1. pc'[c] = "aborted"
    BY <1>6 DEF receive, Throw, goto, TypeOK, ClientTypeOK
  <2> QED
    BY <2>1 DEF OneReply, Live
<1>7. CASE ~ (Len(str) < n)
  <2>1. /\ \/ \E x \in decode_reply(c, str) : answer' = [answer EXCEPT ![c] = x]
           \/ answer' = [answer EXCEPT ![c] = None]
        /\ response' = [response EXCEPT ![c] = <<>>]
        /\ pc' = [pc EXCEPT ![c] = "ready"]
        /\ peer' = peer
    BY <1>7 DEF receive, fresh_response, goto
  <2>2. s2c[c] = <<>> /\ unsent[c] = <<>> /\ r # <<>> /\ 1 \in 1 .. Len(str)
    <3> DEFINE ls == Len(str)
               lr == Len(r)
               l1 == Len(s2c[c])
               l2 == Len(unsent[c])
    <3>1. /\ ls \in Nat /\ lr \in Nat /\ l1 \in Nat /\ l2 \in Nat
          /\ ls + 1 <= lr /\ lr + l1 + l2 <= n + 1 /\ ~ (ls < n)
      BY <1>2, <1>4, <1>5, <1>7, LenProperties
    <3> HIDE DEF ls, lr, l1, l2, n
    <3>2. l1 = 0 /\ l2 = 0 /\ lr # 0 /\ 1 \in 1 .. ls
      BY <1>3, <3>1
    <3>3. Len(s2c[c]) = 0 /\ Len(unsent[c]) = 0
      BY <3>2 DEF l1, l2
    <3>4. r # <<>>
      BY <3>2 DEF lr
    <3> QED
      BY <1>2, <3>2, <3>3, <3>4, EmptySeq DEF ls
  <2>3. ASSUME NEW x \in decode_reply(c, str) PROVE x = e
    <3>1. x \in Elements /\ IsPrefix(Payload("reply", c, x), str)
      BY DEF decode_reply
    <3>2. /\ "reply" \in PayloadKinds /\ c \in Clients \cup {None}
          /\ x \in Elements \cup {None}
      BY <3>1 DEF PayloadKinds
    <3> HIDE DEF str
    <3>3. 1 \in 1 .. n /\ \A i \in 1 .. n : str[i].elem = x
      BY <1>3, <1>4, <3>1, <3>2, ParsedTokens
    <3>4. 1 \in 1 .. Len(r) /\ str[1] = r[1]
      <4> DEFINE ls == Len(str)
                 lr == Len(r)
      <4>1. lr \in Nat /\ ls \in Nat /\ 1 \in 1 .. ls /\ ls + 1 <= lr
        BY <1>2, <1>4, <2>2, LenProperties
      <4>2. 1 \in 1 .. ls /\ \A i \in 1 .. ls : str[i] = r[i]
        BY <1>4, <4>1
      <4>3. 1 \in 1 .. lr
        <5> HIDE DEF ls, lr
        <5> QED
          BY <4>1
      <4> HIDE DEF ls, lr, r
      <4> QED
        BY <4>2, <4>3 DEF lr
    <3>5. r[1].elem \in {e, None}
      BY <1>5, <3>4 DEF About
    <3> QED
      BY <3>1, <3>3, <3>4, <3>5, WireAssumption
  <2>4. answer'[c] \in {e, None}
    BY <2>1, <2>3 DEF TypeOK, ClientTypeOK
  <2>5. message_[c] = <<>> /\ c2s[c] = <<>>
    BY <1>5, <2>2 DEF Replied
  <2>6. response'[c] = <<>> /\ pc'[c] = "ready"
    BY <2>1 DEF TypeOK, ClientTypeOK
  <2>7. Len(response'[c]) + Len(s2c'[c]) + Len(unsent'[c]) <= n + 1
    <3>1. Len(<<>>) = 0
      OBVIOUS
    <3> QED
      BY <1>1, <1>3, <2>2, <2>6, <3>1
  <2> HIDE DEF n
  <2> QED
    BY <1>1, <1>5, <2>1, <2>2, <2>4, <2>5, <2>6, <2>7
       DEF OneReply, Replied, About, LastQuery, Gone, n
<1> QED
  BY <1>6, <1>7

\* A message after what was there: its tokens, and those before it.
LEMMA MessageAfter ==
  ASSUME NEW s \in Seq(Token), NEW kind \in PayloadKinds,
         NEW who \in Clients \cup {None}, NEW elem \in Elements \cup {None},
         NEW i \in 1 .. Len(s \o Message(kind, who, elem))
  PROVE  LET w == s \o Message(kind, who, elem)
         IN  /\ Len(w) = Len(s) + (Len(Shape[kind]) + 1)
             /\ i \notin 1 .. Len(s) =>
                  \/ w[i].kind = "end"
                  \/ w[i].kind = kind /\ w[i].elem = elem
                     /\ w[i].part + Len(s) = i
             /\ i \in 1 .. Len(s) => w[i] = s[i]
<1> DEFINE m == Message(kind, who, elem)
           n == Len(Shape[kind])
           w == s \o m
           ls == Len(s)
<1>8. m \in Seq(Token) /\ n \in Nat \ {0} /\ Len(m) = n + 1
  BY MessageType, LenProperties, WireAssumption
<1>9. m[Len(m)].kind = "end"
  BY AnyMessage
<1>10. \A j \in 1 .. Len(m) - 1 : m[j].kind = kind
  BY AnyMessage
<1>11. \A j \in 1 .. Len(m) - 1 : m[j].elem = elem
  BY AnyMessage
<1>12. \A j \in 1 .. Len(m) - 1 : m[j].part = j
  BY AnyMessage
<1>1. /\ m \in Seq(Token) /\ n \in Nat \ {0} /\ Len(m) = n + 1
      /\ \A j \in 1 .. Len(m) - 1 :
           m[j].kind = kind /\ m[j].elem = elem /\ m[j].part = j
      /\ m[Len(m)].kind = "end"
  <2> HIDE DEF m, n
  <2> QED
    BY <1>8, <1>9, <1>10, <1>11, <1>12
<1>2. ls \in Nat
  BY LenProperties
<1> HIDE DEF m, n
<1>3. /\ Len(w) = ls + Len(m)
      /\ \A j \in 1 .. ls + Len(m) : w[j] = IF j <= ls THEN s[j] ELSE m[j - ls]
  BY <1>1, ConcatProperties
<1> HIDE DEF w, ls
<1>4. i \in 1 .. ls + Len(m)
  BY <1>3 DEF w, m
<1>5. ASSUME i \notin 1 .. ls
      PROVE  \/ w[i].kind = "end"
             \/ w[i].kind = kind /\ w[i].elem = elem /\ w[i].part + ls = i
  <2> DEFINE j == i - ls
  <2>1. /\ j \in 1 .. Len(m) /\ j + ls = i /\ ~ (i <= ls)
    BY <1>1, <1>2, <1>4, <1>5
  <2>2. w[i] = m[j]
    BY <1>3, <1>4, <2>1
  <2> HIDE DEF j
  <2>3. j \in 1 .. Len(m) - 1 \/ j = Len(m)
    BY <1>1, <2>1
  <2> QED
    BY <1>1, <2>1, <2>2, <2>3
<1>6. i \in 1 .. ls => w[i] = s[i]
  BY <1>2, <1>3, <1>4
<1>7. Len(w) = ls + (n + 1)
  BY <1>1, <1>3
<1> QED
  BY <1>5, <1>6, <1>7 DEF w, ls, m, n

\* A client that does not ask yet, or no more.
LEMMA StillQuiet ==
  ASSUME NEW c \in Clients, OneReply(c), pc[c] \in Live, pc[c] # "waiting",
         pc'[c] # "waiting", pc'[c] \in Live => ~ Gone(c)',
         UNCHANGED <<asked, answer, response, s2c, message_, unsent>>,
         \A i \in 1 .. Len(c2s'[c]) :
           ~ (c2s'[c][i].kind = "query" /\ c2s'[c][i].part = 1)
  PROVE  OneReply(c)'
<1>1. /\ response[c] = <<>> /\ s2c[c] = <<>> /\ unsent[c] = <<>>
      /\ \A i \in 1 .. Len(message_[c]) :
           ~ (message_[c][i].kind = "query" /\ message_[c][i].part = 1)
  BY NotAsking
<1>2. answer[c] \in {asked[c], None}
  BY DEF OneReply, Live
<1>3. LastQuery(c, message_[c], Len(c2s[c]))' /\ LastQuery(c, c2s[c], 0)'
  BY <1>1 DEF LastQuery
<1>4. /\ Len(response[c]) + Len(s2c[c]) + Len(unsent[c]) <= Len(Shape["reply"]) + 1
      /\ About(response[c], asked[c]) /\ About(s2c[c], asked[c])
      /\ About(unsent[c], asked[c])
  BY DEF OneReply
<1> QED
  BY <1>1, <1>2, <1>3, <1>4 DEF OneReply, Replied, About

\* Keys are no query.
LEMMA KeysPosted ==
  ASSUME TypeOK, NEW c \in Clients, OneReply(c), send_galois_keys(c),
         UNCHANGED serverVars
  PROVE  OneReply(c)'
<1> DEFINE s == c2s[c]
           w == s \o Message("key", c, None)
<1>1. /\ pc[c] = "connected" /\ pc'[c] = "sleeping" /\ c2s'[c] = w
      /\ peer' = peer
      /\ UNCHANGED <<asked, answer, response, s2c, message_, unsent>>
  BY DEF send_galois_keys, goto, serverVars, TypeOK, WireTypeOK, ClientTypeOK
<1>2. s \in Seq(Token) /\ "key" \in PayloadKinds /\ c \in Clients \cup {None}
      /\ None \in Elements \cup {None}
  BY DEF TypeOK, WireTypeOK, PayloadKinds
<1>3. \A i \in 1 .. Len(s) : ~ (s[i].kind = "query" /\ s[i].part = 1)
  BY <1>1, NotAsking DEF Live
<1> HIDE DEF s
<1>4. ASSUME NEW i \in 1 .. Len(w)
      PROVE  ~ (w[i].kind = "query" /\ w[i].part = 1)
  <2>1. CASE i \in 1 .. Len(s)
    <3>1. w[i] = s[i]
      BY <1>2, <2>1, MessageAfter
    <3> QED
      BY <1>3, <2>1, <3>1
  <2>2. CASE i \notin 1 .. Len(s)
    <3>1. w[i].kind = "end" \/ w[i].kind = "key"
      BY <1>2, <2>2, MessageAfter
    <3> QED
      BY <3>1
  <2> QED
    BY <2>1, <2>2
<1>5. ~ Gone(c)'
  BY <1>1 DEF OneReply, Gone, Live
<1> HIDE DEF w
<1> QED
  BY <1>1, <1>4, <1>5, StillQuiet DEF Live

\* A new query begins once, and ends what there is for the server to read.
LEMMA QueryPosted ==
  ASSUME TypeOK, NEW c \in Clients, OneReply(c), query(c), UNCHANGED serverVars
  PROVE  OneReply(c)'
<1>1. PICK e \in Elements :
        /\ asked' = [asked EXCEPT ![c] = e]
        /\ c2s' = [c2s EXCEPT ![c] = @ \o Message("query", c, e)]
  BY DEF query
<1> DEFINE s == c2s[c]
           w == s \o Message("query", c, e)
           n == Len(Shape["query"])
<1>2. /\ pc[c] = "ready" /\ pc'[c] = "waiting" /\ c2s'[c] = w /\ asked'[c] = e
      /\ UNCHANGED <<answer, response, s2c, peer, message_, unsent>>
  BY <1>1 DEF query, goto, serverVars, TypeOK, WireTypeOK, ClientTypeOK
<1>3. /\ s \in Seq(Token) /\ "query" \in PayloadKinds
      /\ c \in Clients \cup {None} /\ e \in Elements \cup {None}
  BY DEF TypeOK, WireTypeOK, PayloadKinds
<1>4. n \in Nat
  BY WireAssumption, LenProperties DEF PayloadKinds
<1>5. /\ response[c] = <<>> /\ s2c[c] = <<>> /\ unsent[c] = <<>>
      /\ \A i \in 1 .. Len(message_[c]) :
           ~ (message_[c][i].kind = "query" /\ message_[c][i].part = 1)
      /\ \A i \in 1 .. Len(s) : ~ (s[i].kind = "query" /\ s[i].part = 1)
  BY <1>2, NotAsking DEF Live
<1> HIDE DEF s
<1>6. ASSUME NEW i \in 1 .. Len(w), w[i].kind = "query", w[i].part = 1
      PROVE  w[i].elem = e /\ Len(w) + 0 = i + n
  <2>1. i \notin 1 .. Len(s)
    <3> SUFFICES ASSUME i \in 1 .. Len(s) PROVE FALSE
      OBVIOUS
    <3>1. w[i] = s[i]
      BY <1>3, MessageAfter
    <3> QED
      BY <1>5, <1>6, <3>1
  <2>2. \/ w[i].kind = "end"
        \/ w[i].kind = "query" /\ w[i].elem = e /\ w[i].part + Len(s) = i
    BY <1>3, <2>1, MessageAfter
  <2>3. Len(w) = Len(s) + (n + 1)
    BY <1>3, MessageAfter
  <2>4. w[i].elem = e /\ 1 + Len(s) = i
    BY <1>6, <2>2
  <2> DEFINE ls == Len(s)
             lw == Len(w)
  <2>5. ls \in Nat /\ lw = ls + (n + 1) /\ 1 + ls = i
    BY <1>3, <2>3, <2>4, LenProperties
  <2> HIDE DEF ls, lw, n, w
  <2>6. lw + 0 = i + n
    BY <1>4, <2>5
  <2> QED
    BY <2>4, <2>6 DEF lw
<1> HIDE DEF w
<1>7. LastQuery(c, c2s[c], 0)'
  BY <1>2, <1>6 DEF LastQuery, n
<1>8. LastQuery(c, message_[c], Len(c2s[c]))'
  BY <1>2, <1>5 DEF LastQuery
<1>9. /\ Len(response[c]) + Len(s2c[c]) + Len(unsent[c]) <= Len(Shape["reply"]) + 1
      /\ ~ Gone(c)
  BY <1>2 DEF OneReply, Live
<1>10. /\ About(response[c], asked[c])' /\ About(s2c[c], asked[c])'
       /\ About(unsent[c], asked[c])' /\ ~ Replied(c)' /\ ~ Gone(c)'
  BY <1>2, <1>5, <1>9 DEF About, Replied, Gone
<1> QED
  BY <1>2, <1>5, <1>7, <1>8, <1>9, <1>10 DEF OneReply

LEMMA ClientStepReplies ==
  ASSUME Setup = "PIR", TypeOK, TypeOK', OneReplyInv,
         NEW c \in Clients, ClientStep(c) \/ killed(c), UNCHANGED serverVars
  PROVE  OneReplyInv'
<1>1. \A d \in Clients : OneReply(d)
  BY DEF OneReplyInv
<1>2. ASSUME NEW d \in Clients, d # c PROVE OneReply(d)'
  <2>1. /\ pc'[d] = pc[d] /\ asked'[d] = asked[d] /\ answer'[d] = answer[d]
        /\ peer'[d] = peer[d] /\ response'[d] = response[d]
        /\ c2s'[d] = c2s[d] /\ s2c'[d] = s2c[d]
    BY <1>2, OtherUntouched
  <2>2. message_' = message_ /\ unsent' = unsent
    BY DEF serverVars
  <2> QED
    BY <1>1, <2>1, <2>2, SameStreams
<1>3. OneReply(c)
  BY <1>1
<1> DEFINE Quiet == /\ pc[c] \in Live /\ pc[c] # "waiting"
                    /\ c2s'[c] = c2s[c]
                    /\ UNCHANGED <<asked, answer, response, s2c, message_, unsent>>
                    /\ pc'[c] # "waiting"
                    /\ pc'[c] \in Live => ~ Gone(c)'
<1>4. ASSUME Quiet PROVE OneReply(c)'
  <2>1. \A i \in 1 .. Len(c2s'[c]) :
          ~ (c2s'[c][i].kind = "query" /\ c2s'[c][i].part = 1)
    BY <1>3, <1>4, NotAsking
  <2> QED
    BY <1>3, <1>4, <2>1, StillQuiet
<1>5. ASSUME pc'[c] \in {"refused", "aborted", "killed"} PROVE OneReply(c)'
  BY <1>5 DEF OneReply, Live
<1>6. ASSUME connect(c) PROVE OneReply(c)'
  <2>1. Quiet
    BY <1>6 DEF connect, goto, serverVars, Live, Gone, TypeOK, WireTypeOK, ClientTypeOK
  <2> QED
    BY <1>4, <2>1
<1>7. ASSUME wake_up(c) PROVE OneReply(c)'
  <2>1. Quiet
    BY <1>3, <1>7 DEF wake_up, wireVars, goto, serverVars, Live, Gone, OneReply,
       TypeOK, ClientTypeOK
  <2> QED
    BY <1>4, <2>1
<1>8. ASSUME return_0(c) PROVE OneReply(c)'
  <2>1. Quiet
    BY <1>8 DEF return_0, goto, serverVars, Live, TypeOK, ClientTypeOK
  <2> QED
    BY <1>4, <2>1
<1>9. ASSUME throw_broken(c) PROVE OneReply(c)'
  BY <1>5, <1>9 DEF throw_broken, Throw, goto, TypeOK, ClientTypeOK
<1>10. ASSUME killed(c) PROVE OneReply(c)'
  BY <1>5, <1>10 DEF killed, goto, TypeOK, ClientTypeOK
<1>11. OneReply(c)'
  BY <1>3, <1>6, <1>7, <1>8, <1>9, <1>10, KeysPosted, QueryPosted, ReplyRead,
     ReplyReceived DEF ClientStep
<1>12. handler' = handler
  BY DEF serverVars
<1> QED
  BY <1>2, <1>11, <1>12 DEF OneReplyInv

LEMMA OneReplyStep ==
  ASSUME Setup = "PIR", Separate, TypeOK, OneReplyInv, [Next]_vars
  PROVE  OneReplyInv'
<1>1. TypeOK'
  BY TypeStep
<1>2. CASE UNCHANGED vars
  <2>1. \A d \in Clients : OneReply(d)'
    BY <1>2, SameStreams DEF OneReplyInv, vars, wireVars, serverVars, clientVars
  <2> QED
    BY <1>2, <2>1 DEF OneReplyInv, vars, serverVars
<1>3. CASE gen_database /\ UNCHANGED clientVars
  <2>1. \A d \in Clients : OneReply(d)'
    BY <1>3, SameStreams DEF OneReplyInv, gen_database, wireVars, clientVars
  <2> QED
    BY <1>3, <2>1 DEF OneReplyInv, gen_database
<1> QED
  BY <1>1, <1>2, <1>3, ServerStepReplies, ClientStepReplies DEF Next, Terminating

LEMMA OneReplyInit == ASSUME Setup = "PIR", Init PROVE OneReplyInv
<1>1. Len(Shape["reply"]) \in Nat /\ Len(<<>>) = 0
  BY WireAssumption, LenProperties DEF PayloadKinds
<1>2. \A c \in Clients : OneReply(c)
  BY <1>1 DEF Init, WireInit, ServerInit, ClientInit, OneReply, Replied, About,
     LastQuery, Gone
<1> QED
  BY <1>2 DEF OneReplyInv, Init, ServerInit

\* Whatever is cut, cleared away or written short, a client that is alive has at
\* most one reply under way, no longer than one and about its last query, and
\* while it has one its connection has nothing left to read: handle_read_pir
\* parses a query whole or not at all, and no query twice.
THEOREM OneReplyEach ==
  ASSUME Setup = "PIR", Separate
  PROVE  Spec => []OneReplyInv
<1>1. Init => TypeOK /\ OneReplyInv
  BY InitType, OneReplyInit
<1>2. TypeOK /\ OneReplyInv /\ [Next]_vars => TypeOK' /\ OneReplyInv'
  BY TypeStep, OneReplyStep
<1> QED
  BY <1>1, <1>2, PTL DEF Spec

\* In PIR setup, and unless another connection's reply can be put where the
\* rest of a reply still waits in freed memory, no reply is taken for the
\* answer to another query than the last: not when it arrives cut short, with
\* junk in it, when a delimiter within it ends the read early, or when part of
\* the query was cleared along with the keys.  No payload has to be free of
\* delimiters and no write has to be whole.
THEOREM NoReplyMistaken ==
  ASSUME Setup = "PIR", Separate
  PROVE  Spec => []NoOtherAnswer
<1>1. OneReplyInv => NoOtherAnswer
  BY DEF OneReplyInv, OneReply, NoOtherAnswer
<1> QED
  BY <1>1, OneReplyEach, PTL
=============================================================================
