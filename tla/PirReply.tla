------------------------------ MODULE PirReply ------------------------------
(***************************************************************************)
(* One plaintext of the database is asked for, selected and decoded: the   *)
(* functions generate_query and decode_reply of PIRClient and              *)
(* generate_reply of PIRServer, for one or two dimensions and queries of   *)
(* several ciphertexts, called as the two programs call them (via "tcp")   *)
(* or handed each other's results by one caller (via "direct").            *)
(*                                                                         *)
(* A ciphertext is the polynomial it encrypts (Expansion); one that the    *)
(* server decomposes also has words, which the randomness in it decides.   *)
(* PirDatabase has what is inside the plaintexts.                          *)
(***************************************************************************)
EXTENDS PirParams, Expansion, SequencesExt

CONSTANTS
  Flags,        \* how it is called, and the sizes that each side is given
  logq,         \* bits of the one coefficient modulus
  Plain(_),     \* the plaintexts of the server's database, padding included
  Seeds,        \* outcomes of the randomness in the server's ciphertexts
  Words(_, _),  \* the words of the k-th of them with a seed
  Garbled       \* what any other words may decrypt to

ASSUME PirReplyAssumption ==
  /\ Flags \subseteq [via : {"tcp", "direct"},
                      n : Nat \ {0}, d : {1, 2},
                      client_n : Nat \ {0}, client_d : {1, 2}]
  /\ logq \in Nat \ {0}
  /\ \A f \in Flags :
       \A k \in 0 .. Product(get_dimensions(f.n, f.d)) - 1 : Plain(k) \in Poly
  /\ \A seed \in Seeds, f \in Flags :
       LET n_d == get_dimensions(f.n, f.d)[f.d]
       IN  \A k \in 1 .. n_d :
             Words(seed, k) \in [1 .. 2 -> [0 .. N - 1 -> 0 .. Pow2[logq] - 1]]
  /\ Garbled \subseteq Poly /\ Garbled # {}

VARIABLES
  flags,
  pc,
  ntt,                  \* whether the plaintexts of db_ are in NTT form
  is_db_preprocessed_,
  desiredIndex,         \* the plaintext the client wants, -1 at first
  indices_,             \* its coordinates
  inverse_scales_,      \* per dimension, what the client multiplies by
  query,                \* per dimension, the query's ciphertexts
  level,                \* the dimension that the server is at
  cur,                  \* what it selects from there
  expanded_query,       \* with which selectors
  intermediateCtxts,    \* what the first of two dimensions has selected
  reply,                \* the ciphertexts that the client is decoding
  layer,                \* in how manieth layer
  result,               \* the plaintext it got, zero until then
  whole                 \* for the properties: no memory behind a plaintext was
                        \* taken for coefficients of it

database == <<ntt, is_db_preprocessed_>>
client == <<desiredIndex, indices_, inverse_scales_>>
server == <<level, cur, expanded_query, intermediateCtxts>>
decoding == <<reply, layer, result, whole>>

vars == <<flags, pc, database, client, query, server, decoding>>

-----------------------------------------------------------------------------
\* pir_params_.nvec of each side.
nvec == get_dimensions(flags.n, flags.d)

client_nvec == get_dimensions(flags.client_n, flags.client_d)

digits == CeilDiv(logq, logt)

expansion_ratio == 2 * digits

db_ == [k \in 1 .. Product(nvec) |-> Plain(k - 1)]

Init ==
  /\ flags \in Flags
  /\ pc = "idle"
  /\ ntt = TRUE /\ is_db_preprocessed_ = TRUE   \* gen_database has returned
  /\ desiredIndex = -1 /\ indices_ = <<>> /\ inverse_scales_ = <<>>
  /\ query = <<>>
  /\ level = 0 /\ cur = <<>> /\ expanded_query = <<>> /\ intermediateCtxts = <<>>
  /\ reply = <<>> /\ layer = 0 /\ result = Zero /\ whole = TRUE

-----------------------------------------------------------------------------
\* Only a caller of the library does these; main() does them once, at first.
Between == flags.via = "direct" /\ pc \in {"idle", "queried"}

\* Mutant: the database counts as preprocessed if the one before it was.
replace_database_trusted ==
  /\ Between
  /\ ntt' = FALSE
  /\ UNCHANGED <<flags, pc, is_db_preprocessed_, client, query, server, decoding>>

\* set_database with plaintexts in coefficient form.
replace_database ==
  /\ Between
  /\ ntt' = FALSE /\ is_db_preprocessed_' = FALSE
  /\ UNCHANGED <<flags, pc, client, query, server, decoding>>

\* SEAL throws when a plaintext is in NTT form already.
preprocess_database ==
  /\ Between
  /\ ~ is_db_preprocessed_
  /\ IF ntt THEN pc' = "failed" /\ UNCHANGED database
     ELSE ntt' = TRUE /\ is_db_preprocessed_' = TRUE /\ UNCHANGED pc
  /\ UNCHANGED <<flags, client, query, server, decoding>>

-----------------------------------------------------------------------------
\* Mutant: the number of ciphertexts is an integer division.
InLast_truncated(at, n_i) == at \div N = (n_i \div N) - 1

\* A coordinate that the last ciphertext of n_i places selects.
InLast(at, n_i) == at \div N = CeilDiv(n_i, N) - 1

\* The logarithm of the scale that the client expects per dimension: logm is
\* set by the dimensions whose last ciphertext selects, and kept by others.
\* The logarithm of zero is undefined.
expected_logm(at, undefined) ==
  LET logm[i \in 0 .. Len(at)] ==
        IF i = 0 THEN logN
        ELSE IF ~ InLast(at[i], client_nvec[i]) THEN logm[i - 1]
        ELSE IF client_nvec[i] % N = 0 THEN undefined
        ELSE CeilLog2(client_nvec[i] % N)
  IN  logm

log_of_zero(at) ==
  \E i \in DOMAIN at : InLast(at[i], client_nvec[i]) /\ client_nvec[i] % N = 0

\* The check in compute_inverse_scales holds of every defined logarithm.
generate_query(k) ==
  LET at == compute_indices(k, client_nvec)
      selected == [i \in DOMAIN at |-> query_ciphertexts(at[i], client_nvec[i], N)]
      outside == \E i \in DOMAIN at : \E j \in DOMAIN selected[i] : N \in selected[i][j]
  IN  /\ pc = "idle"
      /\ desiredIndex' = k
      /\ indices_' = at
      /\ \/ /\ ~ outside
            /\ \E undefined \in IF log_of_zero(at) THEN 0 .. logN ELSE {0} :
                 inverse_scales_' =
                   [i \in DOMAIN at |-> inverse_scale(expected_logm(at, undefined)[i])]
            /\ query' = [i \in DOMAIN at |-> [j \in DOMAIN selected[i] |->
                 IF selected[i][j] = {} THEN Zero
                 ELSE Monomial(CHOOSE p \in selected[i][j] : TRUE)]]
            /\ pc' = "queried"
         \/ /\ outside \/ log_of_zero(at)
            /\ pc' = "failed"
            /\ UNCHANGED <<inverse_scales_, query>>
      /\ result' = Zero /\ whole' = TRUE
      /\ UNCHANGED <<flags, database, server, reply, layer>>

-----------------------------------------------------------------------------
\* handle_read_pir deserialises the first ciphertext of the first row.
generate_reply ==
  /\ pc = "queried"
  /\ query' = IF flags.via = "tcp" THEN <<<<query[1][1]>>>> ELSE query
  /\ level' = 1
  /\ cur' = db_
  /\ pc' = "expanding"
  /\ UNCHANGED <<flags, database, client, expanded_query, intermediateCtxts, decoding>>

\* The selectors of one dimension, those of its last ciphertext n_i % N.  Of a
\* dimension that the query has no row for, what is read is undefined.
expand ==
  LET row == query[level]
      count(j) == IF j = Len(row) THEN nvec[level] % N ELSE N
  IN  /\ pc = "expanding"
      /\ \/ /\ level \in DOMAIN query
            /\ IF \A j \in DOMAIN row : Expandable(count(j))
               THEN /\ expanded_query' = FlattenSeq(
                         [j \in DOMAIN row |-> expand_query(row[j], count(j))])
                    /\ pc' = "multiplying"
               ELSE pc' = "failed" /\ UNCHANGED expanded_query
         \/ /\ level \notin DOMAIN query
            /\ pc' \in {"multiplying", "failed"}
            /\ UNCHANGED expanded_query
      /\ UNCHANGED <<flags, database, client, query, level, cur, intermediateCtxts,
                     decoding>>

\* Mutant: the coordinate of this dimension is taken for the innermost.
place_rows(k, j, product, n_i) == k * n_i + j

\* In a matrix of n_i times product, the k-th of those at coordinate j.
place(k, j, product, n_i) == k + j * product

\* The loop over j adds up the products of selectors and plaintexts.
select(product, n_i) ==
  [k \in 1 .. product |->
     LET sum[j \in 0 .. n_i] ==
           IF j = 0 THEN Zero
           ELSE Plus(sum[j - 1],
                     Times(expanded_query[j],
                           cur[place(k - 1, j - 1, product, n_i) + 1]))
     IN  sum[n_i]]

\* The base-2^logt digits of each word of the two polynomials.
decompose_to_plaintexts_ptr(words) ==
  [e \in 1 .. expansion_ratio |->
     LET i == (e - 1) \div digits + 1
         curexp == logt * ((e - 1) % digits)
     IN  [m \in 0 .. N - 1 |-> (words[i][m] \div Pow2[curexp]) % Pow2[logt]]]

\* The words of a ciphertext decide what it encrypts.  Nothing keeps two of them
\* apart: where a database has equal columns, the server does the same twice.
fits(seed, selected) ==
  \A j, k \in DOMAIN selected :
    Words(seed, j) = Words(seed, k) => selected[j] = selected[k]

\* What the level has selected is the reply, of which the client is sent one
\* ciphertext, or is decomposed for the next level to select from.
finish_level(selected) ==
  IF level = Len(nvec)
  THEN /\ reply' = IF flags.via = "tcp" THEN SubSeq(selected, 1, 1) ELSE selected
       /\ layer' = 1
       /\ pc' = "decoding"
       /\ UNCHANGED <<level, cur, intermediateCtxts>>
  ELSE /\ \E seed \in {s \in Seeds : fits(s, selected)} :
            intermediateCtxts' = [k \in DOMAIN selected |->
              [enc |-> selected[k], words |-> Words(seed, k)]]
       /\ cur' = FlattenSeq([k \in DOMAIN selected |->
                   decompose_to_plaintexts_ptr(intermediateCtxts'[k].words)])
       /\ level' = level + 1
       /\ pc' = "expanding"
       /\ UNCHANGED <<reply, layer>>

\* Mutant: the database is taken for the operand of every level.
wrong_form_ever == ntt # is_db_preprocessed_

\* transform_to_ntt_inplace throws if the database is transformed already, and
\* multiply_plain if it is not; after the first level cur is another vector.
wrong_form == level = 1 /\ ntt # is_db_preprocessed_

\* The database is transformed in place unless it was preprocessed.
multiply ==
  LET n_i == nvec[level]
      product == Len(cur) \div n_i
      transform == ~ is_db_preprocessed_ /\ level = 1
      defined == Len(expanded_query) >= n_i
  IN  /\ pc = "multiplying"
      /\ ntt' = (ntt \/ transform)
      /\ expanded_query' = <<>>
      /\ \/ /\ ~ wrong_form
            /\ finish_level(IF defined THEN select(product, n_i)
                            ELSE [k \in 1 .. product |-> Zero])
         \/ /\ wrong_form \/ ~ defined
            /\ pc' = "failed"
            /\ UNCHANGED <<level, cur, intermediateCtxts, reply, layer>>
      /\ UNCHANGED <<flags, is_db_preprocessed_, client, query, result, whole>>

-----------------------------------------------------------------------------
compose_to_ciphertext(plains) ==
  [i \in 1 .. 2 |-> [m \in 0 .. N - 1 |->
     Total([k \in 0 .. digits - 1 |->
              plains[(i - 1) * digits + k + 1][m] * Pow2[logt * k]], digits)]]

\* The plaintexts of a layer, scaled back,
tempplain ==
  [j \in DOMAIN reply |-> Scaled(reply[j], inverse_scales_[Len(client_nvec) - layer + 1])]

\* of which each expansion_ratio are the digits of one ciphertext.
groups == 1 .. Len(reply) \div expansion_ratio

first(g) == (g - 1) * expansion_ratio + 1

combined(g) == compose_to_ciphertext(SubSeq(tempplain, first(g), g * expansion_ratio))

\* decrypt drops the leading zeros of a plaintext, and push_back copies what is
\* left; N coefficients are read.
trimmed(g) == \E j \in first(g) .. g * expansion_ratio : reply[j][N - 1] = 0

known(words) == {k \in DOMAIN intermediateCtxts : intermediateCtxts[k].words = words}

\* Words that are none of the server's decrypt to anything.
decrypt(words, stray) ==
  IF known(words) = {} THEN stray
  ELSE intermediateCtxts[CHOOSE k \in known(words) : TRUE].enc

\* All layers but the last.  What is behind a plaintext that was trimmed may be
\* zero, as was dropped, or not; SEAL throws on words that exceed the modulus.
compose_layer ==
  /\ \E overread \in SUBSET {g \in groups : trimmed(g)}, stray \in [groups -> Garbled] :
       /\ whole' = (whole /\ overread = {})
       /\ \/ /\ reply' = [g \in groups |->
                  IF g \in overread THEN stray[g] ELSE decrypt(combined(g), stray[g])]
             /\ layer' = layer + 1
             /\ UNCHANGED pc
          \/ /\ \E g \in groups : g \in overread \/ known(combined(g)) = {}
             /\ pc' = "failed"
             /\ UNCHANGED <<reply, layer>>
  /\ UNCHANGED <<query, server, result>>

\* The last layer asserts that it has one ciphertext.
finish_reply ==
  /\ IF Len(reply) = 1
     THEN result' = tempplain[1] /\ pc' = "idle"
     ELSE result' = Zero /\ pc' \in {"idle", "failed"}
  /\ reply' = <<>> /\ layer' = 0 /\ query' = <<>>
  /\ level' = 0 /\ cur' = <<>> /\ intermediateCtxts' = <<>>
  /\ UNCHANGED <<expanded_query, whole>>

\* One layer of decode_reply.
decode_layer ==
  /\ pc = "decoding"
  /\ IF layer < Len(client_nvec) THEN compose_layer ELSE finish_reply
  /\ UNCHANGED <<flags, database, client>>

\* After an assertion or an exception nothing more happens.
Stopped == pc = "failed" /\ UNCHANGED vars

Next ==
  \/ replace_database
  \/ preprocess_database
  \/ \E k \in 0 .. flags.client_n - 1 : generate_query(k)
  \/ generate_reply
  \/ expand
  \/ multiply
  \/ decode_layer
  \/ Stopped

Spec == Init /\ [][Next]_vars

-----------------------------------------------------------------------------
Ciphertexts == Seq(Poly)

\* The states are what the code declares: reduced polynomials throughout, and
\* decomposed words that the two polynomials of a ciphertext can hold.
TypeOK ==
  /\ flags \in Flags
  /\ pc \in {"idle", "queried", "expanding", "multiplying", "decoding", "failed"}
  /\ ntt \in BOOLEAN /\ is_db_preprocessed_ \in BOOLEAN
  /\ desiredIndex \in -1 .. flags.client_n - 1
  /\ Len(indices_) = Len(inverse_scales_) \/ pc = "failed"
  /\ \A i \in DOMAIN inverse_scales_ : inverse_scales_[i] \in 1 .. t - 1
  /\ query \in Seq(Ciphertexts)
  /\ level \in 0 .. 2 /\ layer \in 0 .. 2
  /\ cur \in Ciphertexts /\ expanded_query \in Ciphertexts
  /\ \A k \in DOMAIN intermediateCtxts : intermediateCtxts[k].enc \in Poly
  /\ reply \in Ciphertexts /\ result \in Poly /\ whole \in BOOLEAN

-----------------------------------------------------------------------------
SameFlags == nvec = client_nvec

\* The ciphertexts of row i that reach the server.
arriving(i) == IF flags.via = "tcp" THEN 1 ELSE CeilDiv(client_nvec[i], N)

\* The logarithm of what the selector at coordinate i is scaled by.
server_logm(i) ==
  IF indices_[i] \div N = arriving(i) - 1 THEN CeilLog2(nvec[i] % N) ELSE logN

\* The query as a whole arrives.
Delivered ==
  flags.via = "tcp" => Len(indices_) = 1 /\ CeilDiv(client_nvec[1], N) = 1

\* With the same flags on both sides and a query that arrives, the expansion of
\* each row of the query by expand_query, over all its ciphertexts, has one
\* selector for each of the n_i places, all zero but the one at the client's
\* coordinate, which is the power of two that its ciphertext's size calls for.
SelectorsAreUnit ==
  pc = "multiplying" /\ SameFlags /\ Delivered =>
    expanded_query =
      [j \in 1 .. nvec[level] |->
         IF j - 1 = indices_[level] THEN Const(Pow2[server_logm(level)]) ELSE Zero]

\* What the client makes of the scale of dimension i.
left_over(i) == (inverse_scales_[i] * Pow2[server_logm(i)]) % t

\* An earlier dimension was selected by its last ciphertext, which is not full,
\* and coordinate i is not: logm is still that of the former.  That does not
\* matter if the two logarithms differ by a multiple of 2 * logt, for 2^logt is
\* -1 modulo t.
Stale(i) ==
  /\ ~ InLast(indices_[i], nvec[i])
  /\ \E e \in 1 .. i - 1 :
       /\ InLast(indices_[e], nvec[e])
       /\ (logN - CeilLog2(nvec[e] % N)) % (2 * logt) # 0

\* compute_inverse_scales gives the inverse of the scale that the server's
\* expansion of that dimension leaves, except where logm is stale, or that of
\* zero.
ScalesUndone ==
  SameFlags /\ Delivered /\ pc \notin {"idle", "failed"} =>
    \A i \in DOMAIN nvec : (\A e \in 1 .. i : nvec[e] % N # 0) =>
      (left_over(i) = 1 <=> ~ Stale(i))

-----------------------------------------------------------------------------
\* Row i of the query can be made and expanded: its coordinate exists, is not
\* one that Plaintext has no coefficient for, and leaves no logarithm of zero;
\* what is left for the last ciphertext is more than one selector; and there
\* are selectors for all places.
Expands(i) ==
  /\ indices_[i] < nvec[i]
  /\ ~ (indices_[i] > 0 /\ indices_[i] % N = 0)
  /\ client_nvec[i] % N # 0
  /\ nvec[i] % N >= 2
  /\ (arriving(i) - 1) * N + (nvec[i] % N) >= nvec[i]

\* What a query needs to be answered, also by a server with other flags.
Served ==
  /\ Len(nvec) = Len(client_nvec)
  /\ flags.via = "tcp" => Len(nvec) = 1
  /\ indices_ = compute_indices(desiredIndex, nvec)
  /\ \A i \in DOMAIN indices_ : Expands(i)

\* The scales of all dimensions but the first agree.
InnerUndone == \A i \in DOMAIN indices_ : i > 1 => left_over(i) = 1

\* A query that is served, as Served says, ends with the plaintext at the
\* client's index of the server's database, in either form of the database,
\* after any history of replacing and preprocessing it, in one dimension or
\* two, whatever columns are equal, and if the scales agree although the flags
\* do not; unless in two dimensions coefficients were read that a digit's
\* plaintext did not have.  If the scale of the first dimension does not agree,
\* what the client gets is a multiple of it.
PlaintextRetrieved ==
  pc = "idle" /\ desiredIndex >= 0 /\ Served /\ InnerUndone /\ whole =>
    result = Scaled(Plain(desiredIndex), left_over(1))

\* A scale of the first dimension that does not agree makes a difference to that
\* plaintext, if the plain modulus is prime and the plaintexts are not zero.
WrongScaleShows ==
  /\ pc = "idle" /\ desiredIndex >= 0 /\ Served /\ InnerUndone /\ whole
  /\ result = Plain(desiredIndex)
  => left_over(1) = 1

\* Query or reply fail only for a query that is not served, on a database that
\* an earlier generate_reply transformed without saying so, or where the digits
\* of a ciphertext are lost: by a scale, or by reading behind a plaintext.
FailureExplained ==
  pc = "failed" => \/ ntt /\ ~ is_db_preprocessed_
                   \/ ~ Served
                   \/ ~ InnerUndone
                   \/ ~ whole

-----------------------------------------------------------------------------
\* Coordinates that can be relied on: the last ciphertext of a side selects from
\* two places at least; no coordinate is a multiple of N but zero; and the
\* client's logarithm of a scale is not that of an earlier dimension.
dependable(at, sides) ==
  \A i \in DOMAIN at :
    /\ sides[i] % N >= 2
    /\ ~ (at[i] > 0 /\ at[i] % N = 0)
    /\ \/ InLast(at[i], sides[i])
       \/ \A e \in 1 .. i - 1 : InLast(at[e], sides[e]) =>
            (logN - CeilLog2(sides[e] % N)) % (2 * logt) = 0

\* The indices that can be, by the flags: both sides have the same matrix, which
\* via TCP is one side of one ciphertext.
promised(f) ==
  LET sides == get_dimensions(f.n, f.d)
  IN  {k \in 0 .. f.client_n - 1 :
         /\ sides = get_dimensions(f.client_n, f.client_d)
         /\ f.via = "tcp" => Len(sides) = 1 /\ sides[1] <= N
         /\ dependable(compute_indices(k, sides), sides)}

\* The server has the database before its first level, and then what it selected.
phase ==
  CASE pc = "failed" -> "failed"
    [] pc = "idle" -> "idle"
    [] pc = "queried" \/ (pc \in {"expanding", "multiplying"} /\ level = 1) -> "asked"
    [] OTHER -> "selected"

form ==
  IF ~ ntt THEN "raw" ELSE IF is_db_preprocessed_ THEN "prepared" ELSE "spoilt"

got == IF pc = "idle" THEN result ELSE Zero

\* The flags with which a client composes ciphertexts.
fragile(f) == f.client_d = 2

Abstract == INSTANCE PlaintextService
  WITH Promised <- promised, Fragile <- fragile, Nothing <- Zero,
       terms <- flags, wanted <- desiredIndex, intact <- whole

\* Seen from outside, generate_query, generate_reply and decode_reply retrieve
\* plaintexts by their indices: a dependable one always, in one dimension or two
\* and in either form of the database, unless an unprepared one was used before;
\* and nothing fails once the first level has gone through.  Of two dimensions
\* that holds unless the client reads behind a plaintext.
ImplementsPlaintextService == Abstract!Service

\* The two programs with the same flags, one dimension, and fewer places in it
\* than a query ciphertext has coefficients.
OneCiphertext ==
  flags.via = "tcp" /\ SameFlags /\ Len(nvec) = 1 /\ nvec[1] < N

\* They never fail, and every query of a client, one after the other, ends with
\* the plaintext it asked for, whatever the number of places: the scale of an
\* expansion to any number of selectors is the one that the client undoes, and
\* a reply leaves a preprocessed database as it was.
ProgramServes ==
  OneCiphertext =>
    /\ pc # "failed"
    /\ pc = "idle" /\ desiredIndex >= 0 => result = Plain(desiredIndex)

-----------------------------------------------------------------------------
\* The invariants made inductive, for the proofs.

\* What the client knows of its query is computed from the index it wants.
ClientInv ==
  /\ desiredIndex = -1 => pc \in {"idle", "failed"}
  /\ desiredIndex >= 0 =>
       /\ indices_ = compute_indices(desiredIndex, client_nvec)
       /\ pc # "failed" =>
            \E undefined \in 0 .. logN :
              inverse_scales_ =
                [i \in DOMAIN indices_ |-> inverse_scale(expected_logm(indices_, undefined)[i])]

\* One ciphertext per layer is what the reply to a served query has in the end.
Complete == Len(nvec) = Len(client_nvec) /\ (flags.via = "tcp" => Len(nvec) = 1)

\* How much of everything there is in each phase.
LengthInv ==
  /\ pc = "queried" =>
       /\ Len(query) = Len(client_nvec)
       /\ \A i \in DOMAIN query : Len(query[i]) = CeilDiv(client_nvec[i], N)
  /\ pc \in {"expanding", "multiplying"} =>
       /\ level \in 1 .. Len(nvec)
       /\ Len(query) = IF flags.via = "tcp" THEN 1 ELSE Len(client_nvec)
       /\ \A i \in DOMAIN query : Len(query[i]) = arriving(i)
       /\ Len(cur) = IF level = 1 THEN Product(nvec) ELSE nvec[2] * expansion_ratio
  /\ pc = "multiplying" /\ level \in DOMAIN query =>
       /\ Expandable(nvec[level] % N)
       /\ Len(expanded_query) = (arriving(level) - 1) * N + (nvec[level] % N)
  /\ pc = "decoding" =>
       /\ layer \in 1 .. Len(client_nvec)
       /\ Complete =>
            Len(reply) = IF layer = Len(client_nvec) THEN 1 ELSE expansion_ratio

\* Of each row one ciphertext selects, at the client's coordinate.
QueryInv ==
  pc \in {"queried", "expanding", "multiplying"} =>
    \A i \in DOMAIN query : \A j \in DOMAIN query[i] :
      query[i][j] = IF indices_[i] \div N = j - 1 THEN Monomial(indices_[i] % N) ELSE Zero

\* So does one of a row's selectors, if there is one for that coordinate.
SelectorInv ==
  /\ pc = "multiplying" /\ level \in DOMAIN query
  /\ indices_[level] < Len(expanded_query)
  => \A p \in DOMAIN expanded_query :
       expanded_query[p] =
         IF p - 1 = indices_[level] THEN Const(Pow2[server_logm(level)]) ELSE Zero

ReplyInv ==
  /\ TypeOK
  /\ is_db_preprocessed_ => ntt
  /\ ClientInv
  /\ LengthInv
  /\ QueryInv
  /\ SelectorInv

\* The ciphertexts that the server decomposes after the first of two dimensions.
Intermediate ==
  LET n_2 == nvec[2]
      logm == server_logm(1)
  IN  /\ \E seed \in Seeds :
           intermediateCtxts =
             [k \in 1 .. n_2 |->
                [enc |-> Scaled(Plain(k - 1 + indices_[1] * n_2), Pow2[logm]),
                 words |-> Words(seed, k)]]
      /\ \A j, k \in DOMAIN intermediateCtxts :
           intermediateCtxts[j].words = intermediateCtxts[k].words =>
             intermediateCtxts[j].enc = intermediateCtxts[k].enc

\* The second dimension is selected from the digits of their words.
Decomposed ==
  \A k \in DOMAIN intermediateCtxts :
    LET plains == decompose_to_plaintexts_ptr(intermediateCtxts[k].words)
    IN  \A e \in DOMAIN plains : cur[(k - 1) * Len(plains) + e] = plains[e]

\* What the server selects from, and what the client decodes, if the query is served.
ValueInv ==
  pc \in {"expanding", "multiplying", "decoding"} /\ Served =>
    /\ pc # "decoding" =>
         IF level = 1 THEN cur = db_
         ELSE Intermediate /\ Decomposed
    /\ pc = "decoding" /\ layer < Len(nvec) =>
         /\ Intermediate
         /\ LET plains == decompose_to_plaintexts_ptr(
                            intermediateCtxts[indices_[2] + 1].words)
                logm == server_logm(2)
            IN  reply = [e \in DOMAIN plains |-> Scaled(plains[e], Pow2[logm])]
    /\ pc = "decoding" /\ layer = Len(nvec) /\ InnerUndone /\ whole =>
         reply = <<Scaled(Plain(desiredIndex), Pow2[server_logm(1)])>>

RetrievalInv == ReplyInv /\ ValueInv /\ PlaintextRetrieved
=============================================================================
