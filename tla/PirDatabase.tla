---------------------------- MODULE PirDatabase -----------------------------
(***************************************************************************)
(* Where an element is: the PIR server packs the bytes of its database     *)
(* into plaintexts and lays those out as a matrix; a client that only has  *)
(* the same flags works out which plaintext to ask for, and which bytes of *)
(* it are the element.  One client asks at a time; a plaintext is the      *)
(* range of the database's bytes it holds (Coeffs has the packing of bytes *)
(* into coefficients), and a ciphertext is what it encrypts.               *)
(***************************************************************************)
EXTENDS PirParams

CONSTANTS
  Configs,     \* the flags that client and server are both started with
  OffsetRange, \* values of the 32-bit offset in set_database: 2^32
  CoeffBits    \* bits of the one coefficient modulus (60)

ASSUME PirDatabaseAssumption ==
  /\ OffsetRange \in Nat \ {0}
  /\ CoeffBits \in Nat \ {0}
  /\ Configs \subseteq [ele_num : Nat \ {0}, ele_size : Nat \ {0},
                        N : Nat \ {0}, logt : Nat \ {0}, d : {1, 2}]

VARIABLES
  cfg,         \* ele_num, ele_size, N, logt and d
  pir_params,  \* what gen_params makes of them, on both sides
  pc,          \* what client and server are at
  offset,      \* bytes packed so far, as far as the server can count
  db_,         \* the plaintexts packed so far, then the database
  asked,       \* the element the client wants
  query,       \* per dimension, its query ciphertexts
  reply,       \* the plaintext that the first ciphertext of the reply holds
  got          \* the bytes that get_fv_offset makes the element of it

vars == <<cfg, pir_params, pc, offset, db_, asked, query, reply, got>>

Nothing == [from |-> 0, bytes |-> 0]

\* A plaintext of ones that fills the matrix up.
padding == Nothing

Init ==
  /\ cfg \in Configs
  /\ pir_params = [n |-> 0, d |-> 0, nvec |-> <<>>, expansion_ratio |-> 0]
  /\ pc = "start"
  /\ offset = 0
  /\ db_ = <<>>
  /\ asked = 0
  /\ query = <<>>
  /\ reply = Nothing
  /\ got = Nothing

ele_per_ptxt == elements_per_ptxt(cfg.logt, cfg.N, cfg.ele_size)
\* Mutant: a plaintext is filled to its last bit.
bytes_per_ptxt_full == (cfg.N * cfg.logt) \div 8

bytes_per_ptxt == ele_per_ptxt * cfg.ele_size
coeff_per_ptxt == ele_per_ptxt * coefficients_per_element(cfg.logt, cfg.ele_size)
db_size == cfg.ele_num * cfg.ele_size
total == plaintexts_per_db(cfg.logt, cfg.N, cfg.ele_num, cfg.ele_size)

-----------------------------------------------------------------------------
\* Both sides compute the parameters; an element too long for a plaintext
\* fails the assertion in elements_per_ptxt.
set_params ==
  /\ pc = "start"
  /\ IF Packable(cfg.logt, cfg.N, cfg.ele_size)
     THEN /\ pir_params' = gen_params(cfg.ele_num, cfg.ele_size, cfg.N,
                                      cfg.logt, cfg.d, CoeffBits)
          /\ pc' = "packing"
     ELSE pc' = "aborted" /\ UNCHANGED pir_params
  /\ UNCHANGED <<cfg, offset, db_, asked, query, reply, got>>

\* One turn of the loop in set_database.
pack_plaintext ==
  LET process_bytes == IF db_size < offset + bytes_per_ptxt
                       THEN db_size - offset ELSE bytes_per_ptxt
      used == coefficients_per_element(cfg.logt, process_bytes)
  IN  /\ pc = "packing"
      /\ Len(db_) < total
      /\ offset < db_size
      /\ IF /\ total <= Product(pir_params.nvec)
            /\ coeff_per_ptxt <= cfg.N
            /\ used <= coeff_per_ptxt
         THEN /\ db_' = Append(db_, [from |-> offset, bytes |-> process_bytes])
              /\ offset' = (offset + process_bytes) % OffsetRange
              /\ UNCHANGED pc
         ELSE pc' = "aborted" /\ UNCHANGED <<db_, offset>>
      /\ UNCHANGED <<cfg, pir_params, asked, query, reply, got>>

\* The loop is over, or left by its break: the matrix is filled up and becomes
\* the database, which gen_database then transforms to NTT form.
pad_database ==
  /\ pc = "packing"
  /\ Len(db_) = total \/ db_size <= offset
  /\ db_' = db_ \o [i \in 1 .. Product(pir_params.nvec) - Len(db_) |-> padding]
  /\ pc' = "ready"
  /\ UNCHANGED <<cfg, pir_params, offset, asked, query, reply, got>>

-----------------------------------------------------------------------------
\* Mutant: one index more.
Indices_closed == 0 .. cfg.ele_num

\* rd() % number_of_items
Indices == 0 .. cfg.ele_num - 1

\* The client picks an element.  Plaintext's operator[] throws at position N,
\* and so may compute_inverse_scales, which takes the logarithm of zero when
\* the index is in the last of ciphertexts that are all full.
generate_query(ele_index) ==
  LET nvec == pir_params.nvec
      indices_ == compute_indices(
        get_fv_index(ele_index, cfg.logt, cfg.N, cfg.ele_size), nvec)
      ciphertexts == [i \in 1 .. cfg.d |-> query_ciphertexts(indices_[i], nvec[i], cfg.N)]
      outside == \E i \in 1 .. cfg.d : \E j \in DOMAIN ciphertexts[i] :
                   cfg.N \in ciphertexts[i][j]
      log_of_zero == \E i \in 1 .. cfg.d :
                       /\ nvec[i] % cfg.N = 0
                       /\ indices_[i] \div cfg.N = CeilDiv(nvec[i], cfg.N) - 1
  IN  /\ pc = "ready"
      /\ asked' = ele_index
      /\ \/ /\ ~ outside
            /\ query' = ciphertexts
            /\ pc' = "queried"
         \/ /\ outside \/ log_of_zero
            /\ pc' = "failed"
            /\ UNCHANGED query
      /\ UNCHANGED <<cfg, pir_params, offset, db_, reply, got>>

\* deserialize_query(1, 1, ...) takes the first ciphertext of the first
\* dimension for the whole query.  Expanding that gives nvec[0] % N selectors;
\* what is read beyond them, or of a second dimension, is undefined.
generate_reply ==
  LET n_0 == pir_params.nvec[1]
      defined == /\ Len(pir_params.nvec) = 1
                 /\ n_0 % cfg.N = n_0
  IN  /\ pc = "queried"
      /\ \/ /\ defined
            /\ \E k \in query[1][1] : reply' = db_[k + 1]
            /\ pc' = "replied"
         \/ /\ ~ defined
            /\ reply' = Nothing
            /\ pc' \in {"replied", "failed"}
      /\ UNCHANGED <<cfg, pir_params, offset, db_, asked, query, got>>

\* get_fv_offset's contract, on the plaintext that decode_reply returned: those of
\* its bytes that are at the element's offset.  main() has the call commented out
\* and keeps the whole plaintext.
take_element ==
  LET first == get_fv_offset(asked, cfg.logt, cfg.N, cfg.ele_size) * cfg.ele_size
  IN  /\ pc = "replied"
      /\ got' = IF first + cfg.ele_size <= reply.bytes
                THEN [from |-> reply.from + first, bytes |-> cfg.ele_size]
                ELSE Nothing
      /\ pc' = "ready"
      /\ UNCHANGED <<cfg, pir_params, offset, db_, asked, query, reply>>

\* After an assertion or an exception nothing more happens.
Stopped == pc \in {"aborted", "failed"} /\ UNCHANGED vars

Next ==
  \/ set_params
  \/ pack_plaintext
  \/ pad_database
  \/ \E e \in Indices : generate_query(e)
  \/ generate_reply
  \/ take_element
  \/ Stopped

Spec == Init /\ [][Next]_vars

-----------------------------------------------------------------------------
Range_ == [from : Nat, bytes : Nat]

TypeOK ==
  /\ cfg \in Configs
  /\ pc \in {"start", "packing", "ready", "queried", "replied", "aborted",
             "failed"}
  /\ offset \in 0 .. OffsetRange - 1
  /\ db_ \in Seq(Range_)
  /\ asked \in 0 .. cfg.ele_num - 1
  /\ reply \in Range_ /\ got \in Range_

\* The offset does not wrap before the last plaintext is packed.
OffsetFits == db_size <= OffsetRange

\* What the TCP server can answer: one dimension, and a query of one
\* ciphertext that is not quite full.
OneCiphertext ==
  pir_params.nvec # <<>> /\ cfg.d = 1 /\ pir_params.nvec[1] < cfg.N

\* Within one ciphertext no query fails, and the client gets the bytes of the
\* element it wanted: its get_fv_index and get_fv_offset agree with the way
\* set_database packed and laid them out.
ElementRetrieved ==
  OneCiphertext /\ OffsetFits =>
    /\ pc # "failed"
    /\ pc = "ready" /\ query # <<>> =>
         got = [from |-> asked * cfg.ele_size, bytes |-> cfg.ele_size]

\* The matrix of one or two dimensions that get_dimensions chose has a place
\* for every plaintext and is filled, so that any index of it can be selected,
\* and coordinates and index determine each other.
MatrixIsFull ==
  pc = "ready" =>
    LET nvec == pir_params.nvec
        index(at) ==
          LET sum[i \in 0 .. Len(nvec)] ==
                IF i = 0 THEN 0 ELSE sum[i - 1] + at[i] * Stride(nvec, i)
          IN  sum[Len(nvec)]
    IN  /\ Len(db_) = Product(nvec)
        /\ \A k \in 0 .. Len(db_) - 1 :
             LET at == compute_indices(k, nvec)
             IN  /\ index(at) = k
                 /\ \A i \in 1 .. Len(nvec) : at[i] \in 0 .. nvec[i] - 1

\* No assertion of set_database can fail, and nothing else stops the server,
\* unless a single element is too long for a plaintext.
AssertionsHold ==
  pc = "aborted" => 8 * cfg.ele_size > cfg.N * cfg.logt

\* Every byte of the database is in exactly one plaintext, in order, and no
\* element is split between two.
PackedOnce ==
  OffsetFits =>
    \A i \in 1 .. Len(db_) : db_[i] # padding =>
      /\ db_[i].from = IF i = 1 THEN 0 ELSE db_[i - 1].from + db_[i - 1].bytes
      /\ db_[i].from % cfg.ele_size = 0 /\ db_[i].bytes % cfg.ele_size = 0
      /\ pc # "packing" /\ (i = Len(db_) \/ db_[i + 1] = padding) =>
           db_[i].from + db_[i].bytes = db_size

-----------------------------------------------------------------------------
\* The properties made inductive, for the proofs.  The parameters are agreed on,
ParamsInv ==
  /\ pc \in {"start", "aborted", "packing"} => query = <<>>
  /\ pc \in {"start", "aborted"} =>
       pir_params.nvec = <<>> /\ db_ = <<>> /\ offset = 0
  /\ pc = "aborted" => ~ Packable(cfg.logt, cfg.N, cfg.ele_size)
  /\ pc \notin {"start", "aborted"} =>
       /\ Packable(cfg.logt, cfg.N, cfg.ele_size)
       /\ pir_params.nvec = get_dimensions(total, cfg.d)

\* the i-th plaintext is what it was meant to be,
content(i) ==
  LET from == (i - 1) * bytes_per_ptxt
  IN  [from |-> from,
       bytes |-> IF db_size < i * bytes_per_ptxt THEN db_size - from
                 ELSE bytes_per_ptxt]

\* as many of them as there are, and nothing behind them but padding,
PackInv ==
  /\ pc = "packing" =>
       /\ Len(db_) <= total
       /\ OffsetFits => /\ \A i \in 1 .. Len(db_) : db_[i] = content(i)
                        /\ Len(db_) < total => offset = Len(db_) * bytes_per_ptxt
  /\ pc \notin {"start", "aborted", "packing"} =>
       /\ Len(db_) = Product(pir_params.nvec)
       /\ OffsetFits => \A i \in 1 .. Len(db_) :
                          db_[i] = IF i <= total THEN content(i) ELSE padding

\* and a query that one ciphertext can hold is followed by its answer.
QueryInv ==
  OneCiphertext =>
    LET k == get_fv_index(asked, cfg.logt, cfg.N, cfg.ele_size)
    IN  /\ pc # "failed"
        /\ pc = "queried" => query = <<<<{k}>>>>
        /\ pc = "replied" => reply = db_[k + 1]
        /\ OffsetFits /\ pc = "ready" /\ query # <<>> =>
             got = [from |-> asked * cfg.ele_size, bytes |-> cfg.ele_size]

DbInv == TypeOK /\ ParamsInv /\ PackInv /\ QueryInv
=============================================================================
