# TLA+ models of tor-pir

tor-pir lets a client fetch one element of a server's database, over Tor, in
one of two ways: `--setup Plain`, where the client sends the index, and
`--setup PIR`, where it sends an encrypted selection that the server evaluates
with SEAL without learning the index. This directory models both programs, the
protocol they speak, the index and packing arithmetic they have to agree on, and
the expansion, selection and decoding of a PIR query. TLC checks the models on
small instances; TLAPS proves the main results about the protocol for any number
of clients, elements and queries, and about packing, layout, expansion and the
retrieval of a plaintext for all flags, databases, degrees and moduli.

    tlc -workers 2 -config MCTorPir_plain.cfg MCTorPir     # any run below
    tlapm TorPirProofs.tla                                 # any proof module

Line numbers below are of the files in `src/`.

## 1. The system

### Components

| component | state | operations |
|---|---|---|
| server process (`server_main.cpp`, `TCPServer`) | the listening socket; alive or ended | construct and listen, `gen_database`, `io_context.run()`, `handle_accept`, `exit(0)` |
| `TCPConnection` (one per client) | `message_`, the handler its one outstanding operation is bound to; the *static* `is_galkey_set` | `start`, `handle_read_plain`, `handle_read_galkeys`, `handle_read_pir`, `handle_write_plain`, `handle_write_pir` (and two echo handlers that nothing binds) |
| `PlainServer` | `db_`, the bytes of all elements | `gen_database`, `generate_reply` |
| `PIRServer` | `db_`, a vector of plaintexts; `galoisKeys_`, by client number, of which only 0 is used; `is_db_preprocessed_` | `gen_database`, `set_database`, `preprocess_database`, `set_galois_key`, `generate_reply`, `expand_query`, `decompose_to_plaintexts_ptr` |
| `PIRClient` | the keys, `indices_`, `inverse_scales_` | `generate_query`, `get_fv_index`, `get_fv_offset`, `compute_indices`, `compute_inverse_scales`, `decode_reply`, `compose_to_ciphertext` |
| parameters (`pir.cpp`) | none | `gen_params`, `get_dimensions`, `plaintexts_per_db`, `bytes_to_coeffs`, `coeffs_to_bytes`, `serialize_*`, ... |
| client program (`client_main.cpp`) | where its `main()` is; `response` of the current round | connect, send keys, `sleep(3)`, the loop of query and response |
| `auto-hop.sh` | none | starts one client after another |

### How they interact

One thread runs the server's `io_context`. Each accepted connection has exactly
one asynchronous operation outstanding, an `async_read_until(":q!")` (or
newline for plain queries) or an `async_write`, and its completion handler
starts the next. What connections share is `is_galkey_set`, `galoisKeys_[0]`,
the database, and the life of the process: a read of zero bytes is `exit(0)`.
The client is sequential and blocking. It writes keys (PIR), sleeps three
seconds, then alternates a query and a `read_until(":q!")` 10 or 100 times.
There are no acknowledgements, sequence numbers or timeouts: the two sides stay
in step only because each message is answered before the next is sent and
because a delimiter ends each one.

### What is hard

- *Buffers against messages.* TCP delivers bytes. A read may end inside a
  message or run past it; `message_.clear()` discards whatever is there, the
  erase of the delimiter takes the last three bytes of the buffer rather than
  the three that were found.
- *Keys against queries.* Only the first connection is asked for keys; the
  sleep is all that keeps the first query out of the read of the keys.
- *Buffers that are local to handlers.* The reply given to `async_write` is
  destroyed when the handler returns.
- *Ends.* The end of one connection ends the process for the others; a write
  that fails destroys an object twice; a reset connection makes `handle_accept`
  throw.
- *Agreement by arithmetic.* Client and server each compute how many elements
  a plaintext holds, how many plaintexts there are and the sides of the matrix
  they form, with rounded roots, a 32-bit offset and truncating integer types.
  Nothing checks that they were given the same flags.
- *Scales.* Expansion multiplies each selector by a power of two that depends
  on how full its ciphertext is. The client divides by it from memory, with a
  variable (`logm`) that keeps its value from one dimension to the next, and
  takes the logarithm of zero when the last ciphertext is full.
- *Lengths.* `decrypt` drops the leading zeros of a plaintext; in two dimensions
  `compose_to_ciphertext` reads N coefficients of each digit all the same, behind
  the vector where the last coefficient is zero (`pir_client.cpp:192`).
- *In place or not.* `generate_reply` transforms a database that was not
  preprocessed to NTT form in place, and the flag does not learn of it.

### What makes each part correct

- Server and clients: every answer is the element asked for
  (`AnswerIsElementAsked`), nobody waits for a side that waits for it
  (`NoStandoff`), every client comes to an end (`EveryClientEnds`) and a lone
  one gets all its answers (`EveryClientFinishes`); replies are computed with
  the keys of the client that gets them (`ReplyUnderOwnKeys`,
  `KeysWrittenOnce`); the server stops only after a client left
  (`StopsOnlyAfterEof`). Together: it implements `QueryService`.
- Parameters, database, query: every byte is packed once and no element is
  split (`PackedOnce`), the matrix has and fills a place for each plaintext
  (`MatrixIsFull`), no assertion fails (`AssertionsHold`), and the client takes
  the element's own bytes from the reply (`ElementRetrieved`).
- Expansion and reply: a query ciphertext becomes one selector per place, the
  power of two at the client's coordinate and zero elsewhere (`SelectorsAreUnit`);
  the client's inverse scales undo just that, unless the client remembers a
  logarithm of another dimension (`ScalesUndone`); what is decoded is the plaintext
  asked for, times what the first dimension's scales leave (`PlaintextRetrieved`),
  and only if they leave one is it the plaintext itself (`WrongScaleShows`); nothing
  fails but for a reason that can be told from the flags, the coordinates, the
  form of the database and the length of a digit (`FailureExplained`). Seen by a caller: an index the
  flags promise is answered with its plaintext, from a database in any form but
  a spoilt one, whatever was replaced or preprocessed between queries; the two
  classes implement `PlaintextService`. The programs themselves, with the same
  flags, one dimension and less than a full query ciphertext, never fail and
  retrieve every plaintext (`ProgramServes`).
- Coefficients: packing moves every bit to its place (`PackedBits`), unpacking
  undoes it (`RoundTrip`), the loops stay in step (`InStep`), and packing ends
  within its output (`TargetFits`).
- Plain replies: what the client receives ends in the element exactly when that
  does not contain the delimiter (`ElementArrives`). What is in front of it should
  not be there (section 6).

## 2. Modules

    Wire ---- TCPServer ---+                        QueryService
       \                   +-- TorPir --- INSTANCE ----^
        `---- ClientMain --+     |
                              TorPirInv ---- MCTorPir
                                 |
                            TorPirLemmas
                                 |
                           TorPirProofs -- ServiceProofs

    PirParams ---+-- PirDatabase --+-- MCPirDatabase
                 |                 `-- PirDatabaseProofs
    Expansion ---+-- PirReply -----+-- MCPirReply
                       |           `-- ReplyProofs
                    INSTANCE
                       v
                PlaintextService

    Coeffs --+-- MCCoeffs
             `-- CoeffsProofs
    PlainServer --+-- MCPlainServer
                  `-- PlainServerProofs

(PirReply uses PirParams and Expansion, PirDatabase only PirParams. Expansion and
Coeffs use Powers, the powers of two. PirDatabaseProofs, CoeffsProofs and
ReplyProofs use ArithmeticLemmas: quotients, remainders, powers of two, and the
functions of PirParams.)

**Wire** is what the processes share: the accept queue (`backlog`), the bytes
under way each way (`c2s`, `s2c`), the client's end of the connection (`peer`),
and whether the server is alive (`up`). A *message* is a payload and a
delimiter. A payload is a sequence of a few tokens, each a run of its bytes that
knows what it belongs to (keys, query or reply; whose; of which element; which
part), so that a message can be cut anywhere and still be recognised, or not.
`Shape` says how many tokens each kind has and for which elements one of them
happens to read like the delimiter: nothing in the code escapes it.
`DelimiterFree` says that none does. `HasDelimiter`, `reply_str` and
`EraseDelimiter` are `read_until`, the client's cut at the delimiter, and the
server's erase of the last bytes.

**TCPServer** has one action per handler, one for a read and one for a write of
a composed operation, and `gen_database`. A handler is one step, because one
thread runs them all; its actions therefore include `message_.clear()`, the
generation of the reply, the first write of it (which Boost.Asio makes at
once) and the binding of the next handler. Details kept from the code:

- `start(c)` consults and sets the static flag; `handle_read_galkeys` calls it
  again after the keys are set.
- `ReadFailed` is an error completion with nothing transferred.
  `handle_read_plain` and `handle_read_pir` then `exit(0)` (lines 122 and 193),
  `handle_read_galkeys` goes on and deserialises what there is.
- A query or keys that do not parse, and a PIR query while `galoisKeys_[0]` is
  empty, throw, and `main` ends the process: `proc = "threw"`.
- `async_write` of a local buffer: with `WholeWrites` the first write takes it
  all; without, any part of it, and the rest is written later from freed
  memory, which holds the same bytes, `Junk`, or the bytes of a reply that
  another connection was given since (`Overwritable`).
- `write_done`: a write that failed runs `delete this` on an object that is
  destroyed again; the process aborts or goes on without the connection.

**ClientMain** is `main()` of the client, one action per blocking call:
`connect`, `send_galois_keys`, `wake_up`, `query`, `read_response`, `receive`,
`return_0`; `throw_broken` is the exception of a read or write after the server
is gone, and `killed` is a client that somebody stops (only those in `Mortal`).
Its writes are whole: a blocking `write_some` takes everything on Linux, unlike
the server's non-blocking ones. `SleepCovers` says whether the three seconds
outlast the server's *reading* of the keys; only under it is a client's first
query never read together with its keys.

**TorPir** composes the two and states the properties; **QueryService** is what
they promise together; **TorPirInv** is the inductive invariant and what is added
to it for single theorems.

**PirParams** are the functions of `pir.cpp` and the index functions of
`pir_client.cpp` as operators: `floor(pow(n, 1.0/d))` is the integer root,
which is exact for one or two dimensions and numbers a double represents.
**PirDatabase** runs them as the programs do: both sides compute the
parameters, the server packs its bytes plaintext by plaintext and pads the
matrix, and the client asks for elements one after the other. A plaintext is the
range of database bytes in it, a ciphertext is what it encrypts: for a query,
the position that is selected. Homomorphic evaluation is what it is meant to
compute, where it is defined; where the server reads beyond what the query has
(`query[1]` of one row, more selectors than were expanded), anything may happen.
How selectors come about is PirReply's subject. `main()` of the client unpacks
the plaintext and stops there, with the call of
`get_fv_offset` commented out (`client_main.cpp:142`). The last action,
`take_element`, is not a step of the program but the contract of that function:
the bytes at the offset it gives are the element's.

**Expansion** is `expand_query` and the scale that `compute_inverse_scales`
undoes. SEAL promises that adding, multiplying by a plaintext, shifting by a
power of x and applying a Galois element act on what a ciphertext encrypts, so a
ciphertext *is* the polynomial it encrypts: a function from 0 .. N-1 to
0 .. t-1, with x^N = -1 and t = 2^logt + 1. Noise is left out. The steps of the
expansion keep the code's exponents (`galois_elt`, `index_raw`, `index`), its last
step for a number of selectors that is no power of two, and the cases in which
its loop bound wraps (`Expandable`).

**PirReply** runs one query through `generate_query`, `generate_reply` and
`decode_reply`, one action per phase (`generate_reply`, then `expand` and
`multiply` per dimension, then `decode_layer` per dimension). `Plain(k)` is the
plaintext at the k-th place of the matrix, any polynomial; `result` is what
`decode_reply` returned to the last query, and zero until then.

- `via = "tcp"` is the two programs: `handle_read_pir` deserialises one ciphertext
  of one dimension whatever was sent, and the client reads one back. `via =
  "direct"` is a caller of the library that hands each side the other's result.
  Only such a caller may call `set_database` again, or `preprocess_database`, or
  neither, in any order between queries.
- The sizes given to client and server are separate constants of an instance,
  so they may differ.
- Where the code reads past a vector (the selectors of a dimension the query has
  no row for, or more of them than were expanded), a model step either fails or
  goes on with some value; the logarithm of zero is any number or an exception.
- Between two dimensions the server decomposes a ciphertext into digits of its
  *words*, which depend on its randomness: `Words(seed, k)` are some for the k-th
  ciphertext, and the client's `compose_to_ciphertext` has to put just these
  together again for `decrypt` to recognise it. Ciphertexts of one reply may have
  the same words, and do where the matrix has equal columns: `generate_reply` adds
  nothing random to the query, so it computes the same twice, and `gen_database`
  fills the whole database with one value. Only what decryption asks is assumed:
  equal words encrypt equal plaintexts (`fits`).
- `decrypt` drops leading zeros, so the digits that `compose_layer` puts together
  may have fewer than N coefficients (`trimmed`), and it reads N of each. What is
  behind a digit is zero, as what was dropped, or it is not: then the words are no
  ciphertext of the server's, and SEAL throws or decrypts them to one of the
  polynomials `Garbled`, which are any. `whole` remembers for the properties that
  this has not happened since the query was made; no action reads it.
- `transform_to_ntt_inplace` throws on what is in NTT form already, and
  `multiply_plain` on what is not: `ntt` is the form the plaintexts are in,
  `is_db_preprocessed_` what the server believes, and `wrong_form` where the two
  meet: at the first level only, because the second has its own plaintexts.

**PlaintextService** is what is left of this for a caller: an index is asked for,
a plaintext is selected and given. The database is `prepared`, `raw` (never
preprocessed; it serves once) or `spoilt` (it was used raw: the next use or
preparation throws). PirReply's `promised(flags)` are the indices that have to be
answered rightly: both sides have the same matrix, every side of it leaves two
selectors or more to the last ciphertext, no coordinate is a multiple of N but
zero, and no logarithm is stale (`dependable`); via TCP, the matrix is one row of
one ciphertext. It is written with the flags and the index alone, none of the
state of a query, so that it says who is served before anything is run. While a
plaintext is selected, `Damage` may befall the reply, if the terms are `fragile`:
a client of two dimensions, which may read behind a digit. Such a reply is
answered with anything, or fails; `intact` is PirReply's `whole`.

**Coeffs** is `bytes_to_coeffs` and `coeffs_to_bytes`, one action per turn of a
loop, with the truncation of `uint8_t` and the absence of it in `uint64_t`.

**PlainServer** is the byte level of a plain reply: `resize` and `push_back`
(so that as many zeros come before the element as it has bytes), the appended
delimiter, the client's cut. It is the level below Wire, where one
token does or does not contain the delimiter.

Operators whose name ends in a variation of another's and whose comment starts
with "Mutant" are the bugs each property is known to catch: replacing the
original by the variant makes the run fail. They occur in no specification.

## 3. What TLC checks

| run | instance | question |
|---|---|---|
| `plain` | 2 plain clients, one mortal, 2 queries each, replies of 2 tokens | answers, progress, the end of the server, refinement of `QueryService` |
| `pir` | 1 PIR client, 3 queries, every payload of 2 tokens | a lone client is served to the end, however its bytes are cut |
| `pir2` | 2 PIR clients, one mortal, 2 queries each | `IInv`, the invariant of the proofs; whose keys; a second connection while keys are awaited; nobody is left hanging |
| `slow` | 1 mortal PIR client, 3 queries, delimiters inside payloads, short writes, the sleep does not cover | whatever is lost, no reply is taken for another query's; `OneReplyInv`, the invariant of that proof |
| `database` | all flags of up to 18 elements of up to 4 bytes, N of 4 and 8, logt of 3, 5, 8 and 12, one or two dimensions | packing, matrix, retrieval |
| `retrieval` | plaintexts of 4 coefficients modulo 5, two of them equal, matrices of up to 56 places in one or two dimensions, via TCP and directly, same and different sizes, words that are the same for two ciphertexts and digits that are trimmed | every plaintext is selected and decoded, or it is known why not; refinement of `PlaintextService`; `RetrievalInv`, the invariant of the proofs |
| `coeffs` | all strings of up to 3 bytes over five values, logt of 1 to 12 | packing and unpacking; `BitsInv`, the invariant of the proofs |
| `plain_bytes` | all databases of two 4-byte elements over the delimiter's bytes and 0 | when a reply ends in its element |

In `pir2` the keys of the second client are parsed as a query, which throws and
ends the server, so what `EveryClientEnds` shows there is that the other client
learns of it; that a client is actually served is `EveryClientFinishes` of
`pir`, and `ImplementsQueryService` in both `pir` and `plain`.

The runs `refused`, `early`, `collide` and `freed` (one or two clients) each
show that a sentence of the repository does not hold (section 6).

*Why these bounds are enough to be interesting.* Two clients are what it takes
to share the flag, the keys, freed memory and the process; a third adds no new
pair. Two elements tell a right answer from a wrong one. Two queries per client
make leftovers of the first visible in the second; three are needed for an
answer that is one behind. Two tokens per payload let a message end within a
read, span three, or share one with the next. Databases of 1 to 18 elements in
plaintexts of 4 or 8 coefficients cover one element per plaintext and several,
elements that fill a plaintext, that leave room and that do not fit, matrices
that are full and that are padded, and more plaintexts than a query ciphertext
selects from; `OffsetRange = 32` lets the offset wrap as 32 bits would. Sides
below, at and beyond the four places of a query ciphertext, up to three
ciphertexts per dimension and one to four places in the last, are the cases that
`expand_query` and `compute_inverse_scales` distinguish, and logt = 2 makes the
sign of the inverse scale change among them; in two dimensions these coordinates
meet in pairs. Five-bit words in three digits leave the top digit partly empty.
Of the two seeds one gives the first two ciphertexts the same words, which
`fits` where the client selects two equal plaintexts, the first two of the
database, and not elsewhere. The words of every other ciphertext have no zero
digit in their last coefficient, so there are digits that `decrypt` trims and
ciphertexts none of whose digits it trims. One garbled polynomial, no multiple
of any plaintext, is enough to make a wrong answer visible. Widths below, at and
above 8 bits make bytes span coefficients and the reverse. Deadlock is checked
except in `slow`, where a cleared query leaves both sides waiting for ever (that
is the finding `early`); a system whose clients are all over steps on by
`Terminating`.

*Fairness.* `FairSpec` asks for weak fairness of `gen_database`, of what the
server may do for each connection, and of each client. The first is straight-line
code. `io_context.run()` serves completions in the order they become ready, so
no connection is passed over for ever, and the kernel delivers what was written
on an open connection. A client is a running process. `killed` has no fairness:
nobody has to kill a client. Nothing is assumed of how a read cuts the stream,
or of which of two handlers comes first.

*Assumptions named as constants.* `WholeWrites` holds when a reply fits the
socket's send buffer; `SleepCovers` when the server reads the keys within
three seconds; `DelimiterFree` for databases and ciphertexts that do not contain
":q!". Each is dropped in some run, to show what then fails and what does not.

## 4. What is proved

The theorems about the protocol are for any sets of clients and elements, any
number of queries and any Shape, in both setups unless an assumption says
otherwise; the others are for all values of the flags. The assumptions are:

- `DelimiterFree`: no payload contains ":q!"; `WholeWrites`: a reply is written at
  once. Without either, the runs `collide` and `freed` show the claims to fail.
- *covered*: `Setup = "PIR" => SleepCovers`, the server reads the keys while the
  client sleeps (otherwise `early`).
- `Separate`: replies are written at once, or there is one client. Otherwise the
  rest of one reply may be sent from memory that holds another one (`freed`).
- `OneAtATime`: covered, and at most one client if the setup is PIR. A second
  one can stop the server by its keys, before anybody has left.
- `PlainModulusPrime`: t has no divisor but one and itself, as the 257 of the
  default logt = 8 (the 4097 of logt = 12 has). `NoneIsZero`: no plaintext of the
  matrix is zero, which holds of the padding and of elements that are not all
  zero bytes. Modulo a composite t a plaintext may be a multiple of itself, and
  zero always is.

| theorem | states | assumes |
|---|---|---|
| `TorPirLemmas!TypeCorrect` | `Spec => []TypeOK` | nothing |
| `TorPirProofs!KeysStayTheSame` | `Spec => KeysWrittenOnce` | nothing |
| `TorPirProofs!InvHolds` | `Spec => []IInv` | `DelimiterFree`, `WholeWrites` |
| `TorPirProofs!AnswersAreRight` | `Spec => []AnswerIsElementAsked` | `DelimiterFree`, `WholeWrites` |
| `TorPirProofs!OneReplyEach` | `Spec => []OneReplyInv` | `Setup = "PIR"`, `Separate` |
| `TorPirProofs!NoReplyMistaken` | `Spec => []NoOtherAnswer` | `Setup = "PIR"`, `Separate` |
| `ServiceProofs!RepliesUseOwnKeys` | `Spec => []ReplyUnderOwnKeys` | `DelimiterFree`, `WholeWrites` |
| `ServiceProofs!QueriesAreWhole` | `Spec => []SleepInv` | `DelimiterFree`, `WholeWrites`, covered |
| `ServiceProofs!NobodyWaitsForAWaiter` | `Spec => []NoStandoff` | `DelimiterFree`, `WholeWrites`, covered |
| `ServiceProofs!ServerOutlivesClients` | `Spec => []StopsOnlyAfterEof` | `DelimiterFree`, `WholeWrites`, `OneAtATime` |
| `ServiceProofs!ServiceImplemented` | `Spec => ImplementsQueryService` | `DelimiterFree`, `WholeWrites`, `OneAtATime` |
| `PirDatabaseProofs!AssertionsNeverFail` | `Spec => []AssertionsHold` | nothing |
| `PirDatabaseProofs!BytesPackedOnce` | `Spec => []PackedOnce` | nothing |
| `PirDatabaseProofs!MatrixFilled` | `Spec => []MatrixIsFull` | nothing |
| `PirDatabaseProofs!ElementsRetrieved` | `Spec => []ElementRetrieved` | nothing |
| `PirDatabaseProofs!DatabaseTypes` | `Spec => []TypeOK` | nothing |
| `CoeffsProofs!LoopsInStep` | `Spec => []InStep` | nothing |
| `CoeffsProofs!PackingFits` | `Spec => []TargetFits` | nothing |
| `CoeffsProofs!BitsPacked` | `Spec => []PackedBits` | nothing |
| `CoeffsProofs!BytesComeBack` | `Spec => []RoundTrip` | nothing |
| `CoeffsProofs!CoeffsTypes` | `Spec => []TypeOK` | nothing |
| `CoeffsProofs!BitsInPlace` | `Spec => []BitsInv` | nothing |
| `ReplyProofs!ReplyAsSent` | `Spec => []ReplyInv` | nothing |
| `ReplyProofs!ReplyTypes` | `Spec => []TypeOK` | nothing |
| `ReplyProofs!ExpandedTerm`, `RowExpanded` | what `expand_query` makes of a term and of a row | nothing |
| `ReplyProofs!SelectorsAtCoordinate` | `Spec => []SelectorsAreUnit` | nothing |
| `ReplyProofs!ScalesMeet` | `Spec => []ScalesUndone` | nothing |
| `ReplyProofs!FailuresExplained` | `Spec => []FailureExplained` | nothing |
| `ReplyProofs!RetrievalKept` | `Spec => []RetrievalInv` | nothing |
| `ReplyProofs!PlaintextsRetrieved` | `Spec => []PlaintextRetrieved` | nothing |
| `ReplyProofs!WrongScalesShow` | `Spec => []WrongScaleShows` | `PlainModulusPrime`, `NoneIsZero` |
| `ReplyProofs!RetrievalImplemented` | `Spec => ImplementsPlaintextService` | nothing |
| `ReplyProofs!ProgramsServe` | `Spec => []ProgramServes` | nothing |
| `PlainServerProofs!PlainElementArrives` | `Spec => []ElementArrives` | nothing |
| `PlainServerProofs!PlainTypes` | `Spec => []TypeOK` | nothing |

"Nothing" is nothing beyond the ASSUMEs that type the constants. (`PackedOnce`
and `ElementRetrieved` say themselves that they are about databases whose bytes
the offset can count.)

*The protocol.* `AnswerIsElementAsked` speaks of an answer that has been
received; to preserve it one has to know, when a client cuts its response, that
the bytes in front of it are those of one whole reply to its last query. So the
invariant speaks of everything under way between one client and the server:
`Inbound(c)`, the server's buffer followed by what is in the socket, and
`Outbound(c)`, the client's buffer followed by what is in the socket. A read only
moves the border between the two halves, so it leaves both alone. `StreamInv`
says that a waiting client is in one of four situations: its keys and its
query unread (`KeysUnread`), the query (`QueryUnderWay`), the reply
(`ReplyUnderWay`), or what `handle_read_galkeys` left of a query that it read
along with the keys (`QueryCut`), from which no reply can come. For a reply to
be decodable the server must hold the client's own keys, which is
`Keyed(c)` in the second and third situation, and follows from `KeyInv`: at most
one connection is ever bound to `handle_read_galkeys`, and only while no keys
are set. `SocketInv` rules out that a client that still waits has a closed
connection, and that unsent bytes exist on an open one.

`TorPirLemmas` holds the facts about sequences this rests on: that a message
without inner delimiters cannot be cut at another place, that a proper prefix of
one holds no delimiter, that payloads of different kinds, owners or elements
are not prefixes of each other; and it proves types action by
action. `TorPirProofs` proves each action's preservation of each part, one
lemma per handler, and combines them.

*When the protocol loses step.* `NoOtherAnswer` is about instances in which
`StreamInv` fails: payloads contain the delimiter, queries are cut or cleared away,
the client does not sleep long enough. What is lost is never made up for, and
that is `OneReplyInv`: a client that is alive has at most one reply under way, no
longer than one message and only about its last query, and while it has one
there is nothing left for the server to read; before that, a first token of a
query is followed by exactly the rest of that query, so that a query is parsed
whole or not at all, and once. `LastQuery` is the clause that makes this
inductive: it says where in the two halves of `Inbound` a query can begin. A
reply token then is either junk or about the query the client waits for. The
plain setup is excluded because there the claim is false (`collide`): a reply cut
at a delimiter inside it leaves bytes behind that the next query takes for its
answer, which in the PIR setup do not deserialise.

*What is added for the service.* `SleepInv` is inductive on top of `IInv`: a client
that is awake has no unread byte under way, so its query is the only thing in
the buffer when `handle_read_pir` gets it, and `QueryCut`, the one situation of
`StreamInv` in which both sides wait, cannot arise. `OwnKeysInv` says that what the
server has of a client whose keys it does not hold starts with keys, which do
not parse as a query, so that the other client is never replied to with the
wrong keys: it takes the server down instead. `LifeInv` ties the life of the
process to the refusals of its clients. With `LoneInv` (one PIR client: its
connection is the one asked for keys) every buffer with a delimiter in it holds
one whole message of the kind its handler expects (`Present`, `WholeQuery`,
`WholeKeys`), so no handler throws, and the server can only end by reading zero
bytes of a client that has left (`ServerOutlivesClients`). The refinement
maps each action to a step of QueryService or a stutter, and uses `ReplyUnderWay`
for the one that matters: what `receive` cuts off is the element asked for.

*The database.* `DbInv` says of the i-th plaintext packed what it holds
(`content`), where the offset is, that the matrix is `get_dimensions` of the number
of plaintexts, and that query, reply and result are the ones for the element
asked for while `OneCiphertext` holds. The arithmetic is in lemmas:
`DimensionsSuffice` (the rounded root, the loop that starts from product = 1 and
its early stop still leave room for all plaintexts: for two dimensions because
(r + 1)^2 exceeds their number, from `SquareRootExists`), `UsedFits` (bytes that fit
a plaintext fit it in coefficients, the assertion on `used`), `ContentIs` and
`ContentIsWhole` (boundaries), `IndexIs` (index and offset give the element
back), `OneCoordinate` and `TwoCoordinates` (`compute_indices`). The recursive
functions of PirParams are unfolded for the one or two dimensions there are,
which needs no induction. `MatrixIsFull` and `AssertionsHold` follow for both
dimensions, `ElementRetrieved` for one.

*The loops of Coeffs.* `LoopInv` adds to `InStep` the ranges of `rest` and `room`.
`TargetFits` then says that a further coefficient is begun only when a bit is
left, and bits are at most limit times the size of the output. `BitsInv` says
what the target holds: `Holds` compares it bit by bit with the source, up to the
free bits of its last element, and `src` is what the shifts of the source's
current element have left, of a byte only what fits 8 bits, of a coefficient
also what was shifted out. The lemmas behind it are about bits of a number
(`BitsJoined`, `BitsShifted`, `BitsAbove`, `BitsDetermine` in ArithmeticLemmas): a
`shift` by the lesser of what is left and what is free moves just these bits,
and a byte is determined by its eight. They rest on `Pow2Is`, that the recursive
equation of `Pow2` has a solution, which is proved from the existence of each of
its initial parts; induction over numbers is `Induction`, stated for a set of
numbers and proved from the well-foundedness of the order, because the
library's rule takes an operator.

*Plain replies.* `PlainElementArrives` compares the first delimiter of a reply
with those of its element: a string of the length of a delimiter that reaches
into the zeros before the element or the delimiter behind it cannot be one,
because no proper suffix of ":q!" is a prefix of it. What is cut off at the first
one has no delimiter in it any more, so an element that has one is not its end
(`CutReply`). `PlainTypes` follows from the
same facts.

*Expansion.* Three facts about numbers carry it: `Degree` (N is a power of two and
t one more than one), `HalfTurn` (2^logt is -1 modulo t, so that 2^(2 logt) is 1),
and `ScaleInverse` (what `compute_inverse_scales` computes is the inverse of
2^logm, by the sign that the parity of logm div logt gives). A shift and a Galois
element each move a term to one other place (`Shifted`, `Substituted`; the Galois
elements are odd, so `GaloisPlace` finds for each power the one that meets it).
Therefore of the two halves of a step one doubles a term and the other cancels
it (`HalvesOfTerm`), according to a bit of its power. `Steps` follows the loop with
that, and `RemainderHalves` the last step, which for m that is no power of two
only makes m - 2^(logm-1) second halves and doubles what has none. So
`ExpandedTerm`: of the selectors of a * x^k only the k-th is not zero, and it is
a * 2^logm. `RowExpanded` puts the ciphertexts of a row one after the other.
Loops over recursive functions (`expand_query`, `Total`, `select`, `FlattenSeq`) are
taken to sequences of intermediate values and those to `Induction`.

*The reply.* `ReplyInv` is what one phase of a query may rely on of the last:
`ClientInv` (coordinates and scales are those of `desiredIndex`), `LengthInv` (how
many rows, ciphertexts, selectors and replies there are, also for sides with
different flags, as long as the vectors are not read beyond their ends),
`QueryInv` (one monomial per row of the query) and `SelectorInv` (what `RowExpanded`
makes of them). It holds with any flags on both sides. `SelectorsAreUnit` adds
that the same flags make the number of selectors right (`NotFull`: the last
ciphertext of a row has n mod N places; `WantedInside`: no coordinate is outside).
`ScalesUndone` compares the logarithms of the two sides modulo 2 logt.
`FailureExplained` is inductive on `ReplyInv` and `ValueInv`: an action can fail only
where `Served` does not hold or the database is in the wrong form (`QueryFails`,
`ExpansionFails`, `MultiplyFails`), and a layer of the reply also where its words
are not those of a ciphertext of the server's (`DecodingFails`), for which the
second scale has to be wrong or `whole` to be lost.

*Retrieval.* `ValueInv` says for a query that is served what the server holds at
each level and the client at each layer. At the first level that is the
database, and one selector times it leaves one plaintext of each column, times
the selector's power of two (`OneSelected`): these are `Intermediate`. The second
level holds the digits of their words (`Decomposed`) and selects those of one of
them. Of these the client removes the second scale, for which `left_over(2)` has
to be one: a digit times anything else is another digit. `Recomposed` says that
`compose_to_ciphertext` undoes `decompose_to_plaintexts_ptr` (a number is the sum
of its digits, by `NextDigit`), so the client has the words of one ciphertext of
`Intermediate`, the one at the coordinate that `compute_indices` gave it
(`DigitsFound`). Others may have the same words, but then they encrypt the same,
which is the second conjunct of `Intermediate`, kept from `fits`: whichever of them
`decrypt` takes, it is the right plaintext. All that needs N coefficients of every
digit, which is `whole`. What is left is the scale of the
first dimension, which multiplies every coefficient by `left_over(1)`. Nothing
in this needs the flags of the two sides to be the same, or the database to be
preprocessed: `Served` and the scales say what is needed.

*The converse.* `WrongScalesShow` says that a wrong scale of the first dimension
never goes unnoticed by luck. `PlaintextRetrieved` makes the result f * c for the
plaintext f and c = `left_over(1)`; if that is f again, some coefficient x that is
not zero has x * (c - 1) = 0 modulo t, and `PrimeProduct` leaves only c = 1
(`OnlyOnce`). `PrimeProduct` is Euclid's lemma, from the least m with m * x = 0
modulo t: dividing t by m leaves a smaller one, so m divides t.

*The plaintext service.* The mapping takes `flags` to the terms, `pc` and
`level` to the phase (`PhasesAre`), `ntt` with `is_db_preprocessed_` to the form
of the database, and `whole` to the reply being intact. Two lemmas connect the
promise, which knows flags and index only, with the invariants:
`PromisedIsServed` (a dependable coordinate can be queried, expanded and
multiplied; `NotFull` and `CeilDivLeast` for the lengths of the last ciphertext)
and `PromisedIsUndone` (from `ScalesAre`, every left-over scale is one). Then
each action is a step of the service or is not seen. A failure is allowed by the
service only for an index that is not promised (`NotPromised`, with
`QueryFails`, `ExpansionFails`, `MultiplyFails` and `DecodingFails`), a spoilt
database or a damaged reply; a layer that composes ciphertexts is not seen, or
is `Damage` if it reads behind a digit, and there is such a layer only with two
dimensions; the products of the first level are `Select`, those of the second
not seen, so a database spoilt by its own query does not make it fail; and the
last `decode_layer` is `Answer` by `PlaintextRetrieved`.

`ProgramsServe` is then read off the service: `Kept`, its own invariant, says that a
promised plaintext is there when the call returns, that a failure has one of its
three reasons, and that a reply is damaged only under fragile terms. Via TCP the
database is never spoilt, one dimension is not fragile, and with one ciphertext
every index is promised (`OneCiphertextPromised`; `SidesFromTwo`: even a single
plaintext gets a row of two, because a row of one could not be expanded).
`OneCiphertext` of PirReply is that of PirDatabase, of which `ElementRetrieved`
speaks: there the plaintext at the index of an element holds its bytes, here the
plaintext at an index is what the client decodes.

*Only model-checked:* the liveness properties (`EveryClientEnds`,
`EveryClientFinishes`), which are beyond the prover.

*Said by no property:* what the client gets with a wrong scale of the second
dimension, or after reading behind a digit. There it composes words from the
wrong digits, and whether those are by accident the words of the right
ciphertext, or of one that decrypts to the same plaintext, depends on the words
that encryption makes and on what the memory holds: nothing in the code excludes
it. The model has all outcomes, and the properties exempt them.

## 5. What is not modelled

- SEAL's encryption, its serialisation format and its noise: a ciphertext never
  becomes undecryptable by too many operations. Boost.Asio and Tor beyond how
  they are used; the command line; timing output.
- The exceptions SEAL throws for transparent ciphertexts (all zero without
  randomness). The trimming of leading zeros by `decrypt` is modelled where it
  changes what is computed, in `compose_layer`; not in `coeffs_to_bytes`, which
  Coeffs gives all the coefficients, while a trimmed plaintext would leave the
  last bytes of its output as they were.
- What no code calls: the echo handlers, `plainmod_after_expansion`,
  `decompose_to_plaintexts`.
- The fixed length CIPHER_SIZE of a ciphertext, which is the token count of its
  `Shape`.
- Databases of 2^32 plaintexts and more, where sides and products, which are
  `uint32_t` in `get_dimensions`, would wrap.
- `auto-hop.sh` beyond what it relies on; backlog limits, memory exhaustion,
  several clients behind one connection.

## 6. Where code and text disagree

| run | what the repository says | what the code does |
|---|---|---|
| `refused` | `auto-hop.sh:3`: the script queries the plain server "over and over again" | the end of the first client's connection is `exit(0)` for the server (`tcp_server.cpp:122`) |
| `early` | `client_main.cpp:132`: the sleep is "to ensure the server is completely setup" | if the server is later than that, the query is cleared away with the keys (`tcp_server.cpp:181`) and both sides wait |
| `collide` | `client_main.cpp:104`: the delimiter serves "to detect end of transmission" | random elements may contain it; the client is then one answer behind from there on |
| `freed` | `plain_server.hpp:25`: a reply is the element at the queried index | a reply that is not written at once is finished from freed memory that may hold another client's |

One more sentence fails in every reply, and takes no run to refute:
`plain_server.hpp:9` says that a plain reply is "the bytes of the database entry
at the index" and `plain_server.hpp:25` that it is "the element at the given query
index", but `generate_reply` first resizes the reply to `ele_size` bytes and then
appends the element with `push_back` (`plain_server.cpp:12`), so that as many zeros
are in front of it. The client checks no length and keeps them. `PlainServer`
has them as the code has, and `ElementArrives` speaks of the end of the reply only.

PirReply shows four more things that no sentence of the repository denies; its
properties state them as the exact exceptions:

- With `--d 2` (`pir.hpp:26`: "number of dimensions for the database (1 or 2)") the
  server deserialises one ciphertext of one dimension (`tcp_server.cpp:200`) and
  `generate_reply` then indexes a second row: `Served` asks for one dimension via
  TCP.
- `logm` (`pir_client.cpp:226`) is set when a coordinate is in the last ciphertext
  of its row and otherwise keeps its value, also that of an earlier dimension; the
  check in line 250 uses the same value and passes. The client then decodes a
  multiple of the plaintext: `Stale` in `ScalesUndone`.
- With two dimensions, the client composes ciphertexts of N coefficients from
  digits that `decrypt` left shorter (`pir_client.cpp:192`), whenever the last
  coefficient of a digit is zero, and takes what is behind them in memory for the
  rest: `whole` in `PlaintextRetrieved`, `Damage` in `PlaintextService`.
- On a database that was never preprocessed the first reply is right and the
  second throws (`pir_server.cpp:219`): `FailureExplained`. The program always
  preprocesses.

## 7. Plan

Done: the protocol with its abstract specification, inductive invariants and
theorems, in step and out of it; packing, matrix and indices; coefficients; plain
replies; expansion, inverse scales, recursion and NTT form, with the plaintext
service they implement; each with theorems.

Left: one refinement for the whole path of an element, whose bytes are packed
into coefficients (Coeffs), retrieved as a plaintext (PirReply) and taken out at
the offset (PirDatabase). The three meet at the plaintext by `OneCiphertext` and
`Plain`, and are not composed.
