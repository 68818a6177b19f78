------------------------- MODULE PirDatabaseProofs --------------------------
(***************************************************************************)
(* For every number and length of elements, plaintext size and plain       *)
(* modulus: the matrix of one or two dimensions has room for the database, *)
(* so that no assertion of set_database fails; all bytes are packed once,  *)
(* with no element split; and a client of a database that one query        *)
(* ciphertext can select from gets the bytes of the element it asked for.  *)
(***************************************************************************)
EXTENDS PirDatabase, ArithmeticLemmas

-----------------------------------------------------------------------------
\* The flags of a server and its clients.
LEMMA FlagTypes ==
  ASSUME cfg \in Configs
  PROVE  /\ cfg.ele_num \in Nat \ {0} /\ cfg.ele_size \in Nat \ {0}
         /\ cfg.N \in Nat \ {0} /\ cfg.logt \in Nat \ {0} /\ cfg.d \in {1, 2}
BY PirDatabaseAssumption

\* Coefficients of one element: logt times as many bits hold its bytes.
LEMMA ElementCoefficients ==
  ASSUME cfg \in Configs, NEW size \in Nat
  PROVE  /\ coefficients_per_element(cfg.logt, size) \in Nat
         /\ size > 0 => coefficients_per_element(cfg.logt, size) > 0
         /\ 8 * size <= coefficients_per_element(cfg.logt, size) * cfg.logt
         /\ coefficients_per_element(cfg.logt, size) * cfg.logt < 8 * size + cfg.logt
<1> DEFINE c == coefficients_per_element(cfg.logt, size)
           b == cfg.logt
<1>1. b \in Nat \ {0} /\ 8 * size \in Nat
  BY FlagTypes
<1>2. c = CeilDiv(8 * size, b)
  BY DEF coefficients_per_element
<1> HIDE DEF b, c
<1>3. c \in Nat /\ 8 * size <= c * b /\ c * b < 8 * size + b
  BY <1>1, <1>2, CeilDivIs
<1>4. size > 0 => c > 0
  <2>1. c = 0 => c * b = 0
    BY <1>1
  <2> QED
    BY <1>3, <2>1
<1> QED
  BY <1>3, <1>4 DEF b, c

\* A plaintext holds a whole number of elements, the plaintexts together all
\* of them, and one plaintext fewer would not.
LEMMA Sizes ==
  ASSUME cfg \in Configs, Packable(cfg.logt, cfg.N, cfg.ele_size)
  PROVE  /\ ele_per_ptxt \in Nat \ {0} /\ total \in Nat \ {0}
         /\ coeff_per_ptxt <= cfg.N
         /\ cfg.ele_num <= total * ele_per_ptxt
         /\ total * ele_per_ptxt < cfg.ele_num + ele_per_ptxt
<1> DEFINE c == coefficients_per_element(cfg.logt, cfg.ele_size)
           e == cfg.N \div c
           n == cfg.ele_num
<1>1. cfg.N \in Nat \ {0} /\ n \in Nat \ {0} /\ c \in Nat \ {0}
  <2>1. /\ cfg.N \in Nat \ {0} /\ n \in Nat \ {0}
        /\ cfg.ele_size \in Nat /\ cfg.ele_size > 0
    BY FlagTypes
  <2>2. c \in Nat /\ c > 0
    BY <2>1, ElementCoefficients
  <2> QED
    BY <2>1, <2>2
<1>2. e = ele_per_ptxt /\ e > 0
  BY DEF ele_per_ptxt, elements_per_ptxt, Packable
<1>3. coeff_per_ptxt = e * c
  BY DEF coeff_per_ptxt, ele_per_ptxt, elements_per_ptxt
<1>4. total = CeilDiv(n, e)
  BY DEF total, plaintexts_per_db, elements_per_ptxt
<1> HIDE DEF c, n
<1>5. e \in Nat \ {0} /\ e * c <= cfg.N
  <2> DEFINE x == cfg.N
             y == x % c
  <2>1. x \in Nat /\ e \in Nat /\ e > 0 /\ y \in Nat /\ x = e * c + y
    <3>1. x \in Nat /\ e = x \div c
      BY <1>1
    <3> HIDE DEF x, e
    <3>2. x \div c \in Nat /\ y \in 0 .. c - 1 /\ x = (x \div c) * c + (x % c)
      BY <1>1, <3>1, QuotientIs
    <3> QED
      BY <1>1, <1>2, <3>1, <3>2
  <2>2. e * c \in Nat
    BY <1>1, <2>1
  <2> HIDE DEF e, x, y
  <2>3. e \in Nat \ {0} /\ e * c <= x
    BY <2>1, <2>2
  <2> QED
    BY <2>3 DEF x
<1> HIDE DEF e
<1>6. total \in Nat /\ n <= total * e /\ total * e < n + e
  BY <1>1, <1>4, <1>5, CeilDivIs
<1>7. total # 0
  <2>1. total = 0 => total * e = 0
    BY <1>5
  <2> QED
    BY <1>1, <1>6, <2>1
<1> QED
  BY <1>2, <1>3, <1>5, <1>6, <1>7 DEF n

\* The same in bytes.
LEMMA ByteSizes ==
  ASSUME cfg \in Configs, Packable(cfg.logt, cfg.N, cfg.ele_size)
  PROVE  /\ bytes_per_ptxt \in Nat \ {0} /\ db_size \in Nat \ {0}
         /\ (total - 1) * bytes_per_ptxt < db_size
         /\ db_size <= total * bytes_per_ptxt
<1> DEFINE e == ele_per_ptxt
           s == cfg.ele_size
           n == cfg.ele_num
           t == total
<1>1. /\ e \in Nat \ {0} /\ s \in Nat \ {0} /\ n \in Nat \ {0} /\ t \in Nat \ {0}
      /\ n <= t * e /\ t * e < n + e
  BY FlagTypes, Sizes
<1>2. bytes_per_ptxt = e * s /\ db_size = n * s
  BY DEF bytes_per_ptxt, db_size
<1> HIDE DEF e, s, n, t
<1>3. e * s \in Nat \ {0} /\ n * s \in Nat \ {0}
  BY <1>1
<1>4. n * s <= t * (e * s)
  <2>1. n * s <= (t * e) * s
    BY <1>1
  <2>2. (t * e) * s = t * (e * s)
    BY <1>1
  <2> QED
    BY <2>1, <2>2
<1>5. (t - 1) * (e * s) < n * s
  <2> DEFINE k == t * e - e
  <2>1. k \in Int /\ k + 1 <= n
    BY <1>1
  <2>2. (k + 1) * s <= n * s
    BY <1>1, <2>1
  <2>3. (k + 1) * s = k * s + s /\ k * s \in Int
    BY <1>1, <2>1
  <2>4. k * s = (t - 1) * (e * s)
    BY <1>1
  <2> HIDE DEF k
  <2>5. k * s < n * s
    BY <1>1, <1>3, <2>2, <2>3
  <2> QED
    BY <2>4, <2>5
<1> QED
  BY <1>2, <1>3, <1>4, <1>5 DEF t

\* What fits a plaintext in bytes fits it in coefficients: the assertion on
\* used in set_database.
LEMMA UsedFits ==
  ASSUME cfg \in Configs, Packable(cfg.logt, cfg.N, cfg.ele_size),
         NEW p \in Nat, p <= bytes_per_ptxt
  PROVE  coefficients_per_element(cfg.logt, p) <= coeff_per_ptxt
<1> DEFINE c == coefficients_per_element(cfg.logt, cfg.ele_size)
           e == ele_per_ptxt
           s == cfg.ele_size
           b == cfg.logt
<1>1. /\ e \in Nat \ {0} /\ s \in Nat \ {0} /\ b \in Nat \ {0} /\ c \in Nat
      /\ 8 * s <= c * b
  BY FlagTypes, Sizes, ElementCoefficients
<1>2. p <= e * s
  BY DEF bytes_per_ptxt
<1>3. coeff_per_ptxt = e * c
  BY DEF coeff_per_ptxt
<1>4. coefficients_per_element(cfg.logt, p) = CeilDiv(8 * p, b)
  BY DEF coefficients_per_element
<1> HIDE DEF c, e, s, b
<1>5. 8 * p <= (e * c) * b
  <2>1. e * (8 * s) <= e * (c * b)
    <3> DEFINE x == 8 * s
               y == c * b
    <3>1. x \in Nat /\ y \in Nat /\ x <= y
      BY <1>1
    <3> HIDE DEF x, y
    <3>2. e * x <= e * y
      BY <1>1, <3>1
    <3> QED
      BY <3>2 DEF x, y
  <2>2. e * (8 * s) = 8 * (e * s) /\ e * (c * b) = (e * c) * b /\ e * s \in Nat
    BY <1>1
  <2>3. 8 * p <= 8 * (e * s)
    BY <1>1, <1>2, <2>2
  <2>4. 8 * (e * s) \in Nat /\ (e * c) * b \in Nat /\ 8 * p \in Nat
    BY <1>1, <2>2
  <2> QED
    BY <2>1, <2>2, <2>3, <2>4
<1>6. CeilDiv(8 * p, b) <= e * c
  <2>1. 8 * p \in Nat /\ e * c \in Nat
    BY <1>1
  <2> QED
    BY <1>1, <1>5, <2>1, CeilDivLeast
<1> QED
  BY <1>3, <1>4, <1>6

\* What a plaintext holds begins and ends between elements, and ends where the
\* next one begins or the database ends.
LEMMA ContentIs ==
  ASSUME cfg \in Configs, Packable(cfg.logt, cfg.N, cfg.ele_size),
         NEW i \in 1 .. total
  PROVE  LET from == (i - 1) * bytes_per_ptxt
             bytes == IF i < total THEN bytes_per_ptxt ELSE db_size - from
         IN  /\ content(i) = [from |-> from, bytes |-> bytes]
             /\ from \in Nat /\ from < db_size
             /\ bytes \in Nat \ {0} /\ bytes <= bytes_per_ptxt
             /\ i < total => i * bytes_per_ptxt < db_size
             /\ i * bytes_per_ptxt = from + bytes_per_ptxt
<1> DEFINE b == bytes_per_ptxt
           s == db_size
           t == total
           from == (i - 1) * b
           upto == i * b
           before == (t - 1) * b
<1>1. b \in Nat \ {0} /\ s \in Nat \ {0} /\ t \in Nat \ {0} /\ before < s /\ s <= t * b
  BY Sizes, ByteSizes
<1>2. i \in 1 .. t
  OBVIOUS
<1>3. content(i) = [from |-> from, bytes |-> IF s < upto THEN s - from ELSE b]
  BY DEF content
<1> HIDE DEF b, s, t
<1>4. from \in Nat /\ upto \in Nat /\ before \in Nat /\ upto = from + b
  BY <1>1, <1>2
<1>5. i < t => upto <= before
  <2>1. ASSUME i < t PROVE i * b <= (t - 1) * b
    <3>1. i \in Nat /\ t - 1 \in Nat /\ i <= t - 1
      BY <1>1, <1>2, <2>1
    <3> QED
      BY <1>1, <3>1
  <2> QED
    BY <2>1
<1>6. i = t => upto = t * b
  OBVIOUS
<1>7. from <= before
  <2>1. i - 1 \in Nat /\ t - 1 \in Nat /\ i - 1 <= t - 1
    BY <1>1, <1>2
  <2> QED
    BY <1>1, <2>1
<1> HIDE DEF from, upto, before
<1>8. from < s /\ (i < t => upto < s) /\ (i = t => s <= upto)
  BY <1>1, <1>4, <1>5, <1>6, <1>7
<1>9. (IF s < upto THEN s - from ELSE b) = IF i < t THEN b ELSE s - from
  <2>1. CASE i < t
    BY <1>1, <1>4, <1>8, <2>1
  <2>2. CASE i = t
    BY <1>1, <1>4, <1>8, <2>2
  <2> QED
    BY <1>1, <1>2, <2>1, <2>2
<1>10. /\ (IF i < t THEN b ELSE s - from) \in Nat \ {0}
       /\ (IF i < t THEN b ELSE s - from) <= b
  <2>1. CASE i < t
    BY <1>1, <2>1
  <2>2. CASE i = t
    BY <1>1, <1>4, <1>8, <2>2
  <2> QED
    BY <1>1, <1>2, <2>1, <2>2
<1> QED
  BY <1>3, <1>4, <1>8, <1>9, <1>10 DEF b, s, t, from, upto

\* The plaintext of an element, and the element's place in it.
LEMMA IndexIs ==
  ASSUME cfg \in Configs, Packable(cfg.logt, cfg.N, cfg.ele_size),
         NEW e \in 0 .. cfg.ele_num - 1
  PROVE  LET k == get_fv_index(e, cfg.logt, cfg.N, cfg.ele_size)
             at == get_fv_offset(e, cfg.logt, cfg.N, cfg.ele_size)
         IN  /\ k \in 0 .. total - 1 /\ at \in 0 .. ele_per_ptxt - 1
             /\ e = k * ele_per_ptxt + at
<1> DEFINE p == ele_per_ptxt
           n == cfg.ele_num
           t == total
           k == e \div p
           at == e % p
<1>1. /\ p \in Nat \ {0} /\ n \in Nat \ {0} /\ t \in Nat \ {0} /\ n <= t * p
      /\ e \in Nat /\ e < n
  BY FlagTypes, Sizes
<1>2. /\ k = get_fv_index(e, cfg.logt, cfg.N, cfg.ele_size)
      /\ at = get_fv_offset(e, cfg.logt, cfg.N, cfg.ele_size)
  BY DEF get_fv_index, get_fv_offset, ele_per_ptxt
<1> HIDE DEF p, n, t
<1>3. k \in Nat /\ at \in 0 .. p - 1 /\ e = k * p + at
  BY <1>1, QuotientIs
<1> HIDE DEF k, at
<1>4. k < t
  <2>1. ASSUME k >= t PROVE k * p >= t * p
    BY <1>1, <1>3, <2>1
  <2>2. k * p \in Nat /\ t * p \in Nat
    BY <1>1, <1>3
  <2> QED
    BY <1>1, <1>3, <2>1, <2>2
<1> QED
  BY <1>1, <1>2, <1>3, <1>4 DEF p, t

-----------------------------------------------------------------------------
\* The flags stay what they are, and with them what depends on them alone.
LEMMA SameFlags ==
  ASSUME cfg' = cfg
  PROVE  /\ total' = total /\ db_size' = db_size
         /\ bytes_per_ptxt' = bytes_per_ptxt
         /\ OffsetFits' <=> OffsetFits
         /\ \A i : content(i)' = content(i)
BY DEF total, db_size, bytes_per_ptxt, ele_per_ptxt, OffsetFits, content

\* The matrix, once the parameters are computed.
LEMMA MatrixIs ==
  ASSUME DbInv, pc \notin {"start", "aborted"}
  PROVE  /\ Len(pir_params.nvec) = cfg.d
         /\ \A i \in 1 .. cfg.d : pir_params.nvec[i] \in Nat \ {0}
         /\ Product(pir_params.nvec) \in Nat
         /\ total <= Product(pir_params.nvec)
<1>1. /\ cfg \in Configs /\ Packable(cfg.logt, cfg.N, cfg.ele_size)
      /\ pir_params.nvec = get_dimensions(total, cfg.d)
  BY DEF DbInv, TypeOK, ParamsInv
<1>2. total \in Nat \ {0} /\ cfg.d \in {1, 2}
  BY <1>1, Sizes, FlagTypes
<1>3. LET nvec == get_dimensions(total, cfg.d)
      IN  /\ nvec \in [1 .. cfg.d -> Nat \ {0}]
          /\ Product(nvec) \in Nat
          /\ total <= Product(nvec)
  BY <1>2, DimensionsSuffice
<1>4. Len(pir_params.nvec) = cfg.d
  BY <1>1, <1>2, <1>3
<1> QED
  BY <1>1, <1>3, <1>4

-----------------------------------------------------------------------------
\* Before anything is computed,
LEMMA DbInit == Init => DbInv
<1> SUFFICES ASSUME Init PROVE DbInv
  OBVIOUS
<1>1. cfg \in Configs /\ cfg.ele_num \in Nat \ {0} /\ OffsetRange \in Nat \ {0}
  BY FlagTypes, PirDatabaseAssumption DEF Init
<1>2. /\ pc = "start" /\ offset = 0 /\ db_ = <<>> /\ asked = 0 /\ query = <<>>
      /\ reply = Nothing /\ got = Nothing /\ pir_params.nvec = <<>>
  BY DEF Init
<1>3. Nothing \in Range_
  BY DEF Nothing, Range_
<1>4. TypeOK
  BY <1>1, <1>2, <1>3 DEF TypeOK
<1>5. ParamsInv /\ PackInv /\ QueryInv
  BY <1>2 DEF ParamsInv, PackInv, QueryInv, OneCiphertext
<1> QED
  BY <1>4, <1>5 DEF DbInv

\* after both sides have computed the parameters,
LEMMA SetParams == DbInv /\ set_params => DbInv'
<1> SUFFICES ASSUME DbInv, set_params PROVE DbInv'
  OBVIOUS
<1>1. /\ pc = "start" /\ cfg' = cfg /\ offset' = offset /\ db_' = db_
      /\ asked' = asked /\ query' = query /\ reply' = reply /\ got' = got
  BY DEF set_params
<1>2. /\ cfg \in Configs /\ offset = 0 /\ db_ = <<>> /\ query = <<>>
      /\ pir_params.nvec = <<>> /\ TypeOK
  BY <1>1 DEF DbInv, TypeOK, ParamsInv
<1>3. CASE Packable(cfg.logt, cfg.N, cfg.ele_size)
  <2>1. /\ pc' = "packing"
        /\ pir_params' = gen_params(cfg.ele_num, cfg.ele_size, cfg.N,
                                    cfg.logt, cfg.d, CoeffBits)
    BY <1>3 DEF set_params
  <2>2. pir_params'.nvec = get_dimensions(total, cfg.d)
    BY <2>1 DEF gen_params, total
  <2>3. TypeOK'
    BY <1>1, <1>2, <2>1 DEF TypeOK
  <2>4. ParamsInv'
    BY <1>1, <1>2, <1>3, <2>1, <2>2, SameFlags DEF ParamsInv
  <2>5. PackInv'
    <3>1. total \in Nat \ {0} /\ bytes_per_ptxt \in Nat /\ 0 * bytes_per_ptxt = 0
      BY <1>2, <1>3, Sizes, ByteSizes
    <3>2. Len(db_') = 0 /\ offset' = 0
      BY <1>1, <1>2
    <3> QED
      BY <1>1, <2>1, <3>1, <3>2, SameFlags DEF PackInv
  <2>6. QueryInv'
    BY <2>1 DEF QueryInv
  <2> QED
    BY <2>3, <2>4, <2>5, <2>6 DEF DbInv
<1>4. CASE ~ Packable(cfg.logt, cfg.N, cfg.ele_size)
  <2>1. pc' = "aborted" /\ pir_params' = pir_params
    BY <1>4 DEF set_params
  <2>2. TypeOK'
    BY <1>1, <1>2, <2>1 DEF TypeOK
  <2>3. ParamsInv' /\ PackInv'
    BY <1>1, <1>2, <1>4, <2>1 DEF ParamsInv, PackInv
  <2>4. QueryInv'
    BY <1>1, <1>2, <2>1 DEF QueryInv, OneCiphertext
  <2> QED
    BY <2>2, <2>3, <2>4 DEF DbInv
<1> QED
  BY <1>3, <1>4

\* with every plaintext packed: none of the assertions fails,
LEMMA PackPlaintext == DbInv /\ pack_plaintext => DbInv'
<1> SUFFICES ASSUME DbInv, pack_plaintext PROVE DbInv'
  OBVIOUS
<1> DEFINE b == bytes_per_ptxt
           s == db_size
           process_bytes == IF s < offset + b THEN s - offset ELSE b
           used == coefficients_per_element(cfg.logt, process_bytes)
           new == [from |-> offset, bytes |-> process_bytes]
           k == Len(db_)
           t == total
<1>1. /\ pc = "packing" /\ k < t /\ offset < s
      /\ cfg' = cfg /\ pir_params' = pir_params /\ asked' = asked
      /\ query' = query /\ reply' = reply /\ got' = got
  BY DEF pack_plaintext
<1>2. /\ cfg \in Configs /\ Packable(cfg.logt, cfg.N, cfg.ele_size)
      /\ db_ \in Seq(Range_) /\ TypeOK
  BY <1>1 DEF DbInv, TypeOK, ParamsInv
<1>3. /\ b \in Nat \ {0} /\ s \in Nat \ {0} /\ t \in Nat \ {0} /\ k \in Nat
      /\ offset \in Nat /\ OffsetRange \in Nat \ {0}
  BY <1>2, Sizes, ByteSizes, PirDatabaseAssumption DEF TypeOK
<1>4. process_bytes \in Nat \ {0} /\ process_bytes <= b
  <2> HIDE DEF b, s
  <2> QED
    BY <1>1, <1>3
<1>5. /\ total <= Product(pir_params.nvec)
      /\ coeff_per_ptxt <= cfg.N
      /\ used <= coeff_per_ptxt
  <2>1. total <= Product(pir_params.nvec)
    BY <1>1, MatrixIs
  <2>2. coeff_per_ptxt <= cfg.N
    BY <1>2, Sizes
  <2>3. used <= coeff_per_ptxt
    <3> HIDE DEF process_bytes
    <3> QED
      BY <1>2, <1>4, UsedFits
  <2> QED
    BY <2>1, <2>2, <2>3
<1>6. /\ db_' = Append(db_, new) /\ pc' = pc
      /\ offset' = (offset + process_bytes) % OffsetRange
  BY <1>5 DEF pack_plaintext
<1>7. offset' \in 0 .. OffsetRange - 1
  <2> HIDE DEF process_bytes
  <2>1. offset + process_bytes \in Nat
    BY <1>3, <1>4
  <2> QED
    BY <1>3, <1>6, <2>1, QuotientIs
<1>8. new \in Range_
  <2> HIDE DEF process_bytes
  <2> QED
    BY <1>3, <1>4 DEF Range_
<1>9. /\ db_' \in Seq(Range_) /\ Len(db_') = k + 1
      /\ \A i \in 1 .. k : db_'[i] = db_[i]
      /\ db_'[k + 1] = new
  <2> HIDE DEF new
  <2> QED
    BY <1>2, <1>6, <1>8
<1>10. TypeOK'
  BY <1>1, <1>2, <1>6, <1>7, <1>9 DEF TypeOK
<1>11. ParamsInv'
  BY <1>1, <1>6, SameFlags DEF ParamsInv, DbInv
<1>12. PackInv'
  <2>1. Len(db_') <= t
    <3> HIDE DEF k, t
    <3> QED
      BY <1>1, <1>3, <1>9
  <2>2. ASSUME OffsetFits
        PROVE  /\ \A i \in 1 .. k + 1 : db_'[i] = content(i)
               /\ k + 1 < t => offset' = (k + 1) * b
    <3>1. offset = k * b /\ \A i \in 1 .. k : db_[i] = content(i)
      BY <1>1, <2>2 DEF DbInv, PackInv
    <3>2. k + 1 \in 1 .. t /\ k + 1 - 1 = k
      <4> HIDE DEF k, t
      <4> QED
        BY <1>1, <1>3
    <3>3. LET from == (k + 1 - 1) * b
              bytes == IF k + 1 < t THEN b ELSE s - from
          IN  /\ content(k + 1) = [from |-> from, bytes |-> bytes]
              /\ from \in Nat /\ from < s
              /\ bytes \in Nat \ {0} /\ bytes <= b
              /\ k + 1 < t => (k + 1) * b < s
              /\ (k + 1) * b = from + b
      BY <1>2, <3>2, ContentIs
    <3>4. /\ content(k + 1) = [from |-> offset, bytes |-> IF k + 1 < t THEN b ELSE s - offset]
          /\ k + 1 < t => (k + 1) * b < s
          /\ (k + 1) * b = offset + b
          /\ k + 1 < t \/ s - offset <= b
      BY <3>1, <3>2, <3>3
    <3>5. process_bytes = IF k + 1 < t THEN b ELSE s - offset
      <4> DEFINE next == (k + 1) * b
      <4>1. next \in Nat
        BY <1>3
      <4>2. (k + 1 < t => next < s) /\ next = offset + b /\ (k + 1 < t \/ s - offset <= b)
        BY <3>4
      <4> HIDE DEF next, k, t, b, s
      <4> QED
        BY <1>3, <4>1, <4>2
    <3>6. new = content(k + 1)
      BY <3>4, <3>5
    <3>7. ASSUME k + 1 < t PROVE offset' = (k + 1) * b
      <4> DEFINE next == (k + 1) * b
      <4>1. /\ next \in Nat /\ next < s /\ next = offset + b /\ s <= OffsetRange
            /\ process_bytes = b
        BY <1>3, <2>2, <3>4, <3>5, <3>7 DEF OffsetFits
      <4>2. offset' = next % OffsetRange
        BY <1>6, <4>1
      <4> HIDE DEF next, s
      <4>3. next < OffsetRange
        BY <1>3, <4>1
      <4>4. next % OffsetRange = next
        BY <1>3, <4>1, <4>3
      <4> QED
        BY <4>2, <4>4 DEF next
    <3>8. \A i \in 1 .. k + 1 : db_'[i] = content(i)
      <4>1. \A i \in 1 .. k + 1 : i \in 1 .. k \/ i = k + 1
        BY <1>3
      <4> HIDE DEF new, k
      <4> QED
        BY <1>9, <3>1, <3>6, <4>1
    <3> QED
      BY <3>7, <3>8
  <2> QED
    BY <1>1, <1>6, <1>9, <2>1, <2>2, SameFlags DEF PackInv
<1>13. QueryInv'
  BY <1>1, <1>6 DEF QueryInv
<1> QED
  BY <1>10, <1>11, <1>12, <1>13 DEF DbInv

\* with the matrix filled up: no byte of the database is behind its last plaintext,
LEMMA PadDatabase == DbInv /\ pad_database => DbInv'
<1> SUFFICES ASSUME DbInv, pad_database PROVE DbInv'
  OBVIOUS
<1> DEFINE p == Product(pir_params.nvec)
           k == Len(db_)
           t == total
           rest == [i \in 1 .. p - k |-> padding]
<1>1. /\ pc = "packing" /\ pc' = "ready" /\ db_' = db_ \o rest
      /\ (k = t \/ db_size <= offset)
      /\ cfg' = cfg /\ pir_params' = pir_params /\ asked' = asked
      /\ query' = query /\ reply' = reply /\ got' = got /\ offset' = offset
  BY DEF pad_database
<1>2. /\ cfg \in Configs /\ Packable(cfg.logt, cfg.N, cfg.ele_size) /\ query = <<>>
      /\ db_ \in Seq(Range_) /\ TypeOK /\ k <= t
  BY <1>1 DEF DbInv, TypeOK, ParamsInv, PackInv
<1>3. p \in Nat /\ t <= p
  BY <1>1, MatrixIs
<1>4. t \in Nat /\ k \in Nat /\ padding \in Range_
  BY <1>2, Sizes DEF padding, Nothing, Range_
<1>5. rest \in Seq(Range_) /\ Len(rest) = p - k /\ \A i \in 1 .. p - k : rest[i] = padding
  <2> HIDE DEF p, k, t
  <2>1. p - k \in Nat
    BY <1>2, <1>3, <1>4
  <2> QED
    BY <1>4, <2>1
<1>6. /\ db_' \in Seq(Range_) /\ Len(db_') = p
      /\ \A i \in 1 .. k : db_'[i] = db_[i]
      /\ \A i \in k + 1 .. p : db_'[i] = padding
  <2> HIDE DEF rest, p, t
  <2>1. db_' \in Seq(Range_) /\ Len(db_') = k + (p - k)
    <3>1. db_ \in Seq(Range_) /\ rest \in Seq(Range_) /\ Len(rest) = p - k
      BY <1>2, <1>5
    <3>2. /\ db_ \o rest \in Seq(Range_)
          /\ Len(db_ \o rest) = Len(db_) + Len(rest)
      BY <3>1, ConcatProperties
    <3> QED
      BY <1>1, <3>1, <3>2
  <2>2. \A i \in 1 .. k + (p - k) : db_'[i] = IF i <= k THEN db_[i] ELSE rest[i - k]
    BY <1>1, <1>2, <1>5
  <2> HIDE DEF k
  <2>3. \A i \in 1 .. p : db_'[i] = IF i <= k THEN db_[i] ELSE rest[i - k]
    BY <1>2, <1>3, <1>4, <2>2
  <2>4. ASSUME NEW i \in k + 1 .. p PROVE db_'[i] = padding
    <3>1. i \in 1 .. p /\ ~ (i <= k) /\ i - k \in 1 .. p - k
      BY <1>3, <1>4
    <3> QED
      BY <1>5, <2>3, <3>1
  <2>5. \A i \in 1 .. k : i \in 1 .. p /\ i <= k
    BY <1>2, <1>3, <1>4
  <2> QED
    BY <1>2, <1>3, <1>4, <2>1, <2>3, <2>4, <2>5
<1>7. TypeOK'
  BY <1>1, <1>2, <1>6 DEF TypeOK
<1>8. ParamsInv'
  BY <1>1, <1>2, SameFlags DEF ParamsInv, DbInv
<1>9. ASSUME OffsetFits PROVE k = t /\ \A i \in 1 .. k : db_[i] = content(i)
  <2>1. /\ \A i \in 1 .. k : db_[i] = content(i)
        /\ k < t => offset = k * bytes_per_ptxt
    BY <1>1, <1>9 DEF DbInv, PackInv
  <2>2. ASSUME k < t PROVE FALSE
    <3>1. k + 1 \in 1 .. t /\ k + 1 - 1 = k
      <4> HIDE DEF k, t
      <4> QED
        BY <1>4, <2>2
    <3>2. (k + 1 - 1) * bytes_per_ptxt < db_size
      BY <1>2, <3>1, ContentIs
    <3>3. offset < db_size /\ db_size <= offset
      BY <1>1, <2>1, <2>2, <3>1, <3>2
    <3>4. db_size \in Nat /\ offset \in Nat
      BY <1>2, ByteSizes DEF TypeOK
    <3> HIDE DEF k, t
    <3> QED
      BY <3>3, <3>4
  <2> HIDE DEF t
  <2>3. k = t
    <3> HIDE DEF k
    <3> QED
      BY <1>2, <1>4, <2>2
  <2> QED
    BY <2>1, <2>3
<1>10. ASSUME OffsetFits, NEW i \in 1 .. p
       PROVE  db_'[i] = IF i <= t THEN content(i) ELSE padding
  <2>1. k = t /\ \A j \in 1 .. k : db_[j] = content(j)
    BY <1>9, <1>10
  <2>2. CASE i <= t
    <3>1. i \in 1 .. k
      <4> HIDE DEF p, k, t
      <4> QED
        BY <1>3, <1>4, <2>1, <2>2
    <3> HIDE DEF p, k, t
    <3> QED
      BY <1>6, <2>1, <2>2, <3>1
  <2>3. CASE ~ (i <= t)
    <3>1. i \in k + 1 .. p
      <4> HIDE DEF p, k, t
      <4> QED
        BY <1>3, <1>4, <2>1, <2>3
    <3> HIDE DEF p, k, t
    <3> QED
      BY <1>6, <2>3, <3>1
  <2> QED
    BY <2>2, <2>3
<1>11. PackInv'
  BY <1>1, <1>6, <1>10, SameFlags DEF PackInv
<1>12. QueryInv'
  BY <1>1, <1>2 DEF QueryInv
<1> QED
  BY <1>7, <1>8, <1>11, <1>12 DEF DbInv

-----------------------------------------------------------------------------
\* Where one ciphertext suffices there is one side, shorter than it, and the
\* index of an element's plaintext is on it.
LEMMA OneSide ==
  ASSUME DbInv, OneCiphertext, pc \notin {"start", "aborted"},
         NEW e \in 0 .. cfg.ele_num - 1
  PROVE  LET k == get_fv_index(e, cfg.logt, cfg.N, cfg.ele_size)
             n_0 == pir_params.nvec[1]
         IN  /\ cfg.d = 1 /\ Len(pir_params.nvec) = 1
             /\ n_0 \in Nat \ {0} /\ cfg.N \in Nat \ {0} /\ n_0 < cfg.N
             /\ Product(pir_params.nvec) = n_0
             /\ k \in 0 .. total - 1 /\ k < n_0
<1> DEFINE k == get_fv_index(e, cfg.logt, cfg.N, cfg.ele_size)
           n_0 == pir_params.nvec[1]
           t == total
<1>1. cfg \in Configs /\ Packable(cfg.logt, cfg.N, cfg.ele_size)
  BY DEF DbInv, TypeOK, ParamsInv
<1>2. cfg.d = 1 /\ n_0 < cfg.N /\ cfg.N \in Nat \ {0}
  BY <1>1, FlagTypes DEF OneCiphertext
<1>3. Len(pir_params.nvec) = 1 /\ n_0 \in Nat \ {0} /\ t <= Product(pir_params.nvec)
  BY <1>2, MatrixIs
<1>4. Product(pir_params.nvec) = n_0
  BY <1>3, ProductOfOne
<1>5. k \in 0 .. t - 1 /\ t \in Nat
  BY <1>1, Sizes, IndexIs
<1>6. k < n_0
  <2>1. t <= n_0
    BY <1>3, <1>4
  <2> HIDE DEF k, n_0, t
  <2> QED
    BY <1>3, <1>5, <2>1
<1> QED
  BY <1>2, <1>3, <1>4, <1>5, <1>6

\* A query changes no database, and where one ciphertext suffices it neither
\* writes outside of it nor takes the logarithm of zero,
LEMMA GenerateQuery ==
  ASSUME DbInv, NEW e \in Indices, generate_query(e)
  PROVE  DbInv'
<1> DEFINE nvec == pir_params.nvec
           k == get_fv_index(e, cfg.logt, cfg.N, cfg.ele_size)
           indices_ == compute_indices(k, nvec)
           ciphertexts == [i \in 1 .. cfg.d |-> query_ciphertexts(indices_[i], nvec[i], cfg.N)]
           outside == \E i \in 1 .. cfg.d : \E j \in DOMAIN ciphertexts[i] :
                        cfg.N \in ciphertexts[i][j]
           log_of_zero == \E i \in 1 .. cfg.d :
                            /\ nvec[i] % cfg.N = 0
                            /\ indices_[i] \div cfg.N = CeilDiv(nvec[i], cfg.N) - 1
<1>1. /\ pc = "ready" /\ asked' = e
      /\ cfg' = cfg /\ pir_params' = pir_params /\ offset' = offset
      /\ db_' = db_ /\ reply' = reply /\ got' = got
  BY Zenon DEF generate_query
<1>2. \/ ~ outside /\ query' = ciphertexts /\ pc' = "queried"
      \/ (outside \/ log_of_zero) /\ pc' = "failed"
  BY Zenon DEF generate_query
<1>3. e \in 0 .. cfg.ele_num - 1 /\ TypeOK
  BY DEF Indices, DbInv
<1> HIDE DEF outside, log_of_zero, ciphertexts
<1>4. pc' \in {"queried", "failed"}
  BY <1>2
<1>5. TypeOK'
  BY <1>1, <1>3, <1>4 DEF TypeOK
<1>6. ParamsInv'
  BY <1>1, <1>4, SameFlags DEF ParamsInv, DbInv
<1>7. PackInv'
  BY <1>1, <1>4, SameFlags DEF PackInv, DbInv
<1>8. ASSUME OneCiphertext PROVE pc' = "queried" /\ query' = <<<<{k}>>>>
  <2> DEFINE n_0 == nvec[1]
             N == cfg.N
  <2>1. /\ cfg.d = 1 /\ Len(nvec) = 1 /\ n_0 \in Nat \ {0} /\ N \in Nat \ {0}
        /\ n_0 < N /\ k \in Nat /\ k < n_0
    BY <1>1, <1>3, <1>8, OneSide, Sizes DEF DbInv, TypeOK, ParamsInv
  <2> HIDE DEF n_0, N, k, nvec
  <2>2. indices_[1] = k
    BY <2>1, OneCoordinate
  <2>3. query_ciphertexts(k, n_0, N) = <<{k}>>
    BY <2>1, OneQuery
  <2> HIDE DEF indices_
  <2>4. ciphertexts = <<<<{k}>>>>
    <3> DEFINE c(i) == query_ciphertexts(indices_[i], nvec[i], cfg.N)
    <3>1. c(1) = <<{k}>>
      BY <2>2, <2>3 DEF n_0, N
    <3>2. ciphertexts = [i \in 1 .. 1 |-> c(i)]
      BY <2>1 DEF ciphertexts
    <3> HIDE DEF c
    <3>3. \A i \in 1 .. 1 : c(i) = <<{k}>>
      BY <3>1
    <3>4. [i \in 1 .. 1 |-> c(i)] = [i \in 1 .. 1 |-> <<{k}>>]
      BY <3>3
    <3>5. [i \in 1 .. 1 |-> <<{k}>>] = <<<<{k}>>>>
      OBVIOUS
    <3> QED
      BY <3>2, <3>4, <3>5
  <2>5. ~ outside
    <3>1. N \notin {k}
      BY <2>1
    <3> QED
      BY <2>1, <2>4, <3>1 DEF outside, N
  <2>6. ~ log_of_zero
    <3>1. n_0 % N # 0
      BY <2>1
    <3> QED
      BY <2>1, <3>1 DEF log_of_zero, n_0, N
  <2> QED
    BY <1>2, <2>4, <2>5, <2>6
<1>9. QueryInv'
  <2>1. k = get_fv_index(asked', cfg'.logt, cfg'.N, cfg'.ele_size)
    BY <1>1
  <2>2. OneCiphertext' <=> OneCiphertext
    BY <1>1 DEF OneCiphertext
  <2> HIDE DEF k
  <2> QED
    BY <1>1, <1>8, <2>1, <2>2 DEF QueryInv
<1> QED
  BY <1>5, <1>6, <1>7, <1>9 DEF DbInv

\* its reply is the plaintext that it selects,
LEMMA GenerateReply == DbInv /\ generate_reply => DbInv'
<1> SUFFICES ASSUME DbInv, generate_reply PROVE DbInv'
  OBVIOUS
<1> DEFINE k == get_fv_index(asked, cfg.logt, cfg.N, cfg.ele_size)
           n_0 == pir_params.nvec[1]
           defined == Len(pir_params.nvec) = 1 /\ n_0 % cfg.N = n_0
<1>1. /\ pc = "queried" /\ asked' = asked /\ query' = query
      /\ cfg' = cfg /\ pir_params' = pir_params /\ offset' = offset
      /\ db_' = db_ /\ got' = got
  BY DEF generate_reply
<1>2. \/ /\ defined /\ pc' = "replied"
         /\ \E i \in query[1][1] : reply' = db_[i + 1]
      \/ ~ defined /\ reply' = Nothing /\ pc' \in {"replied", "failed"}
  BY DEF generate_reply
<1>3. TypeOK /\ asked \in 0 .. cfg.ele_num - 1 /\ db_ \in Seq(Range_)
      /\ cfg \in Configs /\ Packable(cfg.logt, cfg.N, cfg.ele_size)
  BY <1>1 DEF DbInv, TypeOK, ParamsInv
<1>4. defined <=> OneCiphertext
  <2> DEFINE N == cfg.N
             nvec == pir_params.nvec
  <2>1. /\ N \in Nat \ {0} /\ cfg.d \in {1, 2} /\ Len(nvec) = cfg.d
        /\ n_0 \in Nat \ {0}
    BY <1>1, <1>3, FlagTypes, MatrixIs
  <2>2. nvec # <<>>
    <3>1. Len(<<>>) = 0
      OBVIOUS
    <3> HIDE DEF nvec
    <3> QED
      BY <2>1, <3>1
  <2>3. n_0 % N = n_0 <=> n_0 < N
    <3> HIDE DEF n_0, N
    <3> QED
      BY <2>1
  <2> QED
    BY <2>1, <2>2, <2>3 DEF OneCiphertext
<1> HIDE DEF defined
<1>5. ASSUME OneCiphertext PROVE pc' = "replied" /\ reply' = db_[k + 1] /\ reply' \in Range_
  <2>1. query = <<<<{k}>>>>
    BY <1>1, <1>5 DEF DbInv, QueryInv
  <2>2. /\ Product(pir_params.nvec) = n_0 /\ n_0 \in Nat /\ k \in Nat /\ k < n_0
    BY <1>1, <1>3, <1>5, OneSide, Sizes
  <2>3. Len(db_) = n_0
    BY <1>1, <2>2 DEF DbInv, PackInv
  <2> HIDE DEF k, n_0
  <2>4. query[1][1] = {k}
    BY <2>1
  <2>5. pc' = "replied" /\ reply' = db_[k + 1]
    BY <1>2, <1>4, <1>5, <2>4
  <2>6. k + 1 \in 1 .. Len(db_)
    BY <2>2, <2>3
  <2>7. db_[k + 1] \in Range_
    BY <1>3, <2>6
  <2> QED
    BY <2>5, <2>7
<1>6. ASSUME ~ OneCiphertext PROVE pc' \in {"replied", "failed"} /\ reply' \in Range_
  <2>1. Nothing \in Range_
    BY DEF Nothing, Range_
  <2> QED
    BY <1>2, <1>4, <1>6, <2>1
<1>7. TypeOK'
  <2>1. pc' \in {"replied", "failed"} /\ reply' \in Range_
    BY <1>5, <1>6
  <2> QED
    BY <1>1, <1>3, <2>1 DEF TypeOK
<1>8. ParamsInv'
  BY <1>1, <1>5, <1>6, SameFlags DEF ParamsInv, DbInv
<1>9. PackInv'
  BY <1>1, <1>5, <1>6, SameFlags DEF PackInv, DbInv
<1>10. QueryInv'
  <2>1. k = get_fv_index(asked', cfg'.logt, cfg'.N, cfg'.ele_size)
    BY <1>1
  <2>2. OneCiphertext' <=> OneCiphertext
    BY <1>1 DEF OneCiphertext
  <2> HIDE DEF k
  <2> QED
    BY <1>1, <1>5, <2>1, <2>2 DEF QueryInv
<1> QED
  BY <1>7, <1>8, <1>9, <1>10 DEF DbInv

\* and the client finds the element in it.
LEMMA TakeElement == DbInv /\ take_element => DbInv'
<1> SUFFICES ASSUME DbInv, take_element PROVE DbInv'
  OBVIOUS
<1> DEFINE k == get_fv_index(asked, cfg.logt, cfg.N, cfg.ele_size)
           at == get_fv_offset(asked, cfg.logt, cfg.N, cfg.ele_size)
           s == cfg.ele_size
           first == at * s
<1>1. /\ pc = "replied" /\ pc' = "ready" /\ asked' = asked /\ query' = query
      /\ cfg' = cfg /\ pir_params' = pir_params /\ offset' = offset
      /\ db_' = db_ /\ reply' = reply
      /\ got' = IF first + s <= reply.bytes
                THEN [from |-> reply.from + first, bytes |-> s] ELSE Nothing
  BY DEF take_element
<1>2. TypeOK /\ asked \in 0 .. cfg.ele_num - 1 /\ reply \in Range_
      /\ cfg \in Configs /\ Packable(cfg.logt, cfg.N, cfg.ele_size)
  BY <1>1 DEF DbInv, TypeOK, ParamsInv
<1>3. /\ s \in Nat \ {0} /\ ele_per_ptxt \in Nat \ {0} /\ total \in Nat \ {0}
      /\ k \in 0 .. total - 1 /\ at \in 0 .. ele_per_ptxt - 1
      /\ asked = k * ele_per_ptxt + at
  BY <1>2, FlagTypes, Sizes, IndexIs
<1>4. first \in Nat
  BY <1>3
<1>5. got' \in Range_
  <2>1. reply.from \in Nat /\ reply.bytes \in Nat
    BY <1>2 DEF Range_
  <2> HIDE DEF first, s
  <2> QED
    BY <1>1, <1>3, <1>4, <2>1 DEF Range_, Nothing
<1>6. TypeOK'
  BY <1>1, <1>2, <1>5 DEF TypeOK
<1>7. ParamsInv'
  BY <1>1, SameFlags DEF ParamsInv, DbInv
<1>8. PackInv'
  BY <1>1, SameFlags DEF PackInv, DbInv
<1>9. ASSUME OneCiphertext, OffsetFits
      PROVE  got' = [from |-> asked * s, bytes |-> s]
  <2> DEFINE b == bytes_per_ptxt
             e == ele_per_ptxt
             t == total
             n == cfg.ele_num
  <2>1. reply = content(k + 1)
    <3>1. reply = db_[k + 1]
      BY <1>1, <1>9 DEF DbInv, QueryInv
    <3>2. k + 1 \in 1 .. Len(db_) /\ k + 1 <= t
      <4>1. /\ Product(pir_params.nvec) \in Nat /\ t <= Product(pir_params.nvec)
            /\ Len(db_) = Product(pir_params.nvec)
        BY <1>1, MatrixIs DEF DbInv, PackInv
      <4> HIDE DEF k, t
      <4> QED
        BY <1>3, <4>1 DEF t
    <3>3. \A i \in 1 .. Len(db_) : db_[i] = IF i <= t THEN content(i) ELSE padding
      BY <1>1, <1>9 DEF DbInv, PackInv
    <3> HIDE DEF k, t
    <3> QED
      BY <3>1, <3>2, <3>3
  <2> DEFINE j == k + 1
  <2>2. j \in 1 .. total /\ j = k + 1 /\ j - 1 = k
    <3> HIDE DEF k
    <3> QED
      BY <1>3
  <2>3. reply = content(j)
    BY <2>1
  <2> HIDE DEF j
  <2>4. reply = [from |-> k * b, bytes |-> IF k + 1 < t THEN b ELSE db_size - k * b]
    <3> HIDE DEF k
    <3> QED
      BY <1>2, <2>2, <2>3, ContentIs
  <2>5. b = e * s /\ db_size = n * s
    BY DEF bytes_per_ptxt, db_size
  <2>6. n \in Nat \ {0} /\ e \in Nat \ {0} /\ k \in Nat /\ at \in Nat /\ at + 1 <= e
        /\ asked = k * e + at /\ asked + 1 <= n
    <3>1. n \in Nat \ {0} /\ asked \in 0 .. n - 1
      BY <1>2, FlagTypes
    <3> HIDE DEF n, k, at
    <3> QED
      BY <1>3, <3>1
  <2> HIDE DEF b, e, t, n, k, at, s
  <2>7. k * b + first = asked * s
    <3>1. k * (e * s) + at * s = (k * e + at) * s
      BY <1>3, <2>6
    <3> QED
      BY <2>5, <2>6, <3>1
  <2>8. first + s <= b
    <3>1. at * s + s = (at + 1) * s
      BY <1>3, <2>6
    <3>2. (at + 1) * s <= e * s
      BY <1>3, <2>6
    <3> QED
      BY <2>5, <3>1, <3>2
  <2>9. k * b + first + s <= db_size
    <3>1. asked * s + s = (asked + 1) * s
      BY <1>3, <2>6
    <3>2. (asked + 1) * s <= n * s
      BY <1>3, <2>6
    <3> QED
      BY <2>5, <2>7, <3>1, <3>2
  <2>10. k * b \in Nat /\ b \in Nat /\ db_size \in Nat
    BY <1>3, <2>5, <2>6
  <2> DEFINE from == k * b
  <2>11. /\ reply.from = from
         /\ reply.bytes = IF k + 1 < t THEN b ELSE db_size - from
    BY <2>4
  <2> HIDE DEF from, first
  <2>12. first + s <= reply.bytes
    BY <1>3, <1>4, <2>8, <2>9, <2>10, <2>11 DEF from
  <2>13. got' = [from |-> reply.from + first, bytes |-> s]
    BY <1>1, <2>12
  <2> QED
    BY <2>7, <2>11, <2>13 DEF from
<1>10. QueryInv'
  <2>1. OneCiphertext' <=> OneCiphertext
    BY <1>1 DEF OneCiphertext
  <2> QED
    BY <1>1, <1>9, <2>1, SameFlags DEF QueryInv
<1> QED
  BY <1>6, <1>7, <1>8, <1>10 DEF DbInv

-----------------------------------------------------------------------------
\* Every step keeps the invariant.
LEMMA DbStep == DbInv /\ [Next]_vars => DbInv'
<1> SUFFICES ASSUME DbInv, [Next]_vars PROVE DbInv'
  OBVIOUS
<1>1. CASE set_params
  BY <1>1, SetParams
<1>2. CASE pack_plaintext
  BY <1>2, PackPlaintext
<1>3. CASE pad_database
  BY <1>3, PadDatabase
<1>4. CASE \E e \in Indices : generate_query(e)
  BY <1>4, GenerateQuery
<1>5. CASE generate_reply
  BY <1>5, GenerateReply
<1>6. CASE take_element
  BY <1>6, TakeElement
<1>7. CASE UNCHANGED vars
  <2>1. /\ cfg' = cfg /\ pir_params' = pir_params /\ pc' = pc /\ offset' = offset
        /\ db_' = db_ /\ asked' = asked /\ query' = query /\ reply' = reply
        /\ got' = got
    BY <1>7 DEF vars
  <2>2. TypeOK' /\ ParamsInv'
    BY <2>1, SameFlags DEF DbInv, TypeOK, ParamsInv
  <2>3. PackInv'
    BY <2>1, SameFlags DEF DbInv, PackInv
  <2>4. QueryInv'
    BY <2>1, SameFlags DEF DbInv, QueryInv, OneCiphertext
  <2> QED
    BY <2>2, <2>3, <2>4 DEF DbInv
<1> QED
  BY <1>1, <1>2, <1>3, <1>4, <1>5, <1>6, <1>7 DEF Next, Stopped

\* So it always holds.
LEMMA DbInvariant == Spec => []DbInv
<1>1. Init => DbInv
  BY DbInit
<1>2. DbInv /\ [Next]_vars => DbInv'
  BY DbStep
<1> QED
  BY <1>1, <1>2, PTL DEF Spec

-----------------------------------------------------------------------------
\* The assertions of set_database hold for every database whose elements each
\* fit a plaintext.
THEOREM AssertionsNeverFail == Spec => []AssertionsHold
<1>1. DbInv => AssertionsHold
  <2> SUFFICES ASSUME DbInv, pc = "aborted" PROVE 8 * cfg.ele_size > cfg.N * cfg.logt
    BY DEF AssertionsHold
  <2> DEFINE c == coefficients_per_element(cfg.logt, cfg.ele_size)
             N == cfg.N
             b == cfg.logt
             s == cfg.ele_size
  <2>1. cfg \in Configs /\ ~ (N \div c > 0)
    BY DEF DbInv, TypeOK, ParamsInv, Packable, elements_per_ptxt
  <2>2. N \in Nat \ {0} /\ b \in Nat \ {0} /\ s \in Nat \ {0}
    BY <2>1, FlagTypes
  <2>3. c \in Nat \ {0} /\ c = CeilDiv(8 * s, b)
    BY <2>1, <2>2, ElementCoefficients DEF coefficients_per_element
  <2> HIDE DEF c, N, b, s
  <2>4. N < c
    <3>1. N \div c \in Nat /\ N % c \in 0 .. c - 1 /\ N = (N \div c) * c + (N % c)
      BY <2>2, <2>3, QuotientIs
    <3>2. N \div c = 0
      BY <2>1, <3>1
    <3>3. N = N % c
      <4> DEFINE q == N \div c
                 m == N % c
      <4>1. q = 0 /\ m \in Nat /\ N = q * c + m
        BY <2>3, <3>1, <3>2
      <4> HIDE DEF q, m
      <4>2. N = m
        BY <2>3, <4>1
      <4> QED
        BY <4>2 DEF m
    <3> QED
      BY <2>2, <2>3, <3>1, <3>3
  <2>5. N * b \in Nat /\ 8 * s \in Nat
    BY <2>2
  <2>6. ASSUME 8 * s <= N * b PROVE FALSE
    <3>1. c <= N
      BY <2>2, <2>3, <2>5, <2>6, CeilDivLeast
    <3> QED
      BY <2>2, <2>3, <2>4, <3>1
  <2>7. 8 * s > N * b
    BY <2>5, <2>6
  <2> QED
    BY <2>7 DEF N, b, s
<1> QED
  BY <1>1, DbInvariant, PTL

\* A client of a database that one ciphertext can select from always gets the
\* bytes of the element it asked for.
THEOREM ElementsRetrieved == Spec => []ElementRetrieved
<1>1. DbInv => ElementRetrieved
  BY DEF DbInv, QueryInv, ElementRetrieved
<1> QED
  BY <1>1, DbInvariant, PTL

-----------------------------------------------------------------------------
\* What a plaintext holds is whole elements.
LEMMA ContentIsWhole ==
  ASSUME cfg \in Configs, Packable(cfg.logt, cfg.N, cfg.ele_size),
         NEW i \in 1 .. total
  PROVE  /\ content(i).from % cfg.ele_size = 0
         /\ content(i).bytes % cfg.ele_size = 0
<1> DEFINE s == cfg.ele_size
           e == ele_per_ptxt
           n == cfg.ele_num
           from == (i - 1) * bytes_per_ptxt
           bytes == IF i < total THEN bytes_per_ptxt ELSE db_size - from
           m == (i - 1) * e
<1>1. /\ content(i) = [from |-> from, bytes |-> bytes]
      /\ from \in Nat /\ from < db_size
  BY ContentIs
<1>2. /\ s \in Nat \ {0} /\ e \in Nat \ {0} /\ n \in Nat \ {0} /\ i - 1 \in Nat
      /\ db_size \in Nat /\ total \in Nat
  BY FlagTypes, Sizes, ByteSizes
<1>3. bytes_per_ptxt = e * s /\ db_size = n * s
  BY DEF bytes_per_ptxt, db_size
<1>4. m \in Nat
  BY <1>2
<1>5. from = m * s
  <2>1. (i - 1) * (e * s) = ((i - 1) * e) * s
    BY <1>2
  <2> QED
    BY <1>3, <2>1
<1> HIDE DEF m, s, e, n, from
<1>6. from % s = 0
  BY <1>2, <1>4, <1>5, MultipleMod
<1>7. bytes % s = 0
  <2>1. (e * s) % s = 0
    BY <1>2, MultipleMod
  <2>2. db_size - from = (n - m) * s /\ n - m \in Nat
    <3>1. n * s - m * s = (n - m) * s
      BY <1>2, <1>4
    <3>2. m < n
      <4>1. ASSUME m >= n PROVE m * s >= n * s
        BY <1>2, <1>4, <4>1
      <4>2. m * s \in Nat /\ n * s \in Nat
        BY <1>2, <1>4
      <4> QED
        BY <1>1, <1>2, <1>3, <1>4, <1>5, <4>1, <4>2
    <3> QED
      BY <1>2, <1>3, <1>4, <1>5, <3>1, <3>2
  <2>3. (db_size - from) % s = 0
    BY <1>2, <2>2, MultipleMod
  <2> QED
    BY <1>3, <2>1, <2>3
<1>8. content(i).from = from /\ content(i).bytes = bytes
  <2> HIDE DEF bytes
  <2> QED
    BY <1>1
<1> HIDE DEF bytes
<1> QED
  BY <1>6, <1>7, <1>8 DEF s

\* Every byte of the database is in one plaintext, and no element in two.
THEOREM BytesPackedOnce == Spec => []PackedOnce
<1>1. DbInv => PackedOnce
  <2> SUFFICES ASSUME DbInv, OffsetFits, NEW i \in 1 .. Len(db_), db_[i] # padding
               PROVE  /\ db_[i].from = IF i = 1 THEN 0
                                       ELSE db_[i - 1].from + db_[i - 1].bytes
                      /\ db_[i].from % cfg.ele_size = 0
                      /\ db_[i].bytes % cfg.ele_size = 0
                      /\ pc # "packing" /\ (i = Len(db_) \/ db_[i + 1] = padding) =>
                           db_[i].from + db_[i].bytes = db_size
    BY DEF PackedOnce
  <2> DEFINE t == total
             k == Len(db_)
             b == bytes_per_ptxt
  <2>1. pc \notin {"start", "aborted"}
    <3>1. pc \in {"start", "aborted"} => Len(db_) = 0
      BY DEF DbInv, ParamsInv
    <3> QED
      BY <3>1
  <2>2. /\ cfg \in Configs /\ Packable(cfg.logt, cfg.N, cfg.ele_size)
        /\ db_ \in Seq(Range_)
    BY <2>1 DEF DbInv, TypeOK, ParamsInv
  <2>3. t \in Nat /\ k \in Nat /\ b \in Nat
    BY <2>2, Sizes, ByteSizes
  <2>4. /\ \A j \in 1 .. k : db_[j] = IF j <= t THEN content(j) ELSE padding
        /\ pc # "packing" => t <= k
    <3>1. CASE pc = "packing"
      <4>1. k <= t /\ \A j \in 1 .. k : db_[j] = content(j)
        BY <3>1 DEF DbInv, PackInv
      <4>2. \A j \in 1 .. k : j <= t
        <5> HIDE DEF k, t
        <5> QED
          BY <2>3, <4>1
      <4> HIDE DEF k, t
      <4> QED
        BY <3>1, <4>1, <4>2
    <3>2. CASE pc # "packing"
      BY <2>1, <3>2, MatrixIs DEF DbInv, PackInv
    <3> QED
      BY <3>1, <3>2
  <2>5. i \in 1 .. t /\ db_[i] = content(i) /\ i \in 1 .. k
    <3> HIDE DEF t
    <3> QED
      BY <2>3, <2>4
  <2> DEFINE from(j) == (j - 1) * b
             bytes(j) == IF j < t THEN b ELSE db_size - from(j)
  <2>6. \A j \in 1 .. t : /\ content(j).from = from(j) /\ content(j).bytes = bytes(j)
                          /\ from(j) \in Nat /\ j * b = from(j) + b
    <3> SUFFICES ASSUME NEW j \in 1 .. t
                 PROVE  /\ content(j).from = from(j) /\ content(j).bytes = bytes(j)
                        /\ from(j) \in Nat /\ j * b = from(j) + b
      OBVIOUS
    <3>1. /\ content(j) = [from |-> from(j), bytes |-> bytes(j)]
          /\ from(j) \in Nat /\ j * b = from(j) + b
      BY <2>2, ContentIs
    <3> HIDE DEF from, bytes
    <3> QED
      BY <3>1
  <2>7. db_[i].from = IF i = 1 THEN 0 ELSE db_[i - 1].from + db_[i - 1].bytes
    <3>1. CASE i = 1
      <4>1. from(1) = 0
        BY <2>3
      <4> HIDE DEF from
      <4> QED
        BY <2>5, <2>6, <3>1, <4>1
    <3>2. CASE i # 1
      <4> DEFINE h == i - 1
      <4>1. h \in 1 .. t /\ h < t /\ h \in 1 .. k /\ h <= t
        <5> HIDE DEF t, k
        <5> QED
          BY <2>3, <2>5, <3>2
      <4>2. from(i) = h * b /\ bytes(h) = b
        BY <4>1
      <4> HIDE DEF from, bytes, h, k, t
      <4>3. db_[h] = content(h)
        BY <2>4, <4>1
      <4>4. /\ content(h).from = from(h) /\ content(h).bytes = bytes(h)
            /\ h * b = from(h) + b
        BY <2>6, <4>1
      <4>5. content(i).from = from(i)
        BY <2>5, <2>6
      <4>6. db_[i].from = db_[h].from + db_[h].bytes
        BY <2>5, <4>2, <4>3, <4>4, <4>5
      <4> QED
        BY <3>2, <4>6 DEF h
    <3> QED
      BY <3>1, <3>2
  <2>8. db_[i].from % cfg.ele_size = 0 /\ db_[i].bytes % cfg.ele_size = 0
    BY <2>2, <2>5, ContentIsWhole
  <2>9. ASSUME pc # "packing", i = Len(db_) \/ db_[i + 1] = padding
        PROVE  db_[i].from + db_[i].bytes = db_size
    <3>1. ASSUME i < t PROVE FALSE
      <4> DEFINE j == i + 1
      <4>1. j \in 1 .. t /\ j \in 1 .. k /\ j <= t /\ i # k
        <5> HIDE DEF t, k
        <5> QED
          BY <2>3, <2>4, <2>5, <2>9, <3>1
      <4> HIDE DEF j
      <4>2. db_[j] = padding
        BY <2>9, <4>1 DEF j
      <4>3. db_[j] = content(j)
        <5> HIDE DEF t, k
        <5> QED
          BY <2>4, <4>1
      <4>4. LET f == (j - 1) * bytes_per_ptxt
                n == IF j < total THEN bytes_per_ptxt ELSE db_size - f
            IN  content(j) = [from |-> f, bytes |-> n] /\ n \in Nat \ {0}
        BY <2>2, <4>1, ContentIs
      <4>5. content(j).bytes \in Nat \ {0}
        BY <4>4
      <4> QED
        BY <4>2, <4>3, <4>5 DEF padding, Nothing
    <3>2. i = t
      <4> HIDE DEF t
      <4> QED
        BY <2>3, <2>5, <3>1
    <3>3. bytes(i) = db_size - from(i)
      BY <2>3, <3>2
    <3>4. db_size \in Nat
      BY <2>2, ByteSizes
    <3> HIDE DEF from, bytes
    <3> QED
      BY <2>5, <2>6, <3>3, <3>4
  <2> QED
    BY <2>7, <2>8, <2>9
<1> QED
  BY <1>1, DbInvariant, PTL

-----------------------------------------------------------------------------
\* The matrix is filled, and a place and its coordinates determine each other.
THEOREM MatrixFilled == Spec => []MatrixIsFull
<1>1. DbInv => MatrixIsFull
  <2> SUFFICES ASSUME DbInv, pc = "ready" PROVE MatrixIsFull
    BY DEF MatrixIsFull
  <2> DEFINE nvec == pir_params.nvec
  <2>1. Len(db_) = Product(nvec)
    BY DEF DbInv, PackInv
  <2>2. /\ Len(nvec) \in {1, 2}
        /\ \A i \in 1 .. Len(nvec) : nvec[i] \in Nat \ {0}
    <3>1. cfg.d \in {1, 2}
      BY FlagTypes DEF DbInv, TypeOK
    <3> QED
      BY <3>1, MatrixIs
  <2>3. ASSUME NEW k \in 0 .. Len(db_) - 1
        PROVE  LET at == compute_indices(k, nvec)
                   sum[i \in 0 .. Len(nvec)] ==
                     IF i = 0 THEN 0 ELSE sum[i - 1] + at[i] * Stride(nvec, i)
               IN  /\ sum[Len(nvec)] = k
                   /\ \A i \in 1 .. Len(nvec) : at[i] \in 0 .. nvec[i] - 1
    <3> HIDE DEF nvec
    <3>1. k \in 0 .. Product(nvec) - 1
      BY <2>1
    <3> QED
      BY <2>2, <3>1, CoordinatesAre
  <2> QED
    BY <2>1, <2>3 DEF MatrixIsFull
<1> QED
  BY <1>1, DbInvariant, PTL

\* What is asked for, sent and taken stays within the database.
THEOREM DatabaseTypes == Spec => []TypeOK
<1>1. DbInv => TypeOK
  BY DEF DbInv
<1> QED
  BY <1>1, DbInvariant, PTL
=============================================================================
