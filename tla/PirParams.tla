----------------------------- MODULE PirParams ------------------------------
(***************************************************************************)
(* The arithmetic that client and server each do on their own flags (the   *)
(* functions of pir.cpp, and the index functions of pir_client.cpp), and   *)
(* that has to agree: how many elements a plaintext holds, how many        *)
(* plaintexts there are, and the matrix they are laid out in.              *)
(*                                                                         *)
(* Floating point is modelled by the integer it is rounded to, which is    *)
(* exact below 2^53 and for the one or two dimensions of pir.hpp; fewer    *)
(* than 2^32 plaintexts are meant throughout, as sides and products are    *)
(* uint32_t there.                                                         *)
(***************************************************************************)
EXTENDS Integers, Sequences, FiniteSetsExt

\* ceil(a / b) of positive integers.
CeilDiv(a, b) == (a + b - 1) \div b

\* The loops product *= dims[i]
Product(dims) ==
  LET product[i \in 0 .. Len(dims)] ==
        IF i = 0 THEN 1 ELSE product[i - 1] * dims[i]
  IN  product[Len(dims)]

\* d sides of r, the first t of them one longer.
Sides(r, d, t) == [i \in 1 .. d |-> IF i <= t THEN r + 1 ELSE r]

\* floor(pow(n, 1.0 / d))
FloorRoot(n, d) == Max({r \in 1 .. n : Product(Sides(r, d, 0)) <= n})

-----------------------------------------------------------------------------
\* Number of coefficients needed to represent a database element
coefficients_per_element(logtp, ele_size) == CeilDiv(8 * ele_size, logtp)

\* Number of database elements that can fit in a single FV plaintext; the
\* callers' assertion that it is positive is Packable.
elements_per_ptxt(logt, N, ele_size) ==
  N \div coefficients_per_element(logt, ele_size)

Packable(logt, N, ele_size) == elements_per_ptxt(logt, N, ele_size) > 0

\* Number of FV plaintexts needed to represent the database
plaintexts_per_db(logtp, N, ele_num, ele_size) ==
  CeilDiv(ele_num, elements_per_ptxt(logtp, N, ele_size))

\* Mutant: no side is lengthened.
get_dimensions_floor(plaintext_num, d) ==
  Sides(Max({2, FloorRoot(plaintext_num, d)}), d, 0)

\* The loop that lengthens sides starts from product = 1, not from what the
\* sides multiply to, so it lengthens one even if they suffice already.
get_dimensions(plaintext_num, d) ==
  LET r == Max({2, FloorRoot(plaintext_num, d)})
      enough == {t \in 1 .. d : Product(Sides(r, d, t)) >= plaintext_num}
  IN  Sides(r, d, IF Product(Sides(r, d, 0)) = plaintext_num \/ plaintext_num = 1
                  THEN 0 ELSE Min(enough \cup {d}))

\* The fields of PirParams; logq is the bits of the one coefficient modulus.
gen_params(ele_num, ele_size, N, logt, d, logq) ==
  LET n == plaintexts_per_db(logt, N, ele_num, ele_size)
  IN  [n |-> n, d |-> d, nvec |-> get_dimensions(n, d),
       expansion_ratio |-> 2 * CeilDiv(logq, logt)]

-----------------------------------------------------------------------------
\* Mutant: the earlier sides' product.
Stride_earlier(nvec, i) == Product(SubSeq(nvec, 1, i - 1))

\* Plaintexts that one step of coordinate i skips: the later sides' product.
Stride(nvec, i) == Product(SubSeq(nvec, i + 1, Len(nvec)))

\* The coordinates of a plaintext: what the larger strides leave of its index
\* (j in the code), divided by each stride in turn.
compute_indices(desiredIndex, nvec) ==
  LET j[i \in 0 .. Len(nvec)] ==
        IF i = 0 THEN desiredIndex
        ELSE j[i - 1] - (j[i - 1] \div Stride(nvec, i)) * Stride(nvec, i)
  IN  [i \in 1 .. Len(nvec) |-> j[i - 1] \div Stride(nvec, i)]

\* Query ciphertexts for one coordinate; each selects one position of its N,
\* or none.  The test that skips a ciphertext lets position N through, which
\* its plaintext does not have.
query_ciphertexts(index, n_i, N) ==
  [j \in 1 .. CeilDiv(n_i, N) |->
     IF index > N * j \/ index < N * (j - 1) THEN {} ELSE {index - N * (j - 1)}]

\* Mutant: the division rounded up.
get_fv_index_ceil(element_idx, logt, N, ele_size) ==
  CeilDiv(element_idx, elements_per_ptxt(logt, N, ele_size))

\* Index and offset of an element in an FV plaintext
get_fv_index(element_idx, logt, N, ele_size) ==
  element_idx \div elements_per_ptxt(logt, N, ele_size)

get_fv_offset(element_idx, logt, N, ele_size) ==
  element_idx % elements_per_ptxt(logt, N, ele_size)
=============================================================================
