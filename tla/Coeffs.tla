------------------------------- MODULE Coeffs -------------------------------
(***************************************************************************)
(* bytes_to_coeffs, which the server packs its database with, and          *)
(* coeffs_to_bytes, which the client unpacks a plaintext with: two loops   *)
(* that move bits through a source and a target of different widths.  One  *)
(* action is one turn of a loop, with the truncations of the C++ types.    *)
(***************************************************************************)
EXTENDS Integers, Sequences, SequencesExt, Powers

CONSTANTS
  Inputs,      \* the byte strings to pack
  Limits,      \* bits per coefficient (logt)
  CoeffCount   \* coefficients of a plaintext (N)

ASSUME CoeffsAssumption ==
  /\ Inputs \subseteq Seq(0 .. 255) \ {<<>>}
  /\ Limits \subseteq Nat \ {0}
  /\ CoeffCount \in Nat \ {0}

VARIABLES
  bytes, limit,  \* the input
  pc,            \* which loop runs
  at,            \* index of the source: i
  src, rest,     \* what is left of it, and how many bits that is
  room,          \* bits free in the last of the target
  coeffs,        \* the coefficients packed; the last one is *target
  elems          \* the bytes unpacked; the last one is target[j]

vars == <<bytes, limit, pc, at, src, rest, room, coeffs, elems>>

Lesser(a, b) == IF a <= b THEN a ELSE b

\* The coefficients that hold size bytes: ceil(8 * size / limit).
size_out(size) == (8 * size + limit - 1) \div limit

\* The bytes that N coefficients hold: the client's (N * logt) / 8.
elems_size == (CoeffCount * limit) \div 8

Init ==
  /\ bytes \in Inputs
  /\ limit \in Limits
  /\ size_out(Len(bytes)) <= CoeffCount
  /\ pc = "pack"
  /\ at = 1 /\ src = bytes[1] /\ rest = 8
  /\ room = limit
  /\ coeffs = <<0>>
  /\ elems = <<>>

\* Mutant: a type with room for all of it.
uint8_wide(x) == x

\* What a uint8_t keeps of a number: src of the packing, target of the other.
uint8(x) == x % 256

\* Mutant: the last coefficient is left as it is.
aligned_not(target) == target

\* The last coefficient after the loop: *target <<= room.
aligned(target) == target * Pow2[room]

\* Mutant: target moves on as soon as it is full, as in the other loop.
pack_bits_eager ==
  LET shift == Lesser(rest, room)
      filled == Last(coeffs) * Pow2[shift] + src \div Pow2[8 - shift]
      full == room = shift
  IN  /\ pc = "pack" /\ rest > 0
      /\ coeffs' = Append(Front(coeffs), filled) \o IF full THEN <<0>> ELSE <<>>
      /\ src' = uint8(src * Pow2[shift])
      /\ room' = IF full THEN limit ELSE room - shift
      /\ rest' = rest - shift
      /\ UNCHANGED <<bytes, limit, pc, at, elems>>

\* while (rest) of bytes_to_coeffs.
pack_bits ==
  LET fresh == room = 0
      free == IF fresh THEN limit ELSE room
      shift == Lesser(rest, free)
      target == IF fresh THEN 0 ELSE Last(coeffs)
      filled == target * Pow2[shift] + src \div Pow2[8 - shift]
  IN  /\ pc = "pack" /\ rest > 0
      /\ coeffs' = Append(IF fresh THEN coeffs ELSE Front(coeffs), filled)
      /\ src' = uint8(src * Pow2[shift])
      /\ room' = free - shift
      /\ rest' = rest - shift
      /\ UNCHANGED <<bytes, limit, pc, at, elems>>

next_byte ==
  /\ pc = "pack" /\ rest = 0 /\ at < Len(bytes)
  /\ at' = at + 1 /\ src' = bytes[at + 1] /\ rest' = 8
  /\ UNCHANGED <<bytes, limit, pc, room, coeffs, elems>>

\* The last coefficient is aligned; set_database fills the plaintext up with
\* ones, and the client starts on it.
pack_done ==
  /\ pc = "pack" /\ rest = 0 /\ at = Len(bytes)
  /\ coeffs' = Append(Front(coeffs), aligned(Last(coeffs)))
                 \o [i \in 1 .. CoeffCount - Len(coeffs) |-> 1]
  /\ pc' = "unpack"
  /\ at' = 1 /\ src' = coeffs'[1] /\ rest' = limit
  /\ room' = 8
  /\ elems' = <<0>>
  /\ UNCHANGED <<bytes, limit>>

\* while (rest && j < size_out) of coeffs_to_bytes; src is a uint64_t, so the
\* bits shifted out of the coefficient stay in it.
unpack_bits ==
  LET shift == Lesser(rest, room)
      filled == uint8(Last(elems) * Pow2[shift] + src \div Pow2[limit - shift])
      full == room = shift
  IN  /\ pc = "unpack" /\ rest > 0 /\ Len(elems) <= elems_size
      /\ elems' = Append(Front(elems), filled) \o IF full THEN <<0>> ELSE <<>>
      /\ src' = src * Pow2[shift]
      /\ room' = IF full THEN 8 ELSE room - shift
      /\ rest' = rest - shift
      /\ UNCHANGED <<bytes, limit, pc, at, coeffs>>

\* Mutant: every coefficient is taken to have eight bits.
next_coeff_byte ==
  /\ pc = "unpack" /\ rest = 0 /\ at < CoeffCount
  /\ at' = at + 1 /\ src' = coeffs[at + 1] /\ rest' = 8
  /\ UNCHANGED <<bytes, limit, pc, room, coeffs, elems>>

next_coeff ==
  /\ pc = "unpack" /\ rest = 0 /\ at < CoeffCount
  /\ at' = at + 1 /\ src' = coeffs[at + 1] /\ rest' = limit
  /\ UNCHANGED <<bytes, limit, pc, room, coeffs, elems>>

unpack_done ==
  /\ pc = "unpack"
  /\ \/ rest = 0 /\ at = CoeffCount
     \/ Len(elems) > elems_size
  /\ pc' = "done"
  /\ elems' = SubSeq(elems, 1, elems_size)
  /\ UNCHANGED <<bytes, limit, at, src, rest, room, coeffs>>

Done == pc = "done" /\ UNCHANGED vars

Next == \/ pack_bits \/ next_byte \/ pack_done
        \/ unpack_bits \/ next_coeff \/ unpack_done \/ Done

Spec == Init /\ [][Next]_vars

-----------------------------------------------------------------------------
TypeOK ==
  /\ pc \in {"pack", "unpack", "done"}
  /\ rest \in 0 .. 8 \cup 0 .. limit
  /\ room \in 0 .. 8 \cup 0 .. limit
  /\ coeffs \in Seq(Nat)
  /\ elems \in Seq(0 .. 255)

\* Bit b, counted from the first one, of a sequence of width-bit numbers.
Bit(seq, width, b) == BitOf(seq[b \div width + 1], width - 1 - (b % width))

\* What the server encrypts are the bits of the bytes, in order, cut every
\* limit bits and filled up with zeros: wherever the boundaries of bytes and
\* coefficients fall, no bit is lost, doubled or moved, and no coefficient
\* exceeds the plaintext modulus.
PackedBits ==
  pc = "unpack" =>
    /\ Len(coeffs) = CoeffCount
    /\ \A i \in 1 .. CoeffCount : coeffs[i] < Pow2[limit]
    /\ \A b \in 0 .. size_out(Len(bytes)) * limit - 1 :
         Bit(coeffs, limit, b) =
           IF b < 8 * Len(bytes) THEN Bit(bytes, 8, b) ELSE 0

\* The client's bytes start with the server's: unpacking undoes packing,
\* although the bits it shifts out of a coefficient stay in its source.
RoundTrip == pc = "done" => IsPrefix(bytes, elems)

\* While they run, the loops have moved as many bits out of their source as
\* into their target, so that neither reads past its end.
InStep ==
  /\ pc = "pack" =>
       8 * at - rest = limit * Len(coeffs) - room
  /\ pc = "unpack" =>
       limit * at - rest = 8 * Len(elems) - room

\* target of bytes_to_coeffs, which nothing but the number of bits stops, does
\* not pass the end of the output that was allocated for them: it moves on
\* only when another bit comes, not when a coefficient is full.
TargetFits == pc = "pack" => Len(coeffs) <= size_out(Len(bytes))

-----------------------------------------------------------------------------
\* The invariants made inductive, for the proofs.

\* What the bits of a loop can be, that its source has not ended, and that its
\* target has a last element.
LoopInv ==
  /\ limit \in Nat \ {0} /\ Len(bytes) \in Nat \ {0}
  /\ pc \in {"pack", "unpack", "done"}
  /\ pc = "pack" =>
       /\ at \in 1 .. Len(bytes) /\ rest \in 0 .. 8
       /\ room \in 0 .. limit /\ (room = limit => Len(coeffs) = 1)
       /\ coeffs \in Seq(Nat) /\ Len(coeffs) > 0
  /\ pc = "unpack" =>
       /\ at \in 1 .. CoeffCount /\ rest \in 0 .. limit /\ room \in 1 .. 8
       /\ elems \in Seq(0 .. 255) /\ Len(elems) > 0
  /\ InStep

\* Up to the free bits of its last element, the target is the bits of the
\* source from the first one on.
Holds(target, width, free, source, of) ==
  \A i \in 1 .. Len(target) :
    LET missing == IF i = Len(target) THEN free ELSE 0
    IN  \A j \in 0 .. width - missing - 1 :
          BitOf(target[i], j) = Bit(source, of, width * i - missing - 1 - j)

\* What the coefficients hold of the bytes and the elements of the coefficients,
\* and what is in the source: of a byte what is left, of a coefficient also
\* what was shifted out.  That is more than is left only for an empty target.
BitsInv ==
  /\ bytes \in Seq(0 .. 255) /\ size_out(Len(bytes)) <= CoeffCount
  /\ pc = "pack" =>
       /\ src = uint8(bytes[at] * Pow2[8 - rest])
       /\ \A i \in 1 .. Len(coeffs) - 1 : coeffs[i] < Pow2[limit]
       /\ Last(coeffs) < Pow2[limit - room]
       /\ Holds(coeffs, limit, room, bytes, 8)
  /\ pc # "pack" =>
       /\ coeffs \in Seq(Nat) /\ Len(coeffs) = CoeffCount
       /\ \A i \in 1 .. CoeffCount : coeffs[i] < Pow2[limit]
       /\ \A b \in 0 .. size_out(Len(bytes)) * limit - 1 :
            Bit(coeffs, limit, b) = IF b < 8 * Len(bytes) THEN Bit(bytes, 8, b) ELSE 0
  /\ pc = "unpack" =>
       /\ src = coeffs[at] * Pow2[limit - rest]
       /\ rest \in {0, limit} \/ room = 8
       /\ room = 8 => Last(elems) = 0
       /\ Len(elems) <= elems_size + 1
       /\ Holds(elems, 8, room, coeffs, limit)
  /\ pc = "done" =>
       /\ elems \in Seq(0 .. 255)
       /\ IsPrefix(bytes, elems)
=============================================================================
