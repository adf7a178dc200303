--------------------------- MODULE VariableBytes ----------------------------
(***************************************************************************)
(* The variable-byte code of src/codes/variable_blocks.hpp: a number is    *)
(* its digits in base Radix (2^7), the lowest first, and the most          *)
(* significant bit of a byte says that another one follows.  Offsets count *)
(* from 0.  docid_t, freq_t and size_t are 64 bits wide, which 10 bytes    *)
(* hold: no number is cut.                                                 *)
(***************************************************************************)
EXTENDS Integers, Sequences, FiniteSetsExt

CONSTANT Radix  \* 2^7

ASSUME RadixAssumption == Radix \in Nat /\ Radix >= 2

\* The constructor of VariableBytes: 0 is one byte too.
Encoded[n \in Nat] ==
    IF n < Radix THEN <<n>> ELSE <<Radix + (n % Radix)>> \o Encoded[n \div Radix]

EncodedAll(numbers) ==
    LET bytes[k \in 0..Len(numbers)] ==
          IF k = 0 THEN <<>> ELSE bytes[k - 1] \o Encoded[numbers[k]]
    IN  bytes[Len(numbers)]

\* The test of the most significant bit.  Mutant: a zero digit ends a number.
MoreThanZero(byte) == byte > Radix
More(byte) == byte >= Radix

\* The number at an offset, and where the next is: high is what its last bytes
\* make.
ParseAndAlign(bytes, offset) ==
    LET last == Min({o \in offset..(Len(bytes) - 1) : ~More(bytes[o + 1])})
        high[d \in 0..(last + 1 - offset)] ==
          IF d = 0 THEN 0 ELSE (bytes[last + 2 - d] % Radix) + Radix * high[d - 1]
    IN  [datum |-> high[last + 1 - offset], next |-> last + 1]

\* operator++, which does not parse at the end.
Decode(bytes, it, end) ==
    IF it.current = end THEN it
    ELSE LET parsed == ParseAndAlign(bytes, it.current)
         IN  [current |-> parsed.next, read |-> Append(it.read, parsed.datum)]

\* A VariableBlocksDecoder from one offset to another: there are no more numbers
\* than bytes.
Decoded(bytes, begin, end) ==
    LET it[k \in 0..(end - begin)] ==
          IF k = 0 THEN [current |-> begin, read |-> <<>>] ELSE Decode(bytes, it[k - 1], end)
    IN  it[end - begin].read

=============================================================================
