----------------------------- MODULE UnaryBits ------------------------------
(***************************************************************************)
(* What src/codes/unary.hpp leaves of a sequence of values: value v is v-1 *)
(* ones and a zero, bytes of ByteBits bits are filled from the lowest bit, *)
(* bits and bytes count from 0.  UnaryCode shows that the encoder's steps  *)
(* come to this; PostingList reads it.                                     *)
(***************************************************************************)
EXTENDS Integers, Sequences, FiniteSets, SequencesExt

CONSTANT ByteBits  \* the bits of a byte

ASSUME ByteAssumption == ByteBits \in Nat \ {0}

Byte(bit) == bit \div ByteBits

\* The bits of the i-th value.
StartOf(values, i) == SumFunctionOnSet(values, 1..(i - 1))
EndOf(values, i) == StartOf(values, i) + values[i] - 1

\* The encoder stops with the byte in which the last value starts, not with the
\* one in which it ends.
BytesOf(values) ==
    IF values = <<>> THEN 0 ELSE Byte(StartOf(values, Len(values))) + 1

\* A bit of that stream: after the last value, zeros fill the byte.
BitAt(values, bit) ==
    IF \/ bit > EndOf(values, Len(values))
       \/ \E i \in DOMAIN values : bit = EndOf(values, i)
    THEN 0 ELSE 1

\* The file, from the list's first bit, with the bits that follow the list's.
FileOf(values, following) ==
    [b \in 1 .. ByteBits * BytesOf(values) |-> BitAt(values, b - 1)] \o following

\* The decoder's parse_current, from a bit of the file: the first zero.  After
\* the file there are zeros.
ZeroFrom(file, bit) ==
    CHOOSE z \in bit .. Len(file) + bit :
      /\ z < Len(file) => file[z + 1] = 0
      /\ \A b \in bit..(z - 1) : b < Len(file) /\ file[b + 1] = 1

=============================================================================
