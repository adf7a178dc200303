----------------------------- MODULE UnaryCode ------------------------------
(***************************************************************************)
(* The unary code of src/codes/unary.hpp.  write_to_disk of IndexBuilder   *)
(* copies the bytes of a UnaryEncoder to a file, one step a byte; later a  *)
(* UnaryDecoder over the same bytes is incremented once per value.  Other  *)
(* bytes of the file follow those of the list.                             *)
(***************************************************************************)
EXTENDS UnaryBits

CONSTANTS
    MaxValues,  \* bound: how many values
    MaxValue    \* bound: how large

ASSUME UnaryAssumption == MaxValues \in Nat /\ MaxValue \in Nat \ {0}

VARIABLES
    data,        \* the raw data
    raw,         \* current_raw_it: the next value to fetch, from 1
    buffer,      \* what is left of the value being encoded
    out_buffer,  \* the byte being built, a sequence of bits
    eos,         \* the encoder's end of stream
    written,     \* the bits written to the file
    after,       \* the bits after them when they are read
    decoded,     \* the values read
    at_bit,      \* the decoder's bit: the zero of the current value
    phase

encoderVars == <<raw, buffer, out_buffer, eos>>
codeVars == <<data, encoderVars, written, after, decoded, at_bit, phase>>

Zeros == [b \in 1..ByteBits |-> 0]
Ones == [b \in 1..ByteBits |-> 1]

CodeInit ==
    /\ data \in SeqOf(1..MaxValue, MaxValues) \ {<<>>}
    /\ raw = 1 /\ buffer = 0
    /\ out_buffer = <<>> /\ eos = FALSE
    /\ written = <<>>
    /\ after \in {Zeros, Ones}
    /\ decoded = <<>> /\ at_bit = 0
    /\ phase = "begin"

-----------------------------------------------------------------------------
(* The encoder.                                                            *)

NoMoreBits(s) == s.buffer = 0 /\ s.raw > Len(data)
Fetched(s) == IF s.buffer = 0 THEN data[s.raw] ELSE s.buffer
WithBit(s, one) ==
    [raw    |-> IF s.buffer = 0 THEN s.raw + 1 ELSE s.raw,
     buffer |-> Fetched(s) - 1,
     bits   |-> Append(s.bits, IF one THEN 1 ELSE 0)]

\* Mutant: a value loses its last one.
NextBitShort(s) ==
    IF NoMoreBits(s) THEN [s EXCEPT !.bits = Append(@, 0)]
                     ELSE WithBit(s, Fetched(s) > 2)

\* One round of the loop of build_out_buffer; the bits the loop does not reach
\* are zeros.
NextBit(s) ==
    IF NoMoreBits(s) THEN [s EXCEPT !.bits = Append(@, 0)]
                     ELSE WithBit(s, Fetched(s) > 1)

BuildOutBuffer ==
    LET round[n \in 0..ByteBits] ==
            IF n = 0 THEN [raw |-> raw, buffer |-> buffer, bits |-> <<>>]
                     ELSE NextBit(round[n - 1])
        built == round[ByteBits]
    IN  /\ raw' = built.raw
        /\ buffer' = built.buffer
        /\ out_buffer' = built.bits

Begin ==
    /\ phase = "begin"
    /\ BuildOutBuffer
    /\ phase' = "encode"
    /\ UNCHANGED <<data, eos, written, after, decoded, at_bit>>

AtRawEnd == raw > Len(data)

\* The byte is written, then the iterator is incremented.
PutByte ==
    /\ phase = "encode" /\ ~eos
    /\ written' = written \o out_buffer
    /\ eos' = AtRawEnd
    /\ BuildOutBuffer
    /\ UNCHANGED <<data, after, decoded, at_bit, phase>>

EndOfStream ==
    /\ phase = "encode" /\ eos
    /\ phase' = "decode"
    /\ UNCHANGED <<data, encoderVars, written, after, decoded, at_bit>>

-----------------------------------------------------------------------------
(* The decoder.                                                            *)

\* parse_current, from a bit.
Parse(from) ==
    LET zero == ZeroFrom(written \o after, from)
    IN  /\ at_bit' = zero
        /\ decoded' = Append(decoded, zero - from + 1)

DecodeFirst ==
    /\ phase = "decode" /\ decoded = <<>>
    /\ Parse(0)
    /\ UNCHANGED <<data, encoderVars, written, after, phase>>

\* Mutant: the decoder stays on the zero of the value before.
NextStartSame == at_bit
NextStart == at_bit + 1

\* operator++ does not parse at the end of the bytes.
DecodeNext ==
    /\ phase = "decode" /\ decoded # <<>> /\ Len(decoded) < Len(data)
    /\ IF ByteBits * Byte(NextStart) = Len(written)
       THEN at_bit' = NextStart /\ decoded' = Append(decoded, Last(decoded))
       ELSE Parse(NextStart)
    /\ UNCHANGED <<data, encoderVars, written, after, phase>>

Done ==
    /\ phase = "decode" /\ Len(decoded) = Len(data)
    /\ UNCHANGED codeVars

CodeNext == Begin \/ PutByte \/ EndOfStream \/ DecodeFirst \/ DecodeNext \/ Done

CodeSpec == CodeInit /\ [][CodeNext]_codeVars

-----------------------------------------------------------------------------
(* Properties.                                                             *)

\* The loop that refills a buffer across bytes writes value v as v-1 ones and a
\* zero, and stops after the byte in which the last value starts (lines
\* 246-264, 283-290).
EncoderEmits ==
    phase = "decode" => written = FileOf(data, <<>>)

\* Whatever follows the bytes of a list in the file, every value but the last
\* is read back, and the last too if it ends in the byte in which it starts:
\* operator++ sets eos when the last value has been fetched (283-290), though
\* operator== says that it takes care not to "lose a byte" (315), and the tests
\* expect every value (tests/test_codes_unary.cpp:79-82).
OnlyLastValueIsLost ==
    \A i \in DOMAIN decoded :
       (i < Len(data) \/ Byte(StartOf(data, i)) = Byte(EndOf(data, i)))
       => decoded[i] = data[i]

=============================================================================
