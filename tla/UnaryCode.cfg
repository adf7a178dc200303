SPECIFICATION CodeSpec
CONSTANTS
    ByteBits = 4
    MaxValues = 3
    MaxValue = 9
INVARIANTS
    EncoderEmits
    OnlyLastValueIsLost
