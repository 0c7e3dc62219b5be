SPECIFICATION Spec
CONSTANTS
    Length <- MCLength
    Nibble <- MCNibble
    Octet <- MCOctet
    Short <- MCShort
CHECK_DEADLOCK FALSE
INVARIANTS
    TypeOK
    InBounds
    OffsetsAgree
    NameInside
PROPERTY AlwaysProgress
