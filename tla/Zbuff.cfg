SPECIFICATION Spec
CONSTANTS
    Nil = nil
    Undef = undef
    Calls <- MCCalls
    Bytes = {0, 1}
    Lens = {0, 1, 3}
    Data <- MCData
    Ints <- MCInts
    Starts <- MCStarts
    Widths = {2}
    Formats <- MCFormats
    Numbers <- MCNumbers
    MaxLen = 4
VIEW MCView
INVARIANTS
    ZTypeOK
    UsedFits
    PackedReadsBack
PROPERTIES
    ImplementsByteString
CHECK_DEADLOCK FALSE
