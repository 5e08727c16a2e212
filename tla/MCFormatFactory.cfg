SPECIFICATION Spec
CONSTANTS
    Hdr = 2
    Stride = 10
    Infinity = 1000
    MaxPA = 3
    Pad = 2
    Nesting = FALSE
    LimeFiles <- MCLimeFiles
    KdumpFiles <- MCKdumpFiles
    AvmlFiles <- MCAvmlFiles
    RawSizes <- MCRawSizes
    Addr <- MCAddr
    Lengths <- MCLengths
PROPERTIES KeepsContract CallsEnd
CHECK_DEADLOCK FALSE
