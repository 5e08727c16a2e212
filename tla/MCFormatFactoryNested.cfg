SPECIFICATION Spec
CONSTANTS
    Hdr = 2
    Stride = 10
    Infinity = 1000
    MaxPA = 3
    Pad = 2
    Nesting = TRUE
    LimeFiles <- MCLimeFiles
    KdumpFiles <- MCKdumpFiles
    AvmlFiles <- MCAvmlFiles
    RawSizes <- MCRawSizes
    Addr <- MCAddr
    Lengths <- MCLengths
PROPERTY KeepsContract
CHECK_DEADLOCK FALSE
