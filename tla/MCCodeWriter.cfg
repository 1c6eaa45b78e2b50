CONSTANTS
    Codes <- SomeCodes
    Dsts = {1}
    MemSize = 10
    MaxBits = 66
SPECIFICATION FairSpec
INVARIANTS
    WipFits
    PendingKept
    StreamWritten
PROPERTIES
    DoneIsFlushed
    RequestHeld
    CodeFinishes
