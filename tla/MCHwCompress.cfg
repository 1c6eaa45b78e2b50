CONSTANTS
    Threads = {t1}
    Jobs <- AllJobs
    Tails <- NoTail
    NLetters = 2
    CodesArea = 8
    MemSize = 52
    MinGap = 3
    Latches <- AnyLatch
    MaxJobs = 2
    MaxCrashes = 0
SPECIFICATION FairSpec
INVARIANTS
    TypeOK
    BusOwned
    PulsesAnswered
    WritesInFile
    StatusFresh
    EncoderAtRest
PROPERTIES
    Implements
    WaitReturns
