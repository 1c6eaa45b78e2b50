CONSTANTS
    Threads = {t1}
    Jobs <- TwoJobs
    Tails <- NoTail
    NLetters = 2
    CodesArea = 8
    MemSize = 52
    MinGap = 3
    Latches <- AnyLatch
    MaxJobs = 1
    MaxCrashes = 1
SPECIFICATION FairSpec
PROPERTY
    ComesToRest
