CONSTANTS
    Threads = {t1}
    Jobs <- OneJob
    Tails <- NoTail
    NLetters = 2
    CodesArea = 8
    MemSize = 52
    MinGap = 3
    Latches <- BusyLatch
    MaxJobs = 2
    MaxCrashes = 1
SPECIFICATION Spec
INVARIANT EncodesOwnJob
