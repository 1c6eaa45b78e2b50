CONSTANTS
    Threads = {t1, t2}
    Jobs <- TwoJobs
    Tails <- NoTail
    NLetters = 2
    CodesArea = 8
    MemSize = 52
    MinGap = 3
    Latches <- BusyLatch
    MaxJobs = 2
    MaxCrashes = 0
SPECIFICATION Spec
INVARIANT EncodesOwnJob
