CONSTANTS
    Threads = {t1}
    Jobs <- OneJob
    Tails <- StrayTail
    NLetters = 2
    CodesArea = 8
    MemSize = 52
    MinGap = 3
    Latches <- BusyLatch
    MaxJobs = 1
    MaxCrashes = 0
SPECIFICATION Spec
INVARIANT EncodesOwnJob
