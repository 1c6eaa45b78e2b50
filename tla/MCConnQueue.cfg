CONSTANTS
    Workers = {w1, w2, w3}
    NoWorker = NoWorker
    MaxConns = 4
SPECIFICATION FairSpec
INVARIANTS
    NoUseAfterFree
PROPERTIES
    HeadIsServed
    Implements
CHECK_DEADLOCK FALSE
