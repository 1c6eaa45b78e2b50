CONSTANTS
    Workers = {w1}
    NoWorker = NoWorker
    MaxConns = 2
SPECIFICATION Spec
INVARIANT
    NoneLost
CHECK_DEADLOCK FALSE
