CONSTANTS
    Workers = {w1, w2}
    NFds = 3
    MaxItems = 3
    LedWidth = 2
SPECIFICATION FairSpec
INVARIANTS
    OwnDescriptor
    NoOtherLeak
    AddrsReady
    LedMeansWork
    OneLight
PROPERTIES
    OneRightAnswer
    ConnectionCloses
CHECK_DEADLOCK FALSE
