CONSTANTS
    MemSize = 21
    Srcs = {1, 2}
    Dsts = {5, 6}
    Contents <- SmallContents
SPECIFICATION FairSpec
INVARIANTS
    TreeCopied
PROPERTIES
    DoneIsComplete
    CopyFinishes
