CONSTANTS
    NLetters = 4
    MaxCode = 3
    WorkingSize = 11
    Texts <- SomeTexts
    Tails <- SomeTails
    CodeTables <- AllTables
SPECIFICATION FairSpec
INVARIANTS
    Optimal
    GoodCodes
    BuffersFit
    BytesPacked
    TextReturns
    ReadsOnlyFile
    OverrunBounded
PROPERTIES
    CodedSpec
    LoopsEnd
CHECK_DEADLOCK FALSE
