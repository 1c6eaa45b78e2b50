CONSTANTS
    Ats = {0, 4}
    Contents <- TwoStrings
SPECIFICATION FairSpec
PROPERTIES
    CodeIsString
    ReadsItsOwn
    ReadFinishes
