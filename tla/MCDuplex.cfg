SPECIFICATION FairSpec
CONSTANTS
    MaxChunks = 1
    CloseStopsRead <- ConnReads
    CloseStopsWrite <- ConnAndStdinWrites
    OddReads <- ConnReads
    OddWrites <- ConnReads
INVARIANTS
    ResultsTruthful
    CleanReturn
    CountsWithinCopied
    CloseAllOnce
PROPERTIES
    Terminates
    NoLeak
CHECK_DEADLOCK FALSE
