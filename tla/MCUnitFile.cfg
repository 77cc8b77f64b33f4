SPECIFICATION Spec
CONSTANTS
    Characters = {"a"}
    Requests <- MCRequests
    Paths <- MCPaths
    Edits <- MCEdits
INVARIANTS
    TypeOK
    ArgvSaved
    NameKnown
CHECK_DEADLOCK FALSE
