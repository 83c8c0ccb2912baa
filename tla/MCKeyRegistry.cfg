SPECIFICATION FairSpec
CONSTANTS
    KeyNames <- Alike
    Words <- MCWords
    Others <- MCOthers
    NameLength = 2
    SortStrings <- Sorted
    MaxContracts = 2
    MaxScripts = 3
    MaxPending = 3
    NoKey = NoKey
INVARIANTS
    TypeOK
    KeysAreOwn
    EndedRunStored
    SharedLogs
    FilesAgree
PROPERTIES
    RunEnds
CHECK_DEADLOCK FALSE
