SPECIFICATION Spec
CONSTANTS
    Files <- PolicyFiles
    FirstFile <- Shipped
    SymbolOrder <- Obligations
    Certificates <- Users
    Atoi <- MCAtoi
    MaxRuns = 2
INVARIANTS
    TypeOK
    OnlyAsWritten
    AllThatIsWritten
    BothAlike
PROPERTIES
    CutReceiverStays
CHECK_DEADLOCK FALSE
