SPECIFICATION FairSpec
CONSTANTS
    PrefixSize = 3
    RequestSize = 5
    AckSize = 3
    TextSizes = {1, 2, 3, 4, 6, 7}
    AckBuffer = 4
    Buffer = 3
    Prefixed = FALSE
PROPERTIES
    GetAcknowledged
CHECK_DEADLOCK FALSE
