SPECIFICATION FairSpec
CONSTANTS
    Conns = {c1, c2}
    Addrs = {a1, a2}
    CCUs = {u1, u2}
    MaxResent = 1
    NoReq = NoReq
    NoAddr = NoAddr
INVARIANTS
    TypeOK
    SingleCopy
    ResponseAddressed
    ArrivalOrder
PROPERTIES
    ImplementsRequestReply
    HandlerReturns
    QueuedIsTaken
