SPECIFICATION FairSpec
CONSTANTS
    Seeds = {s1, s2}
    NoFile = NoFile
    Damaged = Damaged
    Nobody = Nobody
INVARIANTS
    TypeOK
    ReceivedIsShared
PROPERTIES
    AgreementStable
    SenderEnds
