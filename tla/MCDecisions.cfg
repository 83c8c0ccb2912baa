SPECIFICATION HandlersSpec
CONSTANTS
    CCUs = {u1, u2}
    Docs = {d1, d2}
    NoDoc = NoDoc
    Seeds = {"s1", "s2"}
    SeedOf <- OddSeed
    ResolveMs = {5, 50}
    PublishUs = {50, 5000}
    Faults = TRUE
    RecordOf <- ThirtyYears
SYMMETRY Symmetry
INVARIANTS
    HandlersTypeOK
    StoredIsUsed
    SameDocuments
    WellLinked
    NoLossWithoutFork
    ReadIsSnapshot
PROPERTIES
    AppendOnly
CHECK_DEADLOCK FALSE
