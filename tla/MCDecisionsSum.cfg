SPECIFICATION HandlersSpec
CONSTANTS
    CCUs = {u1}
    Docs = {d1}
    NoDoc = NoDoc
    Seeds = {"s1"}
    SeedOf <- SharedSeed
    ResolveMs = {5}
    PublishUs = {50}
    Faults = FALSE
    RecordOf <- ThirtyYears
INVARIANTS
    SumAgeIsSum
CHECK_DEADLOCK FALSE
