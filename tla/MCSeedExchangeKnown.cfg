SPECIFICATION Spec
CONSTANTS
    Seeds = {s1, s2}
    NoFile = NoFile
    Damaged = Damaged
    Nobody = Nobody
PROPERTIES
    SeedKnownToAll
