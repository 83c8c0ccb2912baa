SPECIFICATION Spec
CONSTANTS
    Asthma = Asthma
    Diabetes = Diabetes
    Both_ = AsthmaCommaDiabetes
    True = True
    False = False
    High = High
    Low = Low
    Ineligible = Ineligible
    NoOutput = NoOutput
    Names = {"first", "second table", "Second Table"}
    Methods = {"First", "SecondTable"}
    toCamelCase <- CamelCase
    Files <- XmlFiles
    Pieces <- StringPieces
    ValuesOf <- Values
INVARIANTS
    TypeOK
    FunctionDecides
    RegistryBacked
PROPERTIES
    RegistryKept
    EmptyRegistryStays
