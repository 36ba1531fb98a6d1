SPECIFICATION Spec
CONSTANTS
    NoValue = NoValue
    MaxShapes = 4
    MaxConventions = 4
    IntSize <- MCIntSize
    JsonKeys <- MCJsonKeys
    Json <- MCJson
    Requests <- MCRequests
    Numeric <- MCNumeric
    Upper <- MCUpper
    Lower <- MCLower
INVARIANTS
    TypeOK
    NothingInvented
    LossExplained
    OrderIsIrrelevant
    ExplicitWins
    TotalExplained
