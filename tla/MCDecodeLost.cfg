SPECIFICATION Spec
CONSTANTS
    NoValue = NoValue
    MaxShapes = 0
    MaxConventions = 0
    IntSize <- MCIntSize
    JsonKeys <- MCJsonKeys
    Json <- MCJson
    Requests <- MCScalarSibling
    Numeric <- MCNumeric
    Upper <- MCUpper
    Lower <- MCLower
INVARIANTS
    NothingLost
