SPECIFICATION Spec
CONSTANTS
    r1 = r1
    r2 = r2
    bad = bad
    Requests <- MCRequests
    Size <- MCSize
    Malformed = {bad}
    Capacity = 1
    FlushSize = 2
INVARIANTS
    NoHandlerPanics
