SPECIFICATION Spec
CONSTANTS
    a = a
    b = b
    c = c
    d = d
    e = e
    f = f
    p = p
    q = q
    c1 = c1
    c2 = c2
    unknown = unknown
    two = two
    three = three
    NoBound = NoBound
    Free = Free
    Writer = Writer
    Limit = 2
    Numeric <- MCNumeric
    Stored <- MCStored
    Clients <- OneClient
    Spans <- NoSpans
    WalksOf <- RowidWalksOf
INVARIANT NoRowTwice
