SPECIFICATION BatchSpec
CONSTANTS
    a = a
    b = b
    c = c
    d = d
    e = e
    f = f
    none = none
    t1 = t1
    t2 = t2
    p = p
    q = q
    s1 = s1
    s2 = s2
    null = null
    Spans <- MCForest
    SpanIds <- MCSpanIds
    TraceIds <- MCTraceIds
    Projects <- MCProjects
    Sessions <- MCSessions
    Batches <- MCBatches
    NoParent = none
    FaultSteps = {"serialize", "project", "trace", "insert", "propagate", "commit"}
    FaultOnNew = FALSE
INVARIANTS
    TypeOK
    Balanced
    FiledUnderOwnProject
    CacheAgrees
    RangeCovers
    AnswersAreTrue
PROPERTIES
    DuplicateIsNoOp
    OnlyGrows
    InsertReturns
    ImplementsLedger
