\* One request at a time, and runs of the job between its steps; a key is used for two batches.
CONSTANTS
    s = s
    t = t
    p1 = p1
    p2 = p2
    key = key
    b1 = b1
    b2 = b2
    r1 = r1
    Type = {s, t}
    Package = {p1, p2}
    Items <- MCItems
    Plan <- MCPlan
    Batch = {b1, b2}
    Key = {key}
    KeyOf <- MCKeyOf
    Request = {r1}
    NoBatch = NoBatch
    MaxSends = 2
    MaxLines = 2
SPECIFICATION MarketSpec
INVARIANTS
    MarketTypeOK
    LinesHoldPackages
PROPERTIES
    AnsweredOnce
CHECK_DEADLOCK FALSE
