\* One run at a time; any of them may fail.
CONSTANTS
    s = s
    t = t
    r1 = r1
    Order = {1, 2, 3}
    Type = {s, t}
    TypeOf <- MCTypeOf
    Size <- MCSize
    Expiring = {3}
    PageSize = 2
    Run = {r1}
    MaxRuns = 3
SPECIFICATION CollectorSpec
INVARIANTS
    CollectorTypeOK
    BaselineWhole
    TradesBounded
CHECK_DEADLOCK FALSE
