\* One slot, or two while the limit is widened.
CONSTANTS
    c1 = c1
    c2 = c2
    c3 = c3
    u = u
    v = v
    w = w
    NoCall = NoCall
    Call = {c1, c2, c3}
    Key = {u, w}
    Wants <- MCWants
    Fresh = {w}
    MaxConcurrency = 1
    MinConcurrency = 1
    Widener = {v}
    WideTo = {2}
    MaxRetries = 2
    LastPeriod <- MCLastPeriod
SPECIFICATION EsiSpec
INVARIANTS
    EsiTypeOK
    OneFlight
    AnswersMonotonic
    NobodyLeftBehind
SYMMETRY Symmetry
CHECK_DEADLOCK FALSE
