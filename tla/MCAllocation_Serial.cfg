\* One run at a time; up to three of them fail.
SPECIFICATION AllocFairSpec
CONSTANTS
    Run = {a1}
    Tx <- MCTx
    Line <- MCLine
    Buys <- MCBuys
    Qty <- MCQty
    Matches <- MCMatches
    Planned <- MCPlanned
    MaxFailures = 3
INVARIANTS
    AllocTypeOK
    NoDoubleAllocation
    WithinCapacity
    TotalsHaveRows
PROPERTIES
    Exhaustive
    EventuallyAllocated
