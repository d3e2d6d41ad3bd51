\* One request at a time, the hourly job and allocations by hand in between.
SPECIFICATION InventorySpec
CONSTANTS
    Cycle = {c1, c2}
    Request = {r1}
    NoCycle = NoCycle
    OpenableStatus = {"PLANNED", "OPEN"}
    Units = 1
    OrderUnits = 2
    MaxBooked = 2
    PlannedLines = 1
    MaxLines = 3
    JobOverlaps = FALSE
    AllocatableStatus = {"PLANNED", "OPEN"}
INVARIANTS
    InventoryTypeOK
    NoOversell
    SoldOut
    StockMovesOnce
SYMMETRY CycleSymmetry
CHECK_DEADLOCK FALSE
