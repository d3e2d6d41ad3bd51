\* One admin request at a time.
SPECIFICATION FairSpec
CONSTANTS
    Cycle = {c1, c2, c3}
    Request = {r1}
    NoCycle = NoCycle
    OpenableStatus = {"PLANNED", "OPEN"}
INVARIANTS
    TypeOK
    AtMostOneOpen
    ReportInOrder
    ReportTruth
PROPERTIES
    StrictBeforeClose
    StrictFailureChangesNothing
    ImplementsCycleStatus
    RequestsEnd
CHECK_DEADLOCK FALSE
