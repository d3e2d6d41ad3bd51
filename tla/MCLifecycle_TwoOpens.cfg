\* Two admin requests in flight at once.
SPECIFICATION Spec
CONSTANTS
    Cycle = {c1, c2, c3}
    Request = {r1, r2}
    NoCycle = NoCycle
    OpenableStatus = {"PLANNED"}
INVARIANTS
    AtMostOneOpen
SYMMETRY CycleSymmetry
CHECK_DEADLOCK FALSE
