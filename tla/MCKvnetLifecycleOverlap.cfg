SPECIFICATION Spec
CONSTANTS
    Procs = {p1, p2, p3}
    Dev = {d1, d2, d3}
    NULL = NULL
    Failing = {"alloc", "register"}
    StaticNode = FALSE
    OpensOverlap = TRUE
SYMMETRY Symmetry
INVARIANTS FieldsTellTheTruth
CHECK_DEADLOCK FALSE
