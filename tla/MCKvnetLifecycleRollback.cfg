SPECIFICATION Spec
CONSTANTS
    Procs = {p1, p2, p3}
    Dev = {d1, d2, d3}
    NULL = NULL
    Failing = {"region", "cdev", "class", "node", "alloc", "register"}
    StaticNode = FALSE
    OpensOverlap = FALSE
INVARIANTS TypeOK NoOops NothingLeft FieldsTellTheTruth NoOrphan
