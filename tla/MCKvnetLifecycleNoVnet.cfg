SPECIFICATION Spec
CONSTANTS
    Procs = {p1, p2, p3}
    Dev = {d1, d2, d3}
    NULL = NULL
    Failing = {"vnet"}
    StaticNode = FALSE
    OpensOverlap = FALSE
SYMMETRY Symmetry
INVARIANTS NoOops
