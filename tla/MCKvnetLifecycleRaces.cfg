SPECIFICATION Spec
CONSTANTS
    Procs = {p1, p2, p3}
    Dev = {d1, d2, d3}
    NULL = NULL
    Failing = {"vnet", "region", "cdev", "alloc", "register"}
    StaticNode = TRUE
    OpensOverlap = TRUE
SYMMETRY Symmetry
INVARIANTS VnetOutlivesFiles QueueFollowsInterface
CHECK_DEADLOCK FALSE
