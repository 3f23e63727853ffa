SPECIFICATION Spec
CONSTANTS
    Writers = {w1, w2}
    MaxCount = 2
    MaxCalls = 2
    MaxTries = 2
SYMMETRY Symmetry
INVARIANTS TypeOK NoGap SuccessMeansAll OncePerTry NoSkbLeak RxCount
CHECK_DEADLOCK FALSE
