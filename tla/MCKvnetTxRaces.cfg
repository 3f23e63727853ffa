SPECIFICATION Spec
CONSTANTS
    Senders = {s1, s2}
    Readers = {r1, r2}
    TxQueueLen = 1
    Batch = 1
    KernelSerializes = FALSE
    MaxPackets = 3
    MaxSessions = 2
SYMMETRY Symmetry
INVARIANTS TypeOK NoLostWakeup NoStalePackets NeverOvercounted
PROPERTIES ImplementsFifo KeepsPromise
