SPECIFICATION Spec
CONSTANTS
    Senders = {s1}
    Readers = {r1, r2}
    TxQueueLen = 2
    Batch = 1
    KernelSerializes = TRUE
    MaxPackets = 2
    MaxSessions = 1
INVARIANTS AllCounted
