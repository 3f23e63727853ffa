SPECIFICATION FairSpec
CONSTANTS
    Senders = {s1}
    Readers = {r1}
    TxQueueLen = 1
    Batch = 1
    KernelSerializes = TRUE
    MaxPackets = 1
    MaxSessions = 1
PROPERTIES CancelEndsAnyRead
