SPECIFICATION FairSpec
CONSTANTS
    Senders = {s1}
    Readers = {r1}
    TxQueueLen = 2
    Batch = 2
    KernelSerializes = TRUE
    MaxPackets = 4
    MaxSessions = 2
INVARIANTS ReadableUntilDown ReadCount AccountingExact
PROPERTIES PacketsLeave CancelReturns
