SPECIFICATION Spec
CONSTANTS
    Skb = {k1, k2, k3}
    Senders = {s1, s2}
    Readers = {r1}
    Admin = admin
    TxQueueLen = 2
    NULL = NULL
SYMMETRY Symmetry
INVARIANTS TypeOK ListInv OwnershipInv TailIsLive
PROPERTIES ImplementsFifo
