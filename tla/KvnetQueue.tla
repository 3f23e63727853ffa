----------------------------- MODULE KvnetQueue -----------------------------
(***************************************************************************)
(* The transmit queue of the kvnet driver (drivers/vpn/linux/queue.c): a   *)
(* singly linked list of sk_buffs threaded through skb->next, with head,   *)
(* tail and size, guarded by one spinlock, and the four critical sections  *)
(* the driver runs on it:                                                  *)
(*   - net_dev_send            check, then __queue_insert or drop;         *)
(*   - queue_remove            called by io_read_to_iovec;                 *)
(*   - queue_enable            called by net_dev_open and net_dev_close;   *)
(*   - net_dev_flush_tx_queue  __queue_remove until empty, lock held.      *)
(* The statements inside a critical section are separate steps, so that    *)
(* what the lock is worth is checked and not assumed.                      *)
(*                                                                         *)
(* An sk_buff that was freed may be handed out again by the allocator with *)
(* any value in its next field; __queue_remove leaves tail pointing at the *)
(* removed sk_buff, so a stale tail can name memory in use elsewhere.      *)
(***************************************************************************)
EXTENDS Naturals, Sequences

CONSTANTS Skb,          \* the sk_buffs of the kernel's allocator
          Senders,      \* contexts that call net_dev_send
          Readers,      \* threads that call queue_remove
          Admin,        \* the context that opens and closes the net device
          TxQueueLen,   \* dev->tx_queue_len
          NULL

Threads == Senders \cup Readers \cup {Admin}

ASSUME QueueAssumption ==
    /\ NULL \notin Skb \cup Threads
    /\ Senders \cap Readers = {}
    /\ Admin \notin Senders \cup Readers
    /\ TxQueueLen \in Nat

VARIABLES head, tail, size, enabled,   \* struct queue
          lock,      \* the thread that holds queue.lock, or NULL
          next,      \* skb->next
          pool,      \* the sk_buffs that are free
          pc,        \* where each thread is
          buf        \* each thread's local skb

\* History variables: chain is the list the pointers should spell at each
\* moment, fifo is what chain was when the lock was last released.
VARIABLES chain, fifo

queue == <<head, tail, size, enabled>>
memory == <<next, pool>>
local == <<pc, buf>>
history == <<chain, fifo>>
vars == <<queue, lock, memory, local, history>>

\* The program points at which a thread holds the lock.
Critical == {"check", "link", "tail", "fetch", "detach",
             "seton", "setoff", "unlock", "unlockoff"}

Points == Critical \cup {"idle", "send", "read", "hold", "enable", "disable", "flush"}

Init ==
    /\ head = NULL /\ tail = NULL /\ size = 0 /\ enabled = FALSE
    /\ lock = NULL
    /\ next = [s \in Skb |-> NULL]
    /\ pool = Skb
    /\ pc = [t \in Threads |-> "idle"]
    /\ buf = [t \in Threads |-> NULL]
    /\ chain = <<>> /\ fifo = <<>>

Goto(t, label) == pc' = [pc EXCEPT ![t] = label]

-----------------------------------------------------------------------------
\* acquire_lock and release_lock: spin_lock_bh and spin_unlock_bh.

\* Mutant: the lock is taken without waiting for its holder.
Bug_Acquire(t, from, to) ==
    /\ pc[t] = from
    /\ lock' = t
    /\ Goto(t, to)
    /\ UNCHANGED <<queue, memory, buf, history>>

Acquire(t, from, to) ==
    /\ pc[t] = from
    /\ lock = NULL
    /\ lock' = t
    /\ Goto(t, to)
    /\ UNCHANGED <<queue, memory, buf, history>>

AfterUnlock(t) ==
    IF pc[t] = "unlockoff" THEN "flush"
    ELSE IF buf[t] # NULL THEN "hold" ELSE "idle"

Release(t) ==
    /\ pc[t] \in {"unlock", "unlockoff"}
    /\ lock' = NULL
    /\ Goto(t, AfterUnlock(t))
    /\ fifo' = chain
    /\ UNCHANGED <<queue, memory, buf, chain>>

-----------------------------------------------------------------------------
\* net_dev_send and __queue_insert.

\* The stack allocates an sk_buff and calls net_dev_send with it.
SendBegin(t) ==
    /\ pc[t] = "idle"
    /\ \E s \in pool, n \in Skb \cup {NULL} :
         /\ buf' = [buf EXCEPT ![t] = s]
         /\ pool' = pool \ {s}
         /\ next' = [next EXCEPT ![s] = n]
    /\ Goto(t, "send")
    /\ UNCHANGED <<queue, lock, history>>

\* Mutant: net_dev_send frees the packet and does not return.
Bug_SendDrop(t) ==
    /\ pc[t] = "check"
    /\ ~enabled \/ size >= TxQueueLen
    /\ pool' = pool \cup {buf[t]}
    /\ Goto(t, "link")
    /\ UNCHANGED <<queue, lock, next, buf, history>>

\* The queue is shut or full: the packet is freed with the lock held.
SendDrop(t) ==
    /\ pc[t] = "check"
    /\ ~enabled \/ size >= TxQueueLen
    /\ pool' = pool \cup {buf[t]}
    /\ buf' = [buf EXCEPT ![t] = NULL]
    /\ Goto(t, "unlock")
    /\ UNCHANGED <<queue, lock, next, history>>

\* Mutant: one packet too many is let in.
Bug_SendAccept(t) ==
    /\ pc[t] = "check"
    /\ enabled /\ size <= TxQueueLen
    /\ Goto(t, "link")
    /\ UNCHANGED <<queue, lock, memory, buf, history>>

SendAccept(t) ==
    /\ pc[t] = "check"
    /\ enabled /\ size < TxQueueLen
    /\ Goto(t, "link")
    /\ UNCHANGED <<queue, lock, memory, buf, history>>

\* SET_NEXT_PKT(buf, NULL), then either the list was empty and buf is both
\* its ends, or the old tail is made to point at buf.
InsertLink(t) ==
    /\ pc[t] = "link"
    /\ IF head = NULL
       THEN /\ head' = buf[t] /\ tail' = buf[t]
            /\ next' = [next EXCEPT ![buf[t]] = NULL]
       ELSE /\ next' = [next EXCEPT ![buf[t]] = NULL, ![tail] = buf[t]]
            /\ UNCHANGED <<head, tail>>
    /\ chain' = Append(chain, buf[t])
    /\ Goto(t, "tail")
    /\ UNCHANGED <<size, enabled, lock, pool, buf, fifo>>

\* Mutant: tail is moved only when the list was empty.
Bug_InsertTail(t) ==
    /\ pc[t] = "tail"
    /\ size' = size + 1
    /\ buf' = [buf EXCEPT ![t] = NULL]
    /\ Goto(t, "unlock")
    /\ UNCHANGED <<head, tail, enabled, lock, memory, history>>

\* q->tail = buf (already so for a list of one) and q->size++.
InsertTail(t) ==
    /\ pc[t] = "tail"
    /\ tail' = buf[t]
    /\ size' = size + 1
    /\ buf' = [buf EXCEPT ![t] = NULL]
    /\ Goto(t, "unlock")
    /\ UNCHANGED <<head, enabled, lock, memory, history>>

Send(t) ==
    \/ SendBegin(t)
    \/ Acquire(t, "send", "check")
    \/ SendDrop(t)
    \/ SendAccept(t)
    \/ InsertLink(t)
    \/ InsertTail(t)

-----------------------------------------------------------------------------
\* __queue_remove, by a reader (queue_remove) or by the flush.

\* Mutant: the size is decremented although nothing was removed.
Bug_RemoveNone(t) ==
    /\ pc[t] = "fetch"
    /\ head = NULL
    /\ size' = size - 1
    /\ Goto(t, "unlock")
    /\ UNCHANGED <<head, tail, enabled, lock, memory, buf, history>>

RemoveNone(t) ==
    /\ pc[t] = "fetch"
    /\ head = NULL
    /\ Goto(t, "unlock")
    /\ UNCHANGED <<queue, lock, memory, buf, history>>

RemoveHead(t) ==
    /\ pc[t] = "fetch"
    /\ head # NULL
    /\ buf' = [buf EXCEPT ![t] = head]
    /\ head' = next[head]
    /\ chain' = Tail(chain)
    /\ Goto(t, "detach")
    /\ UNCHANGED <<tail, size, enabled, lock, memory, fifo>>

\* SET_NEXT_PKT(buf, NULL) and q->size--.  The flush frees the sk_buff and
\* looks for the next one; a reader leaves with it.
RemoveDetach(t) ==
    /\ pc[t] = "detach"
    /\ next' = [next EXCEPT ![buf[t]] = NULL]
    /\ size' = size - 1
    /\ IF t = Admin
       THEN /\ pool' = pool \cup {buf[t]}
            /\ buf' = [buf EXCEPT ![t] = NULL]
            /\ Goto(t, "fetch")
       ELSE /\ Goto(t, "unlock")
            /\ UNCHANGED <<pool, buf>>
    /\ UNCHANGED <<head, tail, enabled, lock, history>>

Remove(t) == RemoveNone(t) \/ RemoveHead(t) \/ RemoveDetach(t)

\* A reader calls queue_remove, and later frees the sk_buff it was given.
ReadBegin(t) ==
    /\ pc[t] = "idle"
    /\ Goto(t, "read")
    /\ UNCHANGED <<queue, lock, memory, buf, history>>

ReadFree(t) ==
    /\ pc[t] = "hold"
    /\ pool' = pool \cup {buf[t]}
    /\ buf' = [buf EXCEPT ![t] = NULL]
    /\ Goto(t, "idle")
    /\ UNCHANGED <<queue, lock, next, history>>

Read(t) ==
    \/ ReadBegin(t)
    \/ Acquire(t, "read", "fetch")
    \/ Remove(t)
    \/ ReadFree(t)

-----------------------------------------------------------------------------
\* queue_enable and net_dev_flush_tx_queue, as net_dev_open and net_dev_close
\* call them.  The core opens a closed device and closes an open one.

AdminBegin ==
    /\ pc[Admin] = "idle"
    /\ Goto(Admin, IF enabled THEN "disable" ELSE "enable")
    /\ UNCHANGED <<queue, lock, memory, buf, history>>

SetEnabled ==
    /\ pc[Admin] \in {"seton", "setoff"}
    /\ enabled' = (pc[Admin] = "seton")
    /\ Goto(Admin, IF pc[Admin] = "seton" THEN "unlock" ELSE "unlockoff")
    /\ UNCHANGED <<head, tail, size, lock, memory, buf, history>>

Administer ==
    \/ AdminBegin
    \/ Acquire(Admin, "enable", "seton")
    \/ Acquire(Admin, "disable", "setoff")
    \/ SetEnabled
    \/ Acquire(Admin, "flush", "fetch")
    \/ Remove(Admin)

Next ==
    \/ \E t \in Senders : Send(t)
    \/ \E t \in Readers : Read(t)
    \/ Administer
    \/ \E t \in Threads : Release(t)

Spec == Init /\ [][Next]_vars

-----------------------------------------------------------------------------
InChain(s) == \E i \in 1..Len(chain) : chain[i] = s

\* Types of the variables of struct queue, the sk_buffs and the threads.
TypeOK ==
    /\ head \in Skb \cup {NULL} /\ tail \in Skb \cup {NULL}
    /\ size \in Nat /\ enabled \in BOOLEAN
    /\ lock \in Threads \cup {NULL}
    /\ next \in [Skb -> Skb \cup {NULL}]
    /\ pool \in SUBSET Skb
    /\ pc \in [Threads -> Points]
    /\ buf \in [Threads -> Skb \cup {NULL}]
    /\ chain \in Seq(Skb) /\ fifo \in Seq(Skb)

\* The point the lock holder has reached, "free" when nobody holds the lock.
Phase == IF lock = NULL THEN "free" ELSE pc[lock]

\* Mutual exclusion: a thread is at a point inside a critical section exactly
\* when it holds queue.lock.
LockInv == \A t \in Threads : pc[t] \in Critical <=> lock = t

\* The list invariant of queue.c: following next from head spells chain and
\* ends in NULL; size counts it and tail is its last element, but for the two
\* windows inside __queue_insert and __queue_remove in which they lag behind.
ListInv ==
    LET n == Len(chain)
    IN  /\ head = IF n = 0 THEN NULL ELSE chain[1]
        /\ \A i \in 1..n : next[chain[i]] = IF i = n THEN NULL ELSE chain[i + 1]
        /\ \A i, j \in 1..n : chain[i] = chain[j] => i = j
        /\ n > 0 => tail = IF Phase = "tail" /\ n > 1 THEN chain[n - 1] ELSE chain[n]
        /\ size = CASE Phase = "detach" -> n + 1
                    [] Phase = "tail"   -> n - 1
                    [] OTHER            -> n

\* No sk_buff has two owners: the allocator, the list and the threads that
\* hold one in a local variable never share one, so nothing is freed twice or
\* delivered twice and no thread writes to memory it gave away.
Holds(t) == buf[t] # NULL /\ pc[t] # "tail"

OwnershipInv ==
    /\ \A s \in pool : ~InChain(s) /\ \A t \in Threads : buf[t] # s
    /\ \A t \in Threads : Holds(t) => ~InChain(buf[t])
    /\ \A t, u \in Threads : buf[t] # NULL /\ buf[t] = buf[u] => t = u

\* __queue_insert dereferences tail only when it names an sk_buff that is in
\* the list: the tail that __queue_remove leaves behind is never followed.
TailIsLive ==
    \A t \in Threads : pc[t] = "link" /\ head # NULL => InChain(tail)

\* The list, seen when the lock is free, is the FIFO of PacketFifo.
Promise == INSTANCE PacketFifo WITH Packet <- Skb, Capacity <- TxQueueLen

ImplementsFifo == Promise!Spec
=============================================================================
