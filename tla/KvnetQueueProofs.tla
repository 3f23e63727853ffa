-------------------------- MODULE KvnetQueueProofs --------------------------
(***************************************************************************)
(* For any sets of sk_buffs, senders and readers and any queue length: the *)
(* inductive invariant of KvnetQueue, and from it mutual exclusion, the    *)
(* list invariant, single ownership, the liveness of the tail that is      *)
(* dereferenced, and the implementation of PacketFifo.                     *)
(***************************************************************************)
EXTENDS KvnetQueue, SequenceTheorems, TLAPS

(***************************************************************************)
(* The strengthening.  ControlInv says which points each kind of thread    *)
(* visits and when its local skb is set; CommitInv says how far chain may  *)
(* be from fifo at each point of a critical section.                       *)
(***************************************************************************)
Carrying == {"send", "check", "link", "tail", "detach", "hold"}

ControlInv ==
    /\ \A t \in Senders : pc[t] \in {"idle", "send", "check", "link", "tail", "unlock"}
    /\ \A t \in Readers : pc[t] \in {"idle", "read", "fetch", "detach", "unlock", "hold"}
    /\ pc[Admin] \in {"idle", "enable", "disable", "flush", "seton", "setoff",
                      "fetch", "detach", "unlock", "unlockoff"}
    /\ \A t \in Threads : pc[t] \in Carrying => buf[t] # NULL
    /\ \A t \in Threads : buf[t] # NULL => pc[t] \in Carrying \/ (t \in Readers /\ pc[t] = "unlock")
    /\ pc[Admin] \in {"unlockoff", "flush", "fetch", "detach"} => ~enabled
    /\ \A t \in Threads : pc[t] = "tail" => chain # <<>> /\ chain[Len(chain)] = buf[t]

Room == enabled /\ Len(fifo) < TxQueueLen

CommitInv ==
    /\ Phase \in {"free", "check", "link", "seton", "setoff", "unlockoff"} => chain = fifo
    /\ Phase = "link" => Room
    /\ Phase = "tail" => Room /\ chain = Append(fifo, buf[lock])
    /\ Phase = "fetch" /\ lock \in Readers => chain = fifo
    /\ Phase = "detach" /\ lock \in Readers => fifo # <<>> /\ chain = Tail(fifo)
    /\ Phase = "unlock" =>
         \/ chain = fifo
         \/ fifo # <<>> /\ chain = Tail(fifo)
         \/ ~enabled /\ chain = <<>>
         \/ Room /\ \E s \in Skb : chain = Append(fifo, s)

IInv ==
    /\ TypeOK
    /\ LockInv
    /\ ControlInv
    /\ ListInv
    /\ OwnershipInv
    /\ CommitInv
-----------------------------------------------------------------------------
\* A queue fresh from queue_init satisfies the invariant.
LEMMA InitIInv == Init => IInv
<1> SUFFICES ASSUME Init PROVE IInv
  OBVIOUS
<1> USE QueueAssumption DEF Init
<1>1. TypeOK
  <2>1. <<>> \in Seq(Skb)
    BY EmptySeq
  <2>2. "idle" \in Points
    BY DEF Points
  <2> QED
    BY <2>1, <2>2 DEF TypeOK
<1>2. LockInv
  BY DEF LockInv, Critical
<1>3. ControlInv
  BY DEF ControlInv, Carrying, Threads
<1>4. ListInv
  BY DEF ListInv, Phase
<1>5. OwnershipInv
  BY DEF OwnershipInv, InChain, Holds
<1>6. CommitInv
  BY DEF CommitInv, Phase
<1> QED
  BY <1>1, <1>2, <1>3, <1>4, <1>5, <1>6 DEF IInv

\* A thread inside a critical section is alone there, and Phase is its point.
LEMMA Holder ==
  ASSUME LockInv, NEW t \in Threads, pc[t] \in Critical
  PROVE  /\ lock = t
         /\ Phase = pc[t]
         /\ \A u \in Threads : u # t => pc[u] \notin Critical
BY QueueAssumption DEF LockInv, Phase

\* While the lock is free nobody is inside a critical section.
LEMMA NoHolder ==
  ASSUME LockInv, lock = NULL
  PROVE  Phase = "free" /\ \A u \in Threads : pc[u] \notin Critical
BY QueueAssumption DEF LockInv, Phase

\* Taking the lock touches nothing that it protects.
LEMMA AcquireStep ==
  ASSUME IInv, NEW t \in Threads,
         \/ t \in Senders /\ Acquire(t, "send", "check")
         \/ t \in Readers /\ Acquire(t, "read", "fetch")
         \/ t = Admin /\ Acquire(t, "enable", "seton")
         \/ t = Admin /\ Acquire(t, "disable", "setoff")
         \/ t = Admin /\ Acquire(t, "flush", "fetch")
  PROVE  IInv'
<1> USE QueueAssumption DEF IInv
<1> DEFINE to == pc'[t]
<1>1. /\ lock = NULL /\ lock' = t
      /\ pc' = [pc EXCEPT ![t] = to]
      /\ to \in {"check", "fetch", "seton", "setoff"}
      /\ UNCHANGED <<queue, memory, buf, history>>
  BY DEF Acquire, Goto, TypeOK
<1>2. /\ t \in Senders => to = "check" /\ pc[t] = "send"
      /\ t \in Readers => to = "fetch" /\ pc[t] = "read"
      /\ t = Admin => \/ to = "seton" /\ pc[t] = "enable"
                      \/ to = "setoff" /\ pc[t] = "disable"
                      \/ to = "fetch" /\ pc[t] = "flush"
  BY DEF Acquire, Goto, TypeOK
<1>3. Phase = "free" /\ Phase' = to
  BY <1>1 DEF Phase, TypeOK
<1> HIDE DEF to
<1>4. TypeOK'
  BY <1>1 DEF TypeOK, Points, Critical, queue, memory, history
<1>5. LockInv'
  BY <1>1, NoHolder DEF LockInv, Critical, TypeOK
<1>6. ControlInv'
  BY <1>1, <1>2 DEF ControlInv, TypeOK, queue, memory, history, Carrying, Threads
<1>7. ListInv'
  BY <1>1, <1>3 DEF ListInv, queue, memory, history
<1>8. OwnershipInv'
  BY <1>1, <1>2 DEF OwnershipInv, InChain, Holds, TypeOK, memory, history, Threads
<1>9. CommitInv'
  BY <1>1, <1>2, <1>3 DEF CommitInv, Room, queue, history, Threads
<1> QED
  BY <1>4, <1>5, <1>6, <1>7, <1>8, <1>9

\* Releasing it publishes chain as the new fifo.
LEMMA ReleaseStep ==
  ASSUME IInv, NEW t \in Threads, Release(t)
  PROVE  IInv'
<1> USE QueueAssumption DEF IInv
<1> DEFINE to == AfterUnlock(t)
<1>1. /\ pc[t] \in {"unlock", "unlockoff"}
      /\ pc' = [pc EXCEPT ![t] = to]
      /\ lock' = NULL /\ fifo' = chain
      /\ UNCHANGED <<queue, memory, buf, chain>>
  BY DEF Release, Goto
<1>2. /\ lock = t /\ Phase = pc[t]
      /\ \A u \in Threads : u # t => pc[u] \notin Critical
  BY <1>1, Holder DEF Critical
<1>3. Phase' = "free"
  BY <1>1 DEF Phase
<1>4. /\ to \in {"flush", "hold", "idle"}
      /\ to = "flush" <=> pc[t] = "unlockoff"
      /\ to = "flush" => t = Admin
      /\ to = "hold" => t \in Readers /\ buf[t] # NULL
      /\ to = "idle" => buf[t] = NULL
  BY <1>1 DEF AfterUnlock, ControlInv, Threads, Carrying
<1> HIDE DEF to
<1>5. TypeOK'
  BY <1>1, <1>4 DEF TypeOK, Points, queue, memory
<1>6. LockInv'
  BY <1>1, <1>2, <1>4 DEF LockInv, Critical, TypeOK
<1>7. ControlInv'
  BY <1>1, <1>2, <1>4 DEF ControlInv, TypeOK, queue, memory, Carrying, Threads
<1>8. ListInv'
  BY <1>1, <1>2, <1>3 DEF ListInv, queue, memory
<1>9. OwnershipInv'
  BY <1>1, <1>4 DEF OwnershipInv, InChain, Holds, TypeOK, memory
<1>10. CommitInv'
  BY <1>1, <1>3 DEF CommitInv
<1> QED
  BY <1>5, <1>6, <1>7, <1>8, <1>9, <1>10

\* The allocator hands out an sk_buff that neither the list nor a thread holds.
LEMMA SendBeginStep ==
  ASSUME IInv, NEW t \in Senders, SendBegin(t)
  PROVE  IInv'
<1> USE QueueAssumption DEF IInv
<1>1. PICK s \in pool, n \in Skb \cup {NULL} :
         /\ buf' = [buf EXCEPT ![t] = s]
         /\ pool' = pool \ {s}
         /\ next' = [next EXCEPT ![s] = n]
  BY DEF SendBegin
<1>2. /\ pc[t] = "idle" /\ pc' = [pc EXCEPT ![t] = "send"]
      /\ UNCHANGED <<queue, lock, history>>
  BY DEF SendBegin, Goto
<1>3. t \in Threads /\ s \in Skb /\ ~InChain(s) /\ \A u \in Threads : buf[u] # s
  BY DEF Threads, OwnershipInv, TypeOK
<1>4. Phase' = Phase
  BY <1>2, <1>3 DEF Phase, LockInv, Critical, TypeOK
<1>5. TypeOK'
  BY <1>1, <1>2, <1>3 DEF TypeOK, Points, queue, history
<1>6. LockInv'
  BY <1>2, <1>3 DEF LockInv, Critical, TypeOK
<1>7. ControlInv'
  BY <1>1, <1>2, <1>3 DEF ControlInv, TypeOK, queue, history, Carrying, Threads
<1>8. ListInv'
  BY <1>1, <1>2, <1>3, <1>4 DEF ListInv, InChain, TypeOK, queue, history
<1>9. OwnershipInv'
  BY <1>1, <1>2, <1>3 DEF OwnershipInv, InChain, Holds, TypeOK, queue, history
<1>10. CommitInv'
  <2>1. lock # NULL => lock # t /\ buf'[lock] = buf[lock]
    BY <1>1, <1>2, <1>3 DEF LockInv, Critical, TypeOK
  <2> QED
    BY <1>2, <1>4, <2>1 DEF CommitInv, Room, queue, history, Phase
<1> QED
  BY <1>5, <1>6, <1>7, <1>8, <1>9, <1>10

\* A refused packet goes back to the allocator; the list is as it was.
LEMMA SendDropStep ==
  ASSUME IInv, NEW t \in Senders, SendDrop(t)
  PROVE  IInv'
<1> USE QueueAssumption DEF IInv
<1>1. /\ pc[t] = "check" /\ pc' = [pc EXCEPT ![t] = "unlock"]
      /\ pool' = pool \cup {buf[t]}
      /\ buf' = [buf EXCEPT ![t] = NULL]
      /\ UNCHANGED <<queue, lock, next, history>>
  BY DEF SendDrop, Goto
<1>2. t \in Threads /\ lock = t /\ Phase = "check" /\ Phase' = "unlock"
  BY <1>1, Holder DEF Threads, Critical, Phase, TypeOK
<1>3. buf[t] \in Skb /\ ~InChain(buf[t])
  BY <1>1, <1>2 DEF ControlInv, Carrying, OwnershipInv, Holds, TypeOK
<1>4. TypeOK'
  BY <1>1, <1>2, <1>3 DEF TypeOK, Points, Critical, queue, history
<1>5. LockInv'
  BY <1>1, <1>2 DEF LockInv, Critical, TypeOK
<1>6. ControlInv'
  BY <1>1, <1>2 DEF ControlInv, TypeOK, queue, history, Carrying, Threads
<1>7. ListInv'
  BY <1>1, <1>2 DEF ListInv, queue, history
<1>8. OwnershipInv'
  BY <1>1, <1>2, <1>3 DEF OwnershipInv, InChain, Holds, TypeOK, queue, history
<1>9. CommitInv'
  BY <1>1, <1>2 DEF CommitInv, queue, history
<1> QED
  BY <1>4, <1>5, <1>6, <1>7, <1>8, <1>9

\* The check of enabled and size still holds when the packet is linked in.
LEMMA SendAcceptStep ==
  ASSUME IInv, NEW t \in Senders, SendAccept(t)
  PROVE  IInv'
<1> USE QueueAssumption DEF IInv
<1>1. /\ pc[t] = "check" /\ pc' = [pc EXCEPT ![t] = "link"]
      /\ enabled /\ size < TxQueueLen
      /\ UNCHANGED <<queue, lock, memory, buf, history>>
  BY DEF SendAccept, Goto
<1>2. t \in Threads /\ lock = t /\ Phase = "check" /\ Phase' = "link"
  BY <1>1, Holder DEF Threads, Critical, Phase, TypeOK
<1>3. size = Len(fifo) /\ chain = fifo
  BY <1>2 DEF ListInv, CommitInv
<1>4. TypeOK'
  BY <1>1 DEF TypeOK, Points, Critical, queue, memory, history
<1>5. LockInv'
  BY <1>1, <1>2 DEF LockInv, Critical, TypeOK
<1>6. ControlInv'
  BY <1>1, <1>2 DEF ControlInv, TypeOK, queue, memory, history, Carrying, Threads
<1>7. ListInv'
  BY <1>1, <1>2 DEF ListInv, queue, memory, history
<1>8. OwnershipInv'
  BY <1>1, <1>2 DEF OwnershipInv, InChain, Holds, TypeOK, memory, history
<1>9. CommitInv'
  BY <1>1, <1>2, <1>3 DEF CommitInv, Room, queue, history
<1> QED
  BY <1>4, <1>5, <1>6, <1>7, <1>8, <1>9

\* The new sk_buff becomes the last of the list.
LEMMA InsertLinkStep ==
  ASSUME IInv, NEW t \in Senders, InsertLink(t)
  PROVE  IInv'
<1> USE QueueAssumption DEF IInv
<1> DEFINE n == Len(chain)  b == buf[t]
<1>1. /\ pc[t] = "link" /\ pc' = [pc EXCEPT ![t] = "tail"]
      /\ chain' = Append(chain, b)
      /\ UNCHANGED <<size, enabled, lock, pool, buf, fifo>>
  BY DEF InsertLink, Goto
<1>2. t \in Threads /\ lock = t /\ Phase = "link" /\ Phase' = "tail"
  BY <1>1, Holder DEF Threads, Critical, Phase, TypeOK
<1>3. b \in Skb /\ \A i \in 1..n : chain[i] # b
  BY <1>1, <1>2 DEF ControlInv, Carrying, OwnershipInv, Holds, InChain, TypeOK
<1>4. /\ chain \in Seq(Skb) /\ n \in Nat /\ chain' \in Seq(Skb) /\ Len(chain') = n + 1
      /\ \A i \in 1..n : chain'[i] = chain[i] /\ chain[i] \in Skb
      /\ chain'[n + 1] = b
  BY <1>1, <1>3, AppendProperties, ElementOfSeq, LenProperties DEF TypeOK
<1>5. head = NULL <=> n = 0
  BY <1>4 DEF ListInv
<1>6. /\ head' = chain'[1]
      /\ tail' = IF n = 0 THEN chain'[1] ELSE chain'[n]
      /\ next' \in [Skb -> Skb \cup {NULL}]
      /\ next'[b] = NULL
      /\ n > 0 => next'[chain[n]] = b
      /\ \A s \in Skb : s # b /\ (n > 0 => s # chain[n]) => next'[s] = next[s]
  <2>1. CASE n = 0
    <3>1. /\ head' = b /\ tail' = b
          /\ next' = [next EXCEPT ![b] = NULL]
      BY <2>1, <1>5 DEF InsertLink
    <3>2. chain'[1] = b
      BY <2>1, <1>4
    <3>3. next \in [Skb -> Skb \cup {NULL}]
      BY DEF TypeOK
    <3> HIDE DEF b, n
    <3> QED
      BY <3>1, <3>2, <3>3, <2>1, <1>3
  <2>2. CASE n > 0
    <3>1. /\ next' = [next EXCEPT ![b] = NULL, ![tail] = b]
          /\ UNCHANGED <<head, tail>>
      BY <2>2, <1>4, <1>5 DEF InsertLink
    <3>2. tail = chain[n] /\ head = chain[1] /\ tail # b /\ tail \in Skb
      BY <2>2, <1>2, <1>3, <1>4 DEF ListInv
    <3>3. chain'[1] = chain[1] /\ chain'[n] = chain[n]
      BY <2>2, <1>4
    <3>4. next \in [Skb -> Skb \cup {NULL}]
      BY DEF TypeOK
    <3> HIDE DEF b, n
    <3>5. /\ next' \in [Skb -> Skb \cup {NULL}]
          /\ next'[b] = NULL /\ next'[tail] = b
          /\ \A s \in Skb : s # b /\ s # tail => next'[s] = next[s]
      BY <3>1, <3>2, <3>4, <1>3
    <3> QED
      BY <3>1, <3>2, <3>3, <3>5, <2>2
  <2> QED
    BY <2>1, <2>2, <1>4
<1>7. size = n
  BY <1>2 DEF ListInv
<1>8. TypeOK'
  <2>1. chain'[1] \in Skb /\ chain'[n + 1] \in Skb /\ (n > 0 => chain'[n] \in Skb)
    BY <1>3, <1>4
  <2> QED
    BY <2>1, <1>1, <1>2, <1>4, <1>6 DEF TypeOK, Points, Critical
<1>9. LockInv'
  BY <1>1, <1>2 DEF LockInv, Critical, TypeOK
<1>10. ControlInv'
  <2>1. \A u \in Threads : pc'[u] = "tail" => u = t
    BY <1>1, <1>2, Holder DEF TypeOK, Critical
  <2>2. chain' # <<>> /\ chain'[Len(chain')] = buf'[t]
    BY <1>1, <1>4, EmptySeq
  <2> QED
    BY <1>1, <1>2, <2>1, <2>2 DEF ControlInv, TypeOK, Carrying, Threads
<1>11. ListInv'
  <2>1. \A i \in 1..n+1 :
           next'[chain'[i]] = IF i = n + 1 THEN NULL ELSE chain'[i + 1]
    <3> TAKE i \in 1..n+1
    <3>1. CASE i = n + 1
      BY <3>1, <1>4, <1>6
    <3>2. CASE i = n
      BY <3>2, <1>4, <1>6
    <3>3. CASE i < n
      <4>1. i \in 1..n /\ i + 1 \in 1..n /\ n \in 1..n /\ chain[i] # chain[n]
        BY <3>3, <1>4 DEF ListInv
      <4>2. next'[chain[i]] = next[chain[i]]
        BY <4>1, <1>3, <1>4, <1>6
      <4> QED
        BY <4>1, <4>2, <3>3, <1>4 DEF ListInv
    <3> QED
      BY <3>1, <3>2, <3>3, <1>4
  <2>2. \A i, j \in 1..n+1 : chain'[i] = chain'[j] => i = j
    <3> TAKE i, j \in 1..n+1
    <3>1. CASE i \in 1..n /\ j \in 1..n
      BY <3>1, <1>4 DEF ListInv
    <3>2. CASE i = n + 1 \/ j = n + 1
      BY <3>2, <1>3, <1>4
    <3> QED
      BY <3>1, <3>2, <1>4
  <2> QED
    BY <2>1, <2>2, <1>1, <1>2, <1>4, <1>6, <1>7 DEF ListInv
<1>12. OwnershipInv'
  <2>1. \A s : InChain(s)' <=> InChain(s) \/ s = b
    BY <1>4 DEF InChain
  <2>2. \A u \in Threads : u # t => buf[u] # b
    BY <1>2, <1>3 DEF OwnershipInv
  <2>3. b \notin pool
    BY <1>2 DEF OwnershipInv
  <2> QED
    BY <2>1, <2>2, <2>3, <1>1, <1>2 DEF OwnershipInv, Holds, TypeOK
<1>13. CommitInv'
  BY <1>1, <1>2 DEF CommitInv, Room
<1> QED
  BY <1>8, <1>9, <1>10, <1>11, <1>12, <1>13

\* tail and size catch up with the list.
LEMMA InsertTailStep ==
  ASSUME IInv, NEW t \in Senders, InsertTail(t)
  PROVE  IInv'
<1> USE QueueAssumption DEF IInv
<1>1. /\ pc[t] = "tail" /\ pc' = [pc EXCEPT ![t] = "unlock"]
      /\ tail' = buf[t] /\ size' = size + 1
      /\ buf' = [buf EXCEPT ![t] = NULL]
      /\ UNCHANGED <<head, enabled, lock, memory, history>>
  BY DEF InsertTail, Goto
<1>2. t \in Threads /\ lock = t /\ Phase = "tail" /\ Phase' = "unlock"
  BY <1>1, Holder DEF Threads, Critical, Phase, TypeOK
<1>3. buf[t] \in Skb /\ chain # <<>> /\ chain[Len(chain)] = buf[t]
  BY <1>1, <1>2 DEF ControlInv, Carrying, TypeOK
<1>4. Len(chain) \in Nat
  BY LenProperties DEF TypeOK
<1>5. TypeOK'
  BY <1>1, <1>2, <1>3 DEF TypeOK, Points, Critical, memory, history
<1>6. LockInv'
  BY <1>1, <1>2 DEF LockInv, Critical, TypeOK
<1>7. ControlInv'
  BY <1>1, <1>2 DEF ControlInv, TypeOK, memory, history, Carrying, Threads
<1>8. ListInv'
  BY <1>1, <1>2, <1>3, <1>4 DEF ListInv, memory, history
<1>9. OwnershipInv'
  BY <1>1, <1>2 DEF OwnershipInv, InChain, Holds, TypeOK, memory, history
<1>10. CommitInv'
  <2>1. Room /\ chain = Append(fifo, buf[t])
    BY <1>2 DEF CommitInv
  <2>2. Room' /\ \E s \in Skb : chain' = Append(fifo', s)
    BY <2>1, <1>1, <1>3 DEF Room, history
  <2> QED
    BY <2>2, <1>2 DEF CommitInv
<1> QED
  BY <1>5, <1>6, <1>7, <1>8, <1>9, <1>10

-----------------------------------------------------------------------------
\* Every kind of thread that runs __queue_remove.
Remover(t) == t \in Readers \/ t = Admin

\* An empty list: the reader or the flush leaves as it came.
LEMMA RemoveNoneStep ==
  ASSUME IInv, NEW t \in Threads, Remover(t), RemoveNone(t)
  PROVE  IInv'
<1> USE QueueAssumption DEF IInv
<1>1. /\ pc[t] = "fetch" /\ head = NULL
      /\ pc' = [pc EXCEPT ![t] = "unlock"]
      /\ UNCHANGED <<queue, lock, memory, buf, history>>
  BY DEF RemoveNone, Goto
<1>2. lock = t /\ Phase = "fetch" /\ Phase' = "unlock"
  BY <1>1, Holder DEF Critical, Phase, TypeOK
<1>3. chain = <<>>
  <2>1. chain \in Seq(Skb)
    BY DEF TypeOK
  <2>2. Len(chain) = 0
    <3> SUFFICES ASSUME Len(chain) # 0 PROVE FALSE
      OBVIOUS
    <3>1. chain[1] \in Skb
      BY <2>1, ElementOfSeq, LenProperties
    <3> QED
      BY <1>1, <3>1 DEF ListInv
  <2> QED
    BY <2>1, <2>2, EmptySeq
<1>4. TypeOK'
  BY <1>1 DEF TypeOK, Points, Critical, queue, memory, history
<1>5. LockInv'
  BY <1>1, <1>2 DEF LockInv, Critical, TypeOK
<1>6. ControlInv'
  BY <1>1, <1>2 DEF ControlInv, TypeOK, queue, memory, history, Carrying, Threads, Remover
<1>7. ListInv'
  BY <1>1, <1>2 DEF ListInv, queue, memory, history
<1>8. OwnershipInv'
  BY <1>1, <1>2 DEF OwnershipInv, InChain, Holds, TypeOK, memory, history
<1>9. CommitInv'
  <2>1. chain = fifo \/ ~enabled
    BY <1>1, <1>2 DEF CommitInv, ControlInv, Remover
  <2> QED
    BY <1>1, <1>2, <1>3, <2>1 DEF CommitInv, queue, history
<1> QED
  BY <1>4, <1>5, <1>6, <1>7, <1>8, <1>9

\* The head leaves the list and its remover becomes its only owner.
LEMMA RemoveHeadStep ==
  ASSUME IInv, NEW t \in Threads, Remover(t), RemoveHead(t)
  PROVE  IInv'
<1> USE QueueAssumption DEF IInv
<1> DEFINE n == Len(chain)
<1>1. /\ pc[t] = "fetch" /\ head # NULL
      /\ pc' = [pc EXCEPT ![t] = "detach"]
      /\ buf' = [buf EXCEPT ![t] = head]
      /\ head' = next[head] /\ chain' = Tail(chain)
      /\ UNCHANGED <<tail, size, enabled, lock, memory, fifo>>
  BY DEF RemoveHead, Goto
<1>2. lock = t /\ Phase = "fetch" /\ Phase' = "detach"
  BY <1>1, Holder DEF Critical, Phase, TypeOK
<1>3. n # 0
  BY <1>1 DEF ListInv
<1>4. /\ chain \in Seq(Skb) /\ n \in Nat /\ n > 0 /\ chain # <<>>
      /\ \A i \in 1..n : chain[i] \in Skb
  BY <1>3, ElementOfSeq, LenProperties, EmptySeq DEF TypeOK
<1>5. /\ chain' \in Seq(Skb) /\ Len(chain') = n - 1
      /\ \A i \in 1..n-1 : chain'[i] = chain[i + 1]
  BY <1>1, <1>4, HeadTailProperties
<1>6. /\ head = chain[1] /\ head \in Skb
      /\ head' = next[chain[1]]
      /\ size = n /\ tail = chain[n]
  BY <1>1, <1>2, <1>4 DEF ListInv
<1>7. \A s : InChain(s)' => InChain(s) /\ s # head
  <2> SUFFICES ASSUME NEW i \in 1..n-1 PROVE \E j \in 1..n : chain[j] = chain'[i] /\ j # 1
    BY <1>4, <1>5, <1>6 DEF InChain, ListInv
  <2> QED
    BY <1>4, <1>5
<1>8. TypeOK'
  BY <1>1, <1>2, <1>5, <1>6 DEF TypeOK, Points, Critical, memory
<1>9. LockInv'
  BY <1>1, <1>2 DEF LockInv, Critical, TypeOK
<1>10. ControlInv'
  <2>1. \A u \in Threads : pc'[u] # "tail"
    BY <1>1, <1>2, Holder DEF TypeOK, Critical
  <2> QED
    BY <1>1, <1>2, <1>6, <2>1 DEF ControlInv, TypeOK, memory, Carrying, Threads, Remover
<1>11. ListInv'
  <2>1. head' = IF n - 1 = 0 THEN NULL ELSE chain'[1]
    BY <1>4, <1>5, <1>6 DEF ListInv
  <2>2. \A i \in 1..n-1 :
           next'[chain'[i]] = IF i = n - 1 THEN NULL ELSE chain'[i + 1]
    <3> TAKE i \in 1..n-1
    <3>1. i + 1 \in 1..n /\ (i # n - 1 => i + 1 \in 1..n-1)
      BY <1>4
    <3>2. chain'[i] = chain[i + 1] /\ (i # n - 1 => chain'[i + 1] = chain[(i + 1) + 1])
      BY <3>1, <1>5
    <3>3. next' = next
      BY <1>1 DEF memory
    <3>4. next[chain[i + 1]] = IF i + 1 = n THEN NULL ELSE chain[(i + 1) + 1]
      BY <3>1 DEF ListInv
    <3> QED
      BY <3>2, <3>3, <3>4, <1>4
  <2>3. \A i, j \in 1..n-1 : chain'[i] = chain'[j] => i = j
    <3> TAKE i, j \in 1..n-1
    <3>1. i + 1 \in 1..n /\ j + 1 \in 1..n
      BY <1>4
    <3>2. chain[i + 1] = chain[j + 1] => i + 1 = j + 1
      BY <3>1 DEF ListInv
    <3> QED
      BY <3>2, <1>4, <1>5
  <2>4. n - 1 > 0 => tail' = chain'[n - 1]
    BY <1>1, <1>4, <1>5, <1>6
  <2> QED
    BY <2>1, <2>2, <2>3, <2>4, <1>1, <1>2, <1>4, <1>5, <1>6 DEF ListInv
<1>12. OwnershipInv'
  <2>1. InChain(head)
    BY <1>4, <1>6 DEF InChain
  <2>2. head \notin pool /\ \A u \in Threads : buf[u] # head
    <3>1. \A u \in Threads : pc[u] # "tail"
      BY <1>1, <1>2, Holder DEF Critical
    <3> QED
      BY <2>1, <3>1, <1>6 DEF OwnershipInv, Holds
  <2>3. pool' = pool
    BY <1>1 DEF memory
  <2> QED
    BY <2>2, <2>3, <1>1, <1>7 DEF OwnershipInv, Holds, TypeOK
<1>13. CommitInv'
  <2>1. lock \in Readers => chain = fifo
    BY <1>2 DEF CommitInv
  <2> QED
    BY <2>1, <1>1, <1>2, <1>4 DEF CommitInv
<1> QED
  BY <1>8, <1>9, <1>10, <1>11, <1>12, <1>13

\* The removed sk_buff is cut off and size catches up; the flush frees it.
LEMMA RemoveDetachStep ==
  ASSUME IInv, NEW t \in Threads, Remover(t), RemoveDetach(t)
  PROVE  IInv'
<1> USE QueueAssumption DEF IInv
<1> DEFINE b == buf[t]  to == IF t = Admin THEN "fetch" ELSE "unlock"
<1>1. /\ pc[t] = "detach"
      /\ pc' = [pc EXCEPT ![t] = to]
      /\ next' = [next EXCEPT ![b] = NULL]
      /\ size' = size - 1
      /\ t = Admin => pool' = pool \cup {b} /\ buf' = [buf EXCEPT ![t] = NULL]
      /\ t # Admin => UNCHANGED <<pool, buf>>
      /\ UNCHANGED <<head, tail, enabled, lock, history>>
  BY DEF RemoveDetach, Goto
<1>2. lock = t /\ Phase = "detach" /\ Phase' = to
  BY <1>1, Holder DEF Critical, Phase, TypeOK
<1>3. b \in Skb /\ ~InChain(b)
  BY <1>1 DEF ControlInv, Carrying, OwnershipInv, Holds, TypeOK
<1>4. /\ to \in {"fetch", "unlock"}
      /\ to = "fetch" <=> t = Admin
      /\ to = "unlock" <=> t \in Readers
  BY DEF Remover
<1>5. chain \in Seq(Skb) /\ Len(chain) \in Nat /\ size = Len(chain) + 1
  BY <1>2, LenProperties DEF TypeOK, ListInv
<1> HIDE DEF to
<1>6. TypeOK'
  BY <1>1, <1>3, <1>4, <1>5 DEF TypeOK, Points, Critical, history
<1>7. LockInv'
  BY <1>1, <1>2, <1>4 DEF LockInv, Critical, TypeOK
<1>8. ControlInv'
  <2>1. /\ \A u \in Threads \ {t} : pc'[u] = pc[u] /\ buf'[u] = buf[u]
        /\ pc'[t] = to
        /\ t = Admin => buf'[t] = NULL
        /\ t # Admin => buf'[t] = b
    BY <1>1 DEF TypeOK
  <2> QED
    BY <2>1, <1>1, <1>4 DEF ControlInv, history, Carrying, Threads
<1>9. ListInv'
  <2>1. \A i \in 1..Len(chain) : next'[chain[i]] = next[chain[i]]
    BY <1>1, <1>3 DEF InChain, TypeOK
  <2> QED
    BY <2>1, <1>1, <1>2, <1>4, <1>5 DEF ListInv, history
<1>10. OwnershipInv'
  <2>1. \A u \in Threads : u # t => buf[u] # b
    BY <1>3 DEF OwnershipInv
  <2>2. CASE t = Admin
    <3>1. /\ pool' = pool \cup {b} /\ chain' = chain
          /\ buf'[t] = NULL /\ \A u \in Threads : u # t => buf'[u] = buf[u]
          /\ \A u \in Threads : u # t => pc'[u] = pc[u]
      BY <2>2, <1>1 DEF TypeOK, history
    <3>2. \A s : InChain(s)' <=> InChain(s)
      BY <3>1 DEF InChain
    <3> HIDE DEF b
    <3>3. \A s \in pool' : ~InChain(s)' /\ \A u \in Threads : buf'[u] # s
      <4> TAKE s \in pool'
      <4>1. CASE s = b
        BY <4>1, <2>1, <3>1, <3>2, <1>3
      <4>2. CASE s \in pool
        BY <4>2, <3>1, <3>2, <1>3 DEF OwnershipInv, TypeOK
      <4> QED
        BY <4>1, <4>2, <3>1
    <3>4. \A u \in Threads : Holds(u)' => ~InChain(buf[u])'
      BY <3>1 DEF OwnershipInv, Holds, InChain
    <3>5. \A u, v \in Threads : buf'[u] # NULL /\ buf'[u] = buf'[v] => u = v
      BY <3>1 DEF OwnershipInv
    <3> QED
      BY <3>3, <3>4, <3>5 DEF OwnershipInv
  <2>3. CASE t # Admin
    BY <2>3, <1>1, <1>3, <1>4 DEF OwnershipInv, InChain, Holds, TypeOK, history
  <2> QED
    BY <2>2, <2>3
<1>11. CommitInv'
  <2>1. t \in Readers => fifo # <<>> /\ chain = Tail(fifo)
    BY <1>2 DEF CommitInv
  <2> QED
    BY <2>1, <1>1, <1>2, <1>4 DEF CommitInv, Remover, history
<1> QED
  BY <1>6, <1>7, <1>8, <1>9, <1>10, <1>11

\* Steps outside the critical sections.
LEMMA BeginStep ==
  ASSUME IInv, NEW t \in Threads,
         \/ t \in Readers /\ ReadBegin(t)
         \/ t = Admin /\ AdminBegin
  PROVE  IInv'
<1> USE QueueAssumption DEF IInv
<1> DEFINE to == pc'[t]
<1>1. /\ pc[t] = "idle" /\ pc' = [pc EXCEPT ![t] = to]
      /\ t \in Readers => to = "read"
      /\ t = Admin => to \in {"enable", "disable"}
      /\ UNCHANGED <<queue, lock, memory, buf, history>>
  BY DEF ReadBegin, AdminBegin, Goto, TypeOK
<1> HIDE DEF to
<1>2. to \in {"read", "enable", "disable"} /\ Phase' = Phase
  BY <1>1 DEF Phase, LockInv, Critical, TypeOK
<1>3. TypeOK'
  BY <1>1, <1>2 DEF TypeOK, Points, queue, memory, history
<1>4. LockInv'
  BY <1>1, <1>2 DEF LockInv, Critical, TypeOK
<1>5. ControlInv'
  BY <1>1, <1>2 DEF ControlInv, TypeOK, queue, memory, history, Carrying, Threads
<1>6. ListInv'
  BY <1>1, <1>2 DEF ListInv, queue, memory, history
<1>7. OwnershipInv'
  BY <1>1, <1>2 DEF OwnershipInv, InChain, Holds, TypeOK, memory, history
<1>8. CommitInv'
  BY <1>1, <1>2 DEF CommitInv, Room, queue, history
<1> QED
  BY <1>3, <1>4, <1>5, <1>6, <1>7, <1>8

\* The reader frees the sk_buff it delivered; nobody else knew of it.
LEMMA ReadFreeStep ==
  ASSUME IInv, NEW t \in Readers, ReadFree(t)
  PROVE  IInv'
<1> USE QueueAssumption DEF IInv
<1>1. /\ pc[t] = "hold" /\ pc' = [pc EXCEPT ![t] = "idle"]
      /\ pool' = pool \cup {buf[t]}
      /\ buf' = [buf EXCEPT ![t] = NULL]
      /\ UNCHANGED <<queue, lock, next, history>>
  BY DEF ReadFree, Goto
<1>2. t \in Threads /\ buf[t] \in Skb /\ ~InChain(buf[t])
  BY <1>1 DEF Threads, ControlInv, Carrying, OwnershipInv, Holds, TypeOK
<1>3. Phase' = Phase
  BY <1>1, <1>2 DEF Phase, LockInv, Critical, TypeOK
<1>4. TypeOK'
  BY <1>1, <1>2 DEF TypeOK, Points, queue, history
<1>5. LockInv'
  BY <1>1, <1>2 DEF LockInv, Critical, TypeOK
<1>6. ControlInv'
  BY <1>1, <1>2 DEF ControlInv, TypeOK, queue, history, Carrying, Threads
<1>7. ListInv'
  BY <1>1, <1>3 DEF ListInv, queue, history
<1>8. OwnershipInv'
  BY <1>1, <1>2 DEF OwnershipInv, InChain, Holds, TypeOK, history
<1>9. CommitInv'
  <2>1. lock # NULL => lock # t /\ buf'[lock] = buf[lock]
    BY <1>1, <1>2 DEF LockInv, Critical, TypeOK
  <2> QED
    BY <1>1, <1>3, <2>1 DEF CommitInv, Room, queue, history, Phase
<1> QED
  BY <1>4, <1>5, <1>6, <1>7, <1>8, <1>9

\* queue_enable touches the gate and nothing else.
LEMMA SetEnabledStep ==
  ASSUME IInv, SetEnabled
  PROVE  IInv'
<1> USE QueueAssumption DEF IInv
<1> DEFINE to == pc'[Admin]
<1>1. /\ pc[Admin] \in {"seton", "setoff"} /\ pc' = [pc EXCEPT ![Admin] = to]
      /\ to = IF pc[Admin] = "seton" THEN "unlock" ELSE "unlockoff"
      /\ enabled' = (pc[Admin] = "seton")
      /\ UNCHANGED <<head, tail, size, lock, memory, buf, history>>
  BY DEF SetEnabled, Goto, TypeOK, Threads
<1>2. /\ Admin \in Threads /\ lock = Admin
      /\ Phase = pc[Admin] /\ Phase' = to
  BY <1>1, Holder DEF Threads, Critical, Phase, TypeOK
<1> HIDE DEF to
<1>3. TypeOK'
  BY <1>1, <1>2 DEF TypeOK, Points, Critical, memory, history
<1>4. LockInv'
  BY <1>1, <1>2 DEF LockInv, Critical, TypeOK
<1>5. ControlInv'
  BY <1>1, <1>2 DEF ControlInv, TypeOK, memory, history, Carrying, Threads
<1>6. ListInv'
  BY <1>1, <1>2 DEF ListInv, memory, history
<1>7. OwnershipInv'
  BY <1>1, <1>2 DEF OwnershipInv, InChain, Holds, TypeOK, memory, history
<1>8. CommitInv'
  BY <1>1, <1>2 DEF CommitInv, history
<1> QED
  BY <1>3, <1>4, <1>5, <1>6, <1>7, <1>8

\* A stuttering step changes no part of the invariant.
LEMMA StutterStep == IInv /\ UNCHANGED vars => IInv'
BY DEF vars, queue, memory, local, history, IInv, TypeOK, LockInv, ControlInv,
       ListInv, OwnershipInv, CommitInv, Phase, Room, InChain, Holds

\* The invariant is inductive.
LEMMA NextIInv == IInv /\ [Next]_vars => IInv'
<1> SUFFICES ASSUME IInv, [Next]_vars PROVE IInv'
  OBVIOUS
<1> USE DEF Threads
<1>1. CASE \E t \in Senders : Send(t)
  BY <1>1, AcquireStep, SendBeginStep, SendDropStep, SendAcceptStep,
     InsertLinkStep, InsertTailStep DEF Send
<1>2. CASE \E t \in Readers : Read(t)
  BY <1>2, AcquireStep, BeginStep, ReadFreeStep, RemoveNoneStep,
     RemoveHeadStep, RemoveDetachStep DEF Read, Remove, Remover
<1>3. CASE Administer
  BY <1>3, AcquireStep, BeginStep, SetEnabledStep, RemoveNoneStep,
     RemoveHeadStep, RemoveDetachStep DEF Administer, Remove, Remover
<1>4. CASE \E t \in Threads : Release(t)
  BY <1>4, ReleaseStep
<1>5. CASE UNCHANGED vars
  BY <1>5, StutterStep
<1> QED
  BY <1>1, <1>2, <1>3, <1>4, <1>5 DEF Next

\* Every reachable state of the queue satisfies the inductive invariant.
THEOREM InductiveInvariant == Spec => []IInv
<1>1. Init => IInv
  BY InitIInv
<1>2. IInv /\ [Next]_vars => IInv'
  BY NextIInv
<1> QED
  BY <1>1, <1>2, PTL DEF Spec
-----------------------------------------------------------------------------
\* Every variable of struct queue keeps its type.
THEOREM TypeCorrect == Spec => []TypeOK
BY InductiveInvariant, PTL DEF IInv

\* The critical sections of queue.c and net_dev.c exclude one another.
THEOREM MutualExclusion == Spec => []LockInv
BY InductiveInvariant, PTL DEF IInv

\* head, tail, size and the next pointers always describe one list.
THEOREM ListCorrect == Spec => []ListInv
BY InductiveInvariant, PTL DEF IInv

\* No sk_buff is freed twice, delivered twice or used after it was given away.
THEOREM SingleOwner == Spec => []OwnershipInv
BY InductiveInvariant, PTL DEF IInv

\* __queue_insert never follows the tail that __queue_remove left behind.
THEOREM TailNeverStale == Spec => []TailIsLive
<1>1. IInv => TailIsLive
  <2> SUFFICES ASSUME IInv, NEW t \in Threads, pc[t] = "link", head # NULL
               PROVE  InChain(tail)
    BY DEF TailIsLive
  <2>1. Phase = "link"
    BY Holder DEF IInv, Critical
  <2>2. Len(chain) \in Nat /\ Len(chain) # 0
    BY LenProperties DEF IInv, TypeOK, ListInv
  <2> QED
    BY <2>1, <2>2 DEF IInv, ListInv, InChain
<1> QED
  BY <1>1, InductiveInvariant, PTL

\* The linked list under its lock implements the bounded, gated FIFO.
THEOREM Refinement == Spec => ImplementsFifo
<1>1. Init => Promise!Init
  BY DEF Init, Promise!Init
<1>2. IInv /\ [Next]_vars => [Promise!Next]_(Promise!fifoVars)
  <2> SUFFICES ASSUME IInv, [Next]_vars, ~UNCHANGED <<fifo, enabled>>
               PROVE  Promise!Next
    BY DEF Promise!fifoVars
  <2>1. CASE SetEnabled
    <3>1. enabled' \in BOOLEAN /\ UNCHANGED fifo
      BY <2>1 DEF SetEnabled, history
    <3> QED
      BY <3>1 DEF Promise!Next, Promise!Gate
  <2>2. CASE \E t \in Threads : Release(t)
    <3>1. PICK t \in Threads : Release(t)
      BY <2>2
    <3>2. fifo' = chain /\ UNCHANGED enabled /\ Phase = pc[t]
          /\ pc[t] \in {"unlock", "unlockoff"}
      BY <3>1, Holder DEF Release, queue, IInv, Critical
    <3>3. \/ fifo # <<>> /\ chain = Tail(fifo)
          \/ ~enabled /\ chain = <<>>
          \/ Room /\ \E s \in Skb : chain = Append(fifo, s)
      BY <3>2 DEF IInv, CommitInv
    <3> QED
      BY <3>2, <3>3 DEF Promise!Next, Promise!Take, Promise!Discard, Promise!Offer, Room
  <2>3. CASE ~SetEnabled /\ ~\E t \in Threads : Release(t)
    BY <2>3 DEF Next, Send, Read, Administer, Acquire, SendBegin, SendDrop, SendAccept,
                InsertLink, InsertTail, ReadBegin, ReadFree, Remove, RemoveNone,
                RemoveHead, RemoveDetach, AdminBegin, vars, queue, history
  <2> QED
    BY <2>1, <2>2, <2>3
<1> QED
  BY <1>1, <1>2, InductiveInvariant, PTL DEF Spec, ImplementsFifo, Promise!Spec
=============================================================================
