------------------------- MODULE KvnetTxCountProofs -------------------------
(***************************************************************************)
(* The statistics of the transmit path, for any number of senders and      *)
(* readers and any queue length.  Their unlocked updates race: a load and  *)
(* a store of tx_packets in each reader, of tx_dropped in a sender and in  *)
(* net_dev_close.  No interleaving counts a packet twice, and with one     *)
(* reader and a stack that keeps its promise none is lost from the count.  *)
(***************************************************************************)
EXTENDS KvnetTxProofs, FiniteSetTheorems

(***************************************************************************)
(* The strengthening.  A counter will be overwritten by whatever was       *)
(* loaded from it: the packets that are still somewhere, added to any      *)
(* value a counter has or that someone will store back, are at most those  *)
(* that were sent.                                                         *)
(***************************************************************************)
Dropping == {s \in Senders : spc[s] = "drop"}
Taking == {r \in Readers : rpc[r] \in {"fill", "store"}}
Flushing == IF apc \in {"load", "store"} THEN flushed ELSE 0

\* Packets that no counter has yet.
Held == Len(fifo) + faulted + BeingCounted

\* Values from which tx_dropped and tx_packets may go on.
DroppedSeen ==
    {tx_dropped} \cup {sload[s] : s \in Dropping}
                 \cup {a \in {aload} : apc = "store"}

PacketsSeen == {tx_packets} \cup {rload[r] : r \in {q \in Readers : rpc[q] = "store"}}

TallyInv ==
    /\ IsFiniteSet(Dropping) /\ IsFiniteSet(Taking)
    /\ \A d \in DroppedSeen : \A p \in PacketsSeen : d + p + Held <= sent

\* What the stack promises: one net_dev_send at a time, on an interface that is up.
Serial ==
    KernelSerializes =>
        \A s \in Senders : spc[s] # "out" =>
            apc = "up" /\ \A t \in Senders \ {s} : spc[t] = "out"

\* Then what a lone reader, the sender and net_dev_close loaded is still so.
Exact ==
    KernelSerializes /\ (\E r \in Readers : Readers = {r}) =>
        /\ \A s \in Senders : spc[s] = "drop" => sload[s] = tx_dropped
        /\ \A r \in Readers : rpc[r] = "store" => rload[r] = tx_packets
        /\ apc = "store" => aload = tx_dropped
        /\ tx_packets + tx_dropped + Held = sent

StatsInv == TypeOK /\ Serial /\ TallyInv /\ Exact

\* One member more, one member less.
LEMMA OneMore ==
  ASSUME NEW A, IsFiniteSet(A), NEW x, x \notin A
  PROVE  IsFiniteSet(A \cup {x}) /\ Cardinality(A \cup {x}) = Cardinality(A) + 1
BY FS_AddElement

LEMMA OneLess ==
  ASSUME NEW A, IsFiniteSet(A), NEW x \in A
  PROVE  IsFiniteSet(A \ {x}) /\ Cardinality(A \ {x}) = Cardinality(A) - 1
BY FS_RemoveElement

\* A sender at another position; the drops that are being counted change only
\* when it begins or ends one.
LEMMA Droppers ==
  ASSUME TypeOK, IsFiniteSet(Dropping), NEW s \in Senders, NEW l, SGoto(s, l)
  PROVE  /\ IsFiniteSet(Dropping')
         /\ spc[s] # "drop" /\ l # "drop" =>
                Dropping' = Dropping /\ Cardinality(Dropping') = Cardinality(Dropping)
         /\ spc[s] # "drop" /\ l = "drop" =>
                Dropping' = Dropping \cup {s}
                /\ Cardinality(Dropping') = Cardinality(Dropping) + 1
         /\ spc[s] = "drop" /\ l # "drop" =>
                Dropping' = Dropping \ {s}
                /\ Cardinality(Dropping') = Cardinality(Dropping) - 1
<1>1. /\ Dropping' = IF l = "drop" THEN Dropping \cup {s} ELSE Dropping \ {s}
      /\ s \in Dropping <=> spc[s] = "drop"
  BY DEF SGoto, TypeOK, Dropping
<1>2. CASE l = "drop" /\ s \in Dropping
  <2>1. Dropping' = Dropping
    BY <1>1, <1>2
  <2> QED
    BY <2>1, <1>1, <1>2
<1>3. CASE l = "drop" /\ s \notin Dropping
  BY <1>1, <1>3, OneMore
<1>4. CASE l # "drop" /\ s \in Dropping
  BY <1>1, <1>4, OneLess
<1>5. CASE l # "drop" /\ s \notin Dropping
  <2>1. Dropping' = Dropping
    BY <1>1, <1>5
  <2> QED
    BY <2>1, <1>1, <1>5
<1> QED
  BY <1>2, <1>3, <1>4, <1>5

\* The same for a reader that takes a packet or has counted or lost it.
LEMMA Takers ==
  ASSUME TypeOK, IsFiniteSet(Taking), NEW r \in Readers, NEW l, RGoto(r, l)
  PROVE  /\ IsFiniteSet(Taking')
         /\ (rpc[r] \in {"fill", "store"} <=> l \in {"fill", "store"}) =>
                Taking' = Taking /\ Cardinality(Taking') = Cardinality(Taking)
         /\ rpc[r] \notin {"fill", "store"} /\ l \in {"fill", "store"} =>
                Cardinality(Taking') = Cardinality(Taking) + 1
         /\ rpc[r] \in {"fill", "store"} /\ l \notin {"fill", "store"} =>
                Cardinality(Taking') = Cardinality(Taking) - 1
<1>1. /\ Taking' = IF l \in {"fill", "store"} THEN Taking \cup {r} ELSE Taking \ {r}
      /\ r \in Taking <=> rpc[r] \in {"fill", "store"}
  BY DEF RGoto, TypeOK, Taking
<1>2. CASE l \in {"fill", "store"} /\ r \in Taking
  <2>1. Taking' = Taking
    BY <1>1, <1>2
  <2> QED
    BY <2>1, <1>1, <1>2
<1>3. CASE l \in {"fill", "store"} /\ r \notin Taking
  BY <1>1, <1>3, OneMore
<1>4. CASE l \notin {"fill", "store"} /\ r \in Taking
  BY <1>1, <1>4, OneLess
<1>5. CASE l \notin {"fill", "store"} /\ r \notin Taking
  <2>1. Taking' = Taking
    BY <1>1, <1>5
  <2> QED
    BY <2>1, <1>1, <1>5
<1> QED
  BY <1>2, <1>3, <1>4, <1>5

\* What Held is the sum of.
LEMMA HeldSum ==
  ASSUME TypeOK, IsFiniteSet(Dropping), IsFiniteSet(Taking)
  PROVE  /\ Held = Len(fifo) + faulted + Cardinality(Dropping) + Flushing
                   + Cardinality(Taking)
         /\ Len(fifo) \in Nat /\ faulted \in Nat /\ Flushing \in Nat /\ Held \in Nat
         /\ Cardinality(Dropping) \in Nat /\ Cardinality(Taking) \in Nat
<1>1. Cardinality(Dropping) \in Nat /\ Cardinality(Taking) \in Nat
  BY FS_CardinalityType
<1>2. Len(fifo) \in Nat
  BY LenProperties DEF TypeOK
<1>3. Flushing \in Nat /\ faulted \in Nat
  BY DEF Flushing, TypeOK
<1>4. BeingCounted = Cardinality(Dropping) + Flushing + Cardinality(Taking)
  BY DEF BeingCounted, Dropping, Taking, Flushing
<1> QED
  BY <1>1, <1>2, <1>3, <1>4 DEF Held

\* The same after a step.
LEMMA HeldSumNext ==
  ASSUME TypeOK', IsFiniteSet(Dropping'), IsFiniteSet(Taking')
  PROVE  /\ Held' = Len(fifo') + faulted' + Cardinality(Dropping') + Flushing'
                    + Cardinality(Taking')
         /\ Held' \in Nat
<1>1. Cardinality(Dropping') \in Nat /\ Cardinality(Taking') \in Nat
  BY FS_CardinalityType
<1>2. Len(fifo') \in Nat
  BY LenProperties DEF TypeOK
<1>3. Flushing' \in Nat /\ faulted' \in Nat
  BY DEF Flushing, TypeOK
<1>4. BeingCounted' = Cardinality(Dropping') + Flushing' + Cardinality(Taking')
  BY DEF BeingCounted, Dropping, Taking, Flushing
<1>5. Held' = Len(fifo') + faulted' + BeingCounted'
  BY DEF Held
<1> QED
  BY <1>1, <1>2, <1>3, <1>4, <1>5

\* Every value that may be stored back is a number.
LEMMA SeenFacts ==
  ASSUME TypeOK
  PROVE  DroppedSeen \subseteq Nat /\ PacketsSeen \subseteq Nat
         /\ tx_dropped \in DroppedSeen /\ tx_packets \in PacketsSeen
BY DEF TypeOK, DroppedSeen, PacketsSeen, Dropping

\* The stack keeps its promise.
LEMMA SerialStep ==
  ASSUME TypeOK, Serial, [Next]_vars
  PROVE  Serial'
<1> USE TxAssumption DEF queue, wait_queue, stats, device, sender, admin, reader,
                         cancel, history, locals, others
<1>1. ASSUME NEW s \in Senders, SendDrop(s) PROVE Serial'
  BY <1>1 DEF SendDrop, SendBegin, SGoto, MayTransmit, Serial, TypeOK
<1>2. ASSUME NEW s \in Senders, SendCountDrop(s) PROVE Serial'
  BY <1>2 DEF SendCountDrop, SGoto, MayTransmit, Serial, TypeOK
<1>3. ASSUME NEW s \in Senders, SendQueue(s) PROVE Serial'
  BY <1>3 DEF SendQueue, SendBegin, SGoto, MayTransmit, Serial, TypeOK
<1>4. ASSUME NEW s \in Senders, SendWake(s) PROVE Serial'
  BY <1>4 DEF SendWake, Wakeup, SGoto, MayTransmit, Serial, TypeOK
<1>5. ASSUME OpenEnable PROVE Serial'
  BY <1>5 DEF OpenEnable, Serial
<1>6. ASSUME OpenStart PROVE Serial'
  BY <1>6 DEF OpenStart, Serial
<1>7. ASSUME CloseDisable PROVE Serial'
  BY <1>7 DEF CloseDisable, Serial
<1>8. ASSUME CloseFlush PROVE Serial'
  BY <1>8 DEF CloseFlush, Serial
<1>9. ASSUME CloseLoad PROVE Serial'
  BY <1>9 DEF CloseLoad, Serial
<1>10. ASSUME CloseStore PROVE Serial'
  BY <1>10 DEF CloseStore, Serial
<1>11. ASSUME CloseStop PROVE Serial'
  BY <1>11 DEF CloseStop, Serial
<1>12. ASSUME NEW r \in Readers, ReadBegin(r) PROVE Serial'
  BY <1>12 DEF ReadBegin, Serial
<1>13. ASSUME NEW r \in Readers, PollCanceled(r) PROVE Serial'
  BY <1>13 DEF PollCanceled, PollReturn, Serial
<1>14. ASSUME NEW r \in Readers, PollNotCanceled(r) PROVE Serial'
  BY <1>14 DEF PollNotCanceled, Serial
<1>15. ASSUME NEW r \in Readers, PollRegister(r) PROVE Serial'
  BY <1>15 DEF PollRegister, Serial
<1>16. ASSUME NEW r \in Readers, PollReadable(r) PROVE Serial'
  BY <1>16 DEF PollReadable, PollReturn, Serial
<1>17. ASSUME NEW r \in Readers, PollEmpty(r) PROVE Serial'
  BY <1>17 DEF PollEmpty, Serial
<1>18. ASSUME NEW r \in Readers, PollWoken(r) PROVE Serial'
  BY <1>18 DEF PollWoken, Serial
<1>19. ASSUME NEW r \in Readers, PollInterrupted(r) PROVE Serial'
  BY <1>19 DEF PollInterrupted, PollReturn, Serial
<1>20. ASSUME NEW r \in Readers, ReadAccept(r) PROVE Serial'
  BY <1>20 DEF ReadAccept, Serial
<1>21. ASSUME NEW r \in Readers, ReadRefuse(r) PROVE Serial'
  BY <1>21 DEF ReadRefuse, ReadReturn, Serial
<1>22. ASSUME NEW r \in Readers, TakePacket(r) PROVE Serial'
  BY <1>22 DEF TakePacket, Serial
<1>23. ASSUME NEW r \in Readers, TakeNone(r) PROVE Serial'
  BY <1>23 DEF TakeNone, Serial
<1>24. ASSUME NEW r \in Readers, FillFault(r) PROVE Serial'
  BY <1>24 DEF FillFault, Serial
<1>25. ASSUME NEW r \in Readers, FillLoad(r) PROVE Serial'
  BY <1>25 DEF FillLoad, Serial
<1>26. ASSUME NEW r \in Readers, FillStore(r) PROVE Serial'
  BY <1>26 DEF FillStore, Serial
<1>27. ASSUME NEW r \in Readers, FillLength(r) PROVE Serial'
  BY <1>27 DEF FillLength, Serial
<1>28. ASSUME NEW r \in Readers, ReadFinish(r) PROVE Serial'
  BY <1>28 DEF ReadFinish, ReadReturn, Serial
<1>29. ASSUME CancelMark PROVE Serial'
  BY <1>29 DEF CancelMark, Serial
<1>30. ASSUME CancelWake PROVE Serial'
  BY <1>30 DEF CancelWake, Wakeup, Serial
<1>31. ASSUME NEW r \in Readers, PollFails(r) \/ ReadAgain(r) PROVE Serial'
  BY <1>31 DEF PollFails, ReadAgain, Serial
<1>32. CASE UNCHANGED vars
  BY <1>32 DEF vars, Serial
<1> QED
  BY <1>1, <1>2, <1>3, <1>4, <1>5, <1>6, <1>7, <1>8, <1>9, <1>10, <1>11,
     <1>12, <1>13, <1>14, <1>15, <1>16, <1>17, <1>18, <1>19, <1>20, <1>21, <1>22,
     <1>23, <1>24, <1>25, <1>26, <1>27, <1>28, <1>29, <1>30, <1>31, <1>32
     DEF Next, Send, Close, Poll, Read

-----------------------------------------------------------------------------
\* A step that moves no packet and touches no counter keeps both.
LEMMA TallyKept ==
  ASSUME TallyInv, Exact,
         UNCHANGED <<fifo, faulted, sent, stats, sload, rload, aload, flushed>>,
         Dropping' = Dropping, Taking' = Taking,
         \A s \in Senders : spc'[s] = "drop" <=> spc[s] = "drop",
         \A r \in Readers : rpc'[r] = "store" <=> rpc[r] = "store",
         apc' = "load" <=> apc = "load", apc' = "store" <=> apc = "store"
  PROVE  TallyInv' /\ Exact'
<1> USE DEF stats
<1>1. Held' = Held
  <2>1. Flushing' = Flushing
    BY DEF Flushing
  <2>2. BeingCounted' = BeingCounted
    BY <2>1 DEF BeingCounted, Dropping, Taking, Flushing
  <2> QED
    BY <2>2 DEF Held
<1>2. DroppedSeen' = DroppedSeen /\ PacketsSeen' = PacketsSeen
  BY DEF DroppedSeen, PacketsSeen
<1> QED
  BY <1>1, <1>2 DEF TallyInv, Exact

\* A packet that was sent is held until a counter has it.
LEMMA TallySent ==
  ASSUME TypeOK, TypeOK', TallyInv, IsFiniteSet(Dropping'), IsFiniteSet(Taking'),
         Held' = Held + 1, sent' = sent + 1,
         DroppedSeen' \subseteq DroppedSeen, PacketsSeen' \subseteq PacketsSeen
  PROVE  TallyInv'
<1>1. Held \in Nat /\ Held' \in Nat
  BY HeldSum, HeldSumNext DEF TallyInv
<1>2. sent \in Nat
  BY TxAssumption DEF TypeOK
<1> QED
  BY <1>1, <1>2, SeenFacts DEF TallyInv


\* Every step keeps the sum of the packets.
LEMMA TallyStep ==
  ASSUME StatsInv, TypeOK', [Next]_vars
  PROVE  TallyInv' /\ Exact'
<1> USE TxAssumption DEF queue, wait_queue, stats, device, sender, admin, reader,
                         cancel, history, locals, others, StatsInv
<1>1. ASSUME NEW s \in Senders, SendDrop(s) PROVE TallyInv' /\ Exact'
  <2> IsFiniteSet(Dropping) /\ IsFiniteSet(Taking)
    BY DEF TallyInv
  <2> sent \in Nat /\ tx_packets \in Nat /\ tx_dropped \in Nat
    BY DEF TypeOK
  <2>1. /\ IsFiniteSet(Dropping') /\ Dropping' = Dropping \cup {s}
        /\ Cardinality(Dropping') = Cardinality(Dropping) + 1
        /\ Taking' = Taking
    BY <1>1, Droppers DEF SendDrop, SendBegin, Taking
  <2>2. Held' = Held + 1 /\ Held \in Nat
    BY <1>1, <2>1, HeldSum, HeldSumNext DEF SendDrop, SendBegin, Flushing
  <2>3. DroppedSeen' \subseteq DroppedSeen /\ PacketsSeen' = PacketsSeen
    BY <1>1, <2>1 DEF SendDrop, SendBegin, DroppedSeen, PacketsSeen, TypeOK
  <2>4. sent' = sent + 1 /\ UNCHANGED <<tx_packets, tx_dropped, rpc, rload, apc, aload>>
    BY <1>1 DEF SendDrop, SendBegin
  <2>5. TallyInv'
    BY <2>1, <2>2, <2>3, <2>4, TallySent
  <2>6. \A t \in Senders : spc'[t] = "drop" /\ t # s => spc[t] = "drop" /\ sload'[t] = sload[t]
    BY <1>1 DEF SendDrop, SendBegin, SGoto, TypeOK
  <2>7. sload'[s] = tx_dropped
    BY <1>1 DEF SendDrop, SendBegin, TypeOK
  <2>8. Exact'
    BY <2>2, <2>4, <2>6, <2>7 DEF Exact
  <2> QED
    BY <2>5, <2>8
<1>2. ASSUME NEW s \in Senders, SendCountDrop(s) PROVE TallyInv' /\ Exact'
  <2> IsFiniteSet(Dropping) /\ IsFiniteSet(Taking)
    BY DEF TallyInv
  <2> sent \in Nat /\ tx_packets \in Nat /\ tx_dropped \in Nat
    BY DEF TypeOK
  <2>0. s \in Dropping
    BY <1>2 DEF SendCountDrop, Dropping
  <2>1. /\ IsFiniteSet(Dropping') /\ Dropping' = Dropping \ {s}
        /\ Cardinality(Dropping') = Cardinality(Dropping) - 1
        /\ Taking' = Taking
    BY <1>2, Droppers DEF SendCountDrop, Taking
  <2>2. Held' = Held - 1 /\ Held \in Nat
    BY <1>2, <2>1, HeldSum, HeldSumNext DEF SendCountDrop, Flushing
  <2>3. DroppedSeen' \subseteq DroppedSeen \cup {sload[s] + 1} /\ PacketsSeen' = PacketsSeen
    BY <1>2, <2>1 DEF SendCountDrop, DroppedSeen, PacketsSeen, TypeOK
  <2>4. sent' = sent /\ tx_dropped' = sload[s] + 1
        /\ UNCHANGED <<tx_packets, rpc, rload, apc, aload>>
    BY <1>2 DEF SendCountDrop
  <2>5. sload[s] \in DroppedSeen /\ sload[s] \in Nat
    BY <2>0 DEF DroppedSeen, TypeOK
  <2>6. TallyInv'
    BY <2>1, <2>2, <2>3, <2>4, <2>5, SeenFacts DEF TallyInv
  <2>7. Exact'
    <3> SUFFICES ASSUME KernelSerializes, NEW r \in Readers, Readers = {r} PROVE
            /\ \A t \in Senders : spc'[t] = "drop" => sload'[t] = tx_dropped'
            /\ rpc'[r] = "store" => rload'[r] = tx_packets'
            /\ apc' = "store" => aload' = tx_dropped'
            /\ tx_packets' + tx_dropped' + Held' = sent'
      BY DEF Exact
    <3>1. spc[s] = "drop" /\ sload[s] = tx_dropped
      BY <1>2 DEF SendCountDrop, Exact
    <3>2. apc = "up" /\ \A t \in Senders \ {s} : spc[t] = "out"
      BY <3>1 DEF Serial
    <3>3. \A t \in Senders : spc'[t] # "drop"
      BY <3>2, <1>2 DEF SendCountDrop, SGoto, TypeOK
    <3>4. rpc[r] = "store" => rload[r] = tx_packets
      BY DEF Exact
    <3>5. tx_packets + tx_dropped + Held = sent
      BY DEF Exact
    <3> QED
      BY <2>2, <2>4, <3>1, <3>2, <3>3, <3>4, <3>5
  <2> QED
    BY <2>6, <2>7
<1>3. ASSUME NEW s \in Senders, SendQueue(s) PROVE TallyInv' /\ Exact'
  <2> IsFiniteSet(Dropping) /\ IsFiniteSet(Taking)
    BY DEF TallyInv
  <2> sent \in Nat /\ tx_packets \in Nat /\ tx_dropped \in Nat
    BY DEF TypeOK
  <2>1. /\ IsFiniteSet(Dropping') /\ Dropping' = Dropping /\ Taking' = Taking
    BY <1>3, Droppers DEF SendQueue, SendBegin, Taking, SendBegin
  <2>2. Len(fifo') = Len(fifo) + 1
    <3>1. [id |-> sent, session |-> session] \in Packet /\ fifo \in Seq(Packet)
      BY DEF TypeOK, Packet
    <3> QED
      BY <3>1, <1>3, AppendFacts DEF SendQueue
  <2>3. Held' = Held + 1 /\ Held \in Nat
    BY <1>3, <2>1, <2>2, HeldSum, HeldSumNext DEF SendQueue, SendBegin, Flushing
  <2>4. DroppedSeen' = DroppedSeen /\ PacketsSeen' = PacketsSeen
    BY <1>3, <2>1 DEF SendQueue, SendBegin, DroppedSeen, PacketsSeen
  <2>5. sent' = sent + 1 /\ UNCHANGED <<tx_packets, tx_dropped, sload, rpc, rload, apc, aload>>
    BY <1>3 DEF SendQueue, SendBegin
  <2>6. TallyInv'
    BY <2>1, <2>3, <2>4, <2>5, TallySent
  <2>7. \A t \in Senders : spc'[t] = "drop" => spc[t] = "drop"
    BY <1>3 DEF SendQueue, SendBegin, SGoto, TypeOK
  <2>8. Exact'
    BY <2>3, <2>5, <2>7 DEF Exact
  <2> QED
    BY <2>6, <2>8
<1>4. ASSUME NEW s \in Senders, SendWake(s) PROVE TallyInv' /\ Exact'
  BY <1>4, TallyKept DEF SendWake, Wakeup, SGoto, TypeOK, Dropping, Taking
<1>5. ASSUME OpenEnable PROVE TallyInv' /\ Exact'
  BY <1>5, TallyKept DEF OpenEnable, Dropping, Taking
<1>6. ASSUME OpenStart PROVE TallyInv' /\ Exact'
  BY <1>6, TallyKept DEF OpenStart, Dropping, Taking
<1>7. ASSUME CloseDisable PROVE TallyInv' /\ Exact'
  BY <1>7, TallyKept DEF CloseDisable, Dropping, Taking
<1>8. ASSUME CloseFlush PROVE TallyInv' /\ Exact'
  <2> IsFiniteSet(Dropping) /\ IsFiniteSet(Taking)
    BY DEF TallyInv
  <2> sent \in Nat /\ tx_packets \in Nat /\ tx_dropped \in Nat
    BY DEF TypeOK
  <2>1. Dropping' = Dropping /\ Taking' = Taking
    BY <1>8 DEF CloseFlush, Dropping, Taking
  <2>2. Flushing = 0 /\ Flushing' = Len(fifo) /\ Len(fifo') = 0 /\ faulted' = faulted
    BY <1>8, EmptySeq DEF CloseFlush, Flushing
  <2>3. Held' = Held /\ Held \in Nat
    BY <2>1, <2>2, HeldSum, HeldSumNext
  <2>4. DroppedSeen' = DroppedSeen /\ PacketsSeen' = PacketsSeen
    BY <1>8, <2>1 DEF CloseFlush, DroppedSeen, PacketsSeen
  <2>5. UNCHANGED <<sent, tx_packets, tx_dropped, spc, sload, rpc, rload>> /\ apc' # "store"
    BY <1>8 DEF CloseFlush
  <2>6. TallyInv'
    BY <2>1, <2>3, <2>4, <2>5 DEF TallyInv
  <2>7. Exact'
    BY <2>3, <2>5 DEF Exact
  <2> QED
    BY <2>6, <2>7
<1>9. ASSUME CloseLoad PROVE TallyInv' /\ Exact'
  <2> IsFiniteSet(Dropping) /\ IsFiniteSet(Taking)
    BY DEF TallyInv
  <2> sent \in Nat /\ tx_packets \in Nat /\ tx_dropped \in Nat
    BY DEF TypeOK
  <2>1. Dropping' = Dropping /\ Taking' = Taking
    BY <1>9 DEF CloseLoad, Dropping, Taking
  <2>2. Flushing' = Flushing /\ UNCHANGED <<fifo, faulted>>
    BY <1>9 DEF CloseLoad, Flushing
  <2>3. Held' = Held /\ Held \in Nat
    BY <2>1, <2>2, HeldSum, HeldSumNext
  <2>4. DroppedSeen' \subseteq DroppedSeen /\ PacketsSeen' = PacketsSeen
    BY <1>9, <2>1 DEF CloseLoad, DroppedSeen, PacketsSeen
  <2>5. UNCHANGED <<sent, tx_packets, tx_dropped, spc, sload, rpc, rload>> /\ aload' = tx_dropped
    BY <1>9 DEF CloseLoad
  <2>6. TallyInv'
    BY <2>1, <2>3, <2>4, <2>5 DEF TallyInv
  <2>7. Exact'
    BY <2>3, <2>5 DEF Exact
  <2> QED
    BY <2>6, <2>7
<1>10. ASSUME CloseStore PROVE TallyInv' /\ Exact'
  <2> IsFiniteSet(Dropping) /\ IsFiniteSet(Taking)
    BY DEF TallyInv
  <2> sent \in Nat /\ tx_packets \in Nat /\ tx_dropped \in Nat
    BY DEF TypeOK
  <2>1. Dropping' = Dropping /\ Taking' = Taking
    BY <1>10 DEF CloseStore, Dropping, Taking
  <2>2. Flushing = flushed /\ Flushing' = 0 /\ UNCHANGED <<fifo, faulted>>
    BY <1>10 DEF CloseStore, Flushing
  <2>3. Held' = Held - flushed /\ Held \in Nat /\ flushed \in Nat
    BY <2>1, <2>2, HeldSum, HeldSumNext
  <2>4. DroppedSeen' \subseteq DroppedSeen \cup {aload + flushed} /\ PacketsSeen' = PacketsSeen
    BY <1>10, <2>1 DEF CloseStore, DroppedSeen, PacketsSeen
  <2>5. /\ UNCHANGED <<sent, tx_packets, spc, sload, rpc, rload>>
        /\ tx_dropped' = aload + flushed /\ apc' # "store"
    BY <1>10 DEF CloseStore
  <2>6. aload \in DroppedSeen /\ aload \in Nat
    BY <1>10 DEF CloseStore, DroppedSeen, TypeOK
  <2>7. TallyInv'
    <3>1. \A d \in DroppedSeen : \A p \in PacketsSeen :
             d \in Nat /\ p \in Nat /\ d + p + Held' <= sent' /\ d + p + Held <= sent
      BY <2>3, <2>5, SeenFacts DEF TallyInv
    <3> QED
      BY <2>1, <2>3, <2>4, <2>5, <2>6, <3>1 DEF TallyInv
  <2>8. KernelSerializes => \A s \in Senders : spc[s] = "out"
    BY <1>10 DEF CloseStore, Serial
  <2>9. Exact'
    <3> SUFFICES ASSUME KernelSerializes, NEW r \in Readers, Readers = {r} PROVE
            /\ \A t \in Senders : spc'[t] = "drop" => sload'[t] = tx_dropped'
            /\ rpc'[r] = "store" => rload'[r] = tx_packets'
            /\ apc' = "store" => aload' = tx_dropped'
            /\ tx_packets' + tx_dropped' + Held' = sent'
      BY DEF Exact
    <3>1. aload = tx_dropped
      BY <1>10 DEF CloseStore, Exact
    <3>2. /\ rpc[r] = "store" => rload[r] = tx_packets
          /\ tx_packets + tx_dropped + Held = sent
      BY DEF Exact
    <3> QED
      BY <2>3, <2>5, <2>8, <3>1, <3>2
  <2> QED
    BY <2>7, <2>9
<1>11. ASSUME CloseStop PROVE TallyInv' /\ Exact'
  BY <1>11, TallyKept DEF CloseStop, Dropping, Taking
<1>12. ASSUME NEW r \in Readers, ReadBegin(r) PROVE TallyInv' /\ Exact'
  BY <1>12, TallyKept DEF ReadBegin, RGoto, TypeOK, Dropping, Taking
<1>13. ASSUME NEW r \in Readers, PollCanceled(r) PROVE TallyInv' /\ Exact'
  BY <1>13, TallyKept DEF PollCanceled, PollReturn, RGoto, TypeOK, Dropping, Taking
<1>14. ASSUME NEW r \in Readers, PollNotCanceled(r) PROVE TallyInv' /\ Exact'
  BY <1>14, TallyKept DEF PollNotCanceled, RGoto, TypeOK, Dropping, Taking
<1>15. ASSUME NEW r \in Readers, PollRegister(r) PROVE TallyInv' /\ Exact'
  BY <1>15, TallyKept DEF PollRegister, RGoto, TypeOK, Dropping, Taking
<1>16. ASSUME NEW r \in Readers, PollReadable(r) PROVE TallyInv' /\ Exact'
  BY <1>16, TallyKept DEF PollReadable, PollReturn, RGoto, TypeOK, Dropping, Taking
<1>17. ASSUME NEW r \in Readers, PollEmpty(r) PROVE TallyInv' /\ Exact'
  BY <1>17, TallyKept DEF PollEmpty, RGoto, TypeOK, Dropping, Taking
<1>18. ASSUME NEW r \in Readers, PollWoken(r) PROVE TallyInv' /\ Exact'
  BY <1>18, TallyKept DEF PollWoken, RGoto, TypeOK, Dropping, Taking
<1>19. ASSUME NEW r \in Readers, PollInterrupted(r) PROVE TallyInv' /\ Exact'
  BY <1>19, TallyKept DEF PollInterrupted, PollReturn, RGoto, TypeOK, Dropping, Taking
<1>20. ASSUME NEW r \in Readers, ReadAccept(r) PROVE TallyInv' /\ Exact'
  BY <1>20, TallyKept DEF ReadAccept, RGoto, TypeOK, Dropping, Taking
<1>21. ASSUME NEW r \in Readers, ReadRefuse(r) PROVE TallyInv' /\ Exact'
  BY <1>21, TallyKept DEF ReadRefuse, ReadReturn, RGoto, TypeOK, Dropping, Taking
<1>22. ASSUME NEW r \in Readers, TakePacket(r) PROVE TallyInv' /\ Exact'
  <2> IsFiniteSet(Dropping) /\ IsFiniteSet(Taking)
    BY DEF TallyInv
  <2> sent \in Nat /\ tx_packets \in Nat /\ tx_dropped \in Nat
    BY DEF TypeOK
  <2>1. /\ IsFiniteSet(Taking') /\ Cardinality(Taking') = Cardinality(Taking) + 1
        /\ Dropping' = Dropping
    BY <1>22, Takers DEF TakePacket, Dropping
  <2>2. Len(fifo') = Len(fifo) - 1
    BY <1>22, TailFacts DEF TakePacket, TypeOK
  <2>3. Flushing' = Flushing /\ faulted' = faulted
    BY <1>22 DEF TakePacket, Flushing
  <2>4. Held' = Held /\ Held \in Nat
    BY <2>1, <2>2, <2>3, HeldSum, HeldSumNext
  <2>5. /\ UNCHANGED <<sent, tx_packets, tx_dropped, spc, sload, apc, aload, rload>>
        /\ \A q \in Readers : rpc'[q] = "store" <=> rpc[q] = "store"
    BY <1>22 DEF TakePacket, RGoto, TypeOK
  <2>6. DroppedSeen' = DroppedSeen /\ PacketsSeen' = PacketsSeen
    BY <2>1, <2>5 DEF DroppedSeen, PacketsSeen
  <2>7. TallyInv'
    BY <2>1, <2>4, <2>5, <2>6 DEF TallyInv
  <2>8. Exact'
    BY <2>4, <2>5 DEF Exact
  <2> QED
    BY <2>7, <2>8
<1>23. ASSUME NEW r \in Readers, TakeNone(r) PROVE TallyInv' /\ Exact'
  BY <1>23, TallyKept DEF TakeNone, RGoto, TypeOK, Dropping, Taking
<1>24. ASSUME NEW r \in Readers, FillFault(r) PROVE TallyInv' /\ Exact'
  <2> IsFiniteSet(Dropping) /\ IsFiniteSet(Taking)
    BY DEF TallyInv
  <2> sent \in Nat /\ tx_packets \in Nat /\ tx_dropped \in Nat
    BY DEF TypeOK
  <2>1. /\ IsFiniteSet(Taking') /\ Cardinality(Taking') = Cardinality(Taking) - 1
        /\ Dropping' = Dropping
    BY <1>24, Takers DEF FillFault, Dropping
  <2>2. fifo' = fifo /\ faulted' = faulted + 1
    BY <1>24 DEF FillFault
  <2>3. Flushing' = Flushing
    BY <1>24 DEF FillFault, Flushing
  <2>4. Held' = Held /\ Held \in Nat
    BY <2>1, <2>2, <2>3, HeldSum, HeldSumNext
  <2>5. /\ UNCHANGED <<sent, tx_packets, tx_dropped, spc, sload, apc, aload, rload>>
        /\ \A q \in Readers : rpc'[q] = "store" <=> rpc[q] = "store"
    BY <1>24 DEF FillFault, RGoto, TypeOK
  <2>6. DroppedSeen' = DroppedSeen /\ PacketsSeen' = PacketsSeen
    BY <2>1, <2>5 DEF DroppedSeen, PacketsSeen
  <2>7. TallyInv'
    BY <2>1, <2>4, <2>5, <2>6 DEF TallyInv
  <2>8. Exact'
    BY <2>4, <2>5 DEF Exact
  <2> QED
    BY <2>7, <2>8
<1>25. ASSUME NEW r \in Readers, FillLoad(r) PROVE TallyInv' /\ Exact'
  <2> IsFiniteSet(Dropping) /\ IsFiniteSet(Taking)
    BY DEF TallyInv
  <2> sent \in Nat /\ tx_packets \in Nat /\ tx_dropped \in Nat
    BY DEF TypeOK
  <2>1. IsFiniteSet(Taking') /\ Taking' = Taking /\ Dropping' = Dropping
    BY <1>25, Takers DEF FillLoad, Dropping
  <2>2. Flushing' = Flushing /\ UNCHANGED <<fifo, faulted>>
    BY <1>25 DEF FillLoad, Flushing
  <2>3. Held' = Held /\ Held \in Nat
    BY <2>1, <2>2, HeldSum, HeldSumNext
  <2>4. UNCHANGED <<sent, tx_packets, tx_dropped, spc, sload, apc, aload>>
    BY <1>25 DEF FillLoad
  <2>5. /\ rload'[r] = tx_packets
        /\ \A q \in Readers \ {r} : rload'[q] = rload[q] /\ rpc'[q] = rpc[q]
    BY <1>25 DEF FillLoad, RGoto, TypeOK
  <2>6. DroppedSeen' = DroppedSeen /\ PacketsSeen' \subseteq PacketsSeen
    BY <2>1, <2>4, <2>5 DEF DroppedSeen, PacketsSeen
  <2>7. TallyInv'
    BY <2>1, <2>3, <2>4, <2>6 DEF TallyInv
  <2>8. Exact'
    BY <2>3, <2>4, <2>5 DEF Exact
  <2> QED
    BY <2>7, <2>8
<1>26. ASSUME NEW r \in Readers, FillStore(r) PROVE TallyInv' /\ Exact'
  <2> IsFiniteSet(Dropping) /\ IsFiniteSet(Taking)
    BY DEF TallyInv
  <2> sent \in Nat /\ tx_packets \in Nat /\ tx_dropped \in Nat
    BY DEF TypeOK
  <2>1. /\ IsFiniteSet(Taking') /\ Cardinality(Taking') = Cardinality(Taking) - 1
        /\ Dropping' = Dropping
    BY <1>26, Takers DEF FillStore, Dropping
  <2>2. Flushing' = Flushing /\ UNCHANGED <<fifo, faulted>>
    BY <1>26 DEF FillStore, Flushing
  <2>3. Held' = Held - 1 /\ Held \in Nat
    BY <2>1, <2>2, HeldSum, HeldSumNext
  <2>4. /\ UNCHANGED <<sent, tx_dropped, spc, sload, apc, aload>>
        /\ rpc[r] = "store" /\ tx_packets' = rload[r] + 1
    BY <1>26 DEF FillStore
  <2>5. /\ rpc'[r] # "store"
        /\ \A q \in Readers \ {r} : rload'[q] = rload[q] /\ rpc'[q] = rpc[q]
    BY <1>26 DEF FillStore, RGoto, TypeOK
  <2>6. DroppedSeen' = DroppedSeen /\ PacketsSeen' \subseteq PacketsSeen \cup {rload[r] + 1}
    BY <2>1, <2>4, <2>5 DEF DroppedSeen, PacketsSeen
  <2>7. rload[r] \in PacketsSeen /\ rload[r] \in Nat
    BY <2>4 DEF PacketsSeen, TypeOK
  <2>8. TallyInv'
    BY <2>1, <2>3, <2>4, <2>6, <2>7, SeenFacts DEF TallyInv
  <2>9. Exact'
    <3> SUFFICES ASSUME KernelSerializes, Readers = {r} PROVE
            /\ \A s \in Senders : spc'[s] = "drop" => sload'[s] = tx_dropped'
            /\ apc' = "store" => aload' = tx_dropped'
            /\ tx_packets' + tx_dropped' + Held' = sent'
      BY <2>5 DEF Exact
    <3>1. /\ \A s \in Senders : spc[s] = "drop" => sload[s] = tx_dropped
          /\ apc = "store" => aload = tx_dropped
          /\ tx_packets + tx_dropped + Held = sent
      BY DEF Exact
    <3>2. rload[r] = tx_packets
      BY <2>4 DEF Exact
    <3> QED
      BY <2>3, <2>4, <3>1, <3>2
  <2> QED
    BY <2>8, <2>9
<1>27. ASSUME NEW r \in Readers, FillLength(r) PROVE TallyInv' /\ Exact'
  BY <1>27, TallyKept DEF FillLength, RGoto, TypeOK, Dropping, Taking
<1>28. ASSUME NEW r \in Readers, ReadFinish(r) PROVE TallyInv' /\ Exact'
  BY <1>28, TallyKept DEF ReadFinish, ReadReturn, RGoto, TypeOK, Dropping, Taking
<1>29. ASSUME CancelMark PROVE TallyInv' /\ Exact'
  BY <1>29, TallyKept DEF CancelMark, Dropping, Taking
<1>30. ASSUME CancelWake PROVE TallyInv' /\ Exact'
  BY <1>30, TallyKept DEF CancelWake, Wakeup, Dropping, Taking
<1>31. ASSUME NEW r \in Readers, PollFails(r) \/ ReadAgain(r) PROVE TallyInv' /\ Exact'
  BY <1>31, TallyKept DEF PollFails, ReadAgain, RGoto, TypeOK, Dropping, Taking
<1>32. CASE UNCHANGED vars
  BY <1>32, TallyKept DEF vars, Dropping, Taking
<1> QED
  BY <1>1, <1>2, <1>3, <1>4, <1>5, <1>6, <1>7, <1>8, <1>9, <1>10, <1>11,
     <1>12, <1>13, <1>14, <1>15, <1>16, <1>17, <1>18, <1>19, <1>20, <1>21, <1>22,
     <1>23, <1>24, <1>25, <1>26, <1>27, <1>28, <1>29, <1>30, <1>31, <1>32
     DEF Next, Send, Close, Poll, Read

-----------------------------------------------------------------------------
\* The initial state has counted nothing and nothing was sent.
LEMMA InitStats == Init => StatsInv
<1> SUFFICES ASSUME Init PROVE StatsInv
  OBVIOUS
<1>1. TypeOK
  BY InitIInv DEF IInv
<1> USE DEF Init
<1>2. Dropping = {} /\ Taking = {} /\ Flushing = 0 /\ Len(fifo) = 0
  BY EmptySeq DEF Dropping, Taking, Flushing
<1>3. IsFiniteSet({}) /\ Cardinality({}) = 0
  BY FS_EmptySet
<1>4. Held = 0
  BY <1>1, <1>2, <1>3, HeldSum
<1>5. DroppedSeen = {0} /\ PacketsSeen = {0}
  BY <1>2 DEF DroppedSeen, PacketsSeen
<1>6. TallyInv
  BY <1>2, <1>3, <1>4, <1>5 DEF TallyInv
<1>7. Serial /\ Exact
  BY <1>4 DEF Serial, Exact
<1> QED
  BY <1>1, <1>6, <1>7 DEF StatsInv

\* The inductive invariant of the statistics.
THEOREM StatsInvariant == Spec => []StatsInv
<1>1. StatsInv /\ TypeOK' /\ [Next]_vars => StatsInv'
  <2> SUFFICES ASSUME StatsInv, TypeOK', [Next]_vars PROVE StatsInv'
    OBVIOUS
  <2> QED
    BY SerialStep, TallyStep DEF StatsInv
<1> QED
  BY InitStats, TypeCorrect, <1>1, PTL DEF Spec

\* What is accounted for: the counters and what they do not have yet.
LEMMA AccountedSum ==
  ASSUME StatsInv
  PROVE  /\ Accounted = tx_packets + tx_dropped + Held
         /\ Accounted = tx_dropped + tx_packets + Held
<1>1. Held \in Nat /\ Len(fifo) \in Nat /\ faulted \in Nat /\ BeingCounted \in Nat
  <2>1. BeingCounted = Cardinality(Dropping) + Flushing + Cardinality(Taking)
    BY DEF BeingCounted, Dropping, Flushing, Taking
  <2> QED
    BY <2>1, HeldSum DEF StatsInv, TallyInv
<1>2. tx_dropped \in Nat /\ tx_packets \in Nat
  BY DEF StatsInv, TypeOK
<1> QED
  BY <1>1, <1>2 DEF Accounted, Held

\* However the unlocked updates of tx_packets and tx_dropped interleave, they
\* lose counts but invent none: what is queued, counted, about to be counted
\* or lost to a fault is never more than what net_dev_send got.
THEOREM CountsNeverTooHigh == Spec => []NeverOvercounted
<1>1. StatsInv => NeverOvercounted
  <2> SUFFICES ASSUME StatsInv PROVE Accounted <= sent
    BY DEF NeverOvercounted
  <2>1. tx_dropped + tx_packets + Held <= sent
    BY SeenFacts DEF StatsInv, TallyInv
  <2> QED
    BY <2>1, AccountedSum
<1> QED
  BY StatsInvariant, <1>1, PTL

\* With one reader and a stack that keeps its promise the counters lose
\* nothing either, however often the interface goes down and up.
THEOREM CountsExact == Spec => []AccountingExact
<1>1. StatsInv => AccountingExact
  <2> SUFFICES ASSUME StatsInv, KernelSerializes, \E r \in Readers : Readers = {r}
               PROVE  Accounted = sent
    BY DEF AccountingExact, AllCounted
  <2>1. tx_packets + tx_dropped + Held = sent
    BY DEF StatsInv, Exact
  <2> QED
    BY <2>1, AccountedSum
<1> QED
  BY StatsInvariant, <1>1, PTL
=============================================================================
