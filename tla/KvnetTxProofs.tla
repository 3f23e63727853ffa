--------------------------- MODULE KvnetTxProofs ---------------------------
(***************************************************************************)
(* For any number of senders and readers, any queue length, any batch and  *)
(* whatever the network stack guarantees: no wakeup is lost, no packet     *)
(* crosses from one session of the interface to the next, and a reader     *)
(* that was told that there is data finds some or finds the interface      *)
(* closed.                                                                 *)
(***************************************************************************)
EXTENDS KvnetTx, SequenceTheorems, TLAPS

(***************************************************************************)
(* The strengthening: a reader that is about to test the queue or asleep   *)
(* is on the wait queue, the gate follows the position of net_dev_open and *)
(* net_dev_close, no reader polled in a session that is yet to come, and   *)
(* the count of packets read starts at zero and stays below Batch while    *)
(* the loop runs.                                                          *)
(***************************************************************************)
Registered == \A r \in Readers : rpc[r] \in {"test", "wait"} => r \in waiting

Gated == enabled <=> apc \in {"starting", "up"}

PolledPast == \A r \in Readers : polled[r] <= session

Counting ==
    \A r \in Readers :
        /\ rpc[r] \in {"take", "fill", "store", "length"} => got[r] < Batch
        /\ rpc[r] \in {"idle", "failed", "poll", "register", "test", "wait", "enter"} => got[r] = 0

WakeInv == Registered /\ NoLostWakeup
SessionInv == Gated /\ NoStalePackets
PromiseInv == PolledPast /\ ReadableUntilDown
CountInv == Counting /\ ReadCount

IInv == TypeOK /\ WakeInv /\ SessionInv /\ PromiseInv /\ CountInv

\* A queue of one session; appending to it and taking from it keep it so.
LEMMA AppendFacts ==
  ASSUME NEW S, NEW q \in Seq(S), NEW e \in S
  PROVE  /\ Append(q, e) \in Seq(S) /\ Append(q, e) # <<>>
         /\ Len(Append(q, e)) = Len(q) + 1
         /\ \A i \in 1..Len(q) : Append(q, e)[i] = q[i]
         /\ Append(q, e)[Len(q) + 1] = e
BY AppendProperties

\* The same for the head of a queue that is not empty.
LEMMA TailFacts ==
  ASSUME NEW S, NEW q \in Seq(S), q # <<>>
  PROVE  /\ Tail(q) \in Seq(S) /\ Len(Tail(q)) = Len(q) - 1 /\ Len(q) \in Nat
         /\ \A i \in 1..Len(q) - 1 : Tail(q)[i] = q[i + 1]
BY HeadTailProperties, LenProperties

\* The initial state has the invariant.
LEMMA InitIInv == Init => IInv
<1> SUFFICES ASSUME Init PROVE IInv
  OBVIOUS
<1> USE TxAssumption DEF Init
<1>1. TypeOK
  <2>1. <<>> \in Seq(Packet)
    BY EmptySeq
  <2>2. 0 \in 0..MaxSessions /\ 0 \in 0..MaxPackets
    OBVIOUS
  <2> QED
    BY <2>1, <2>2 DEF TypeOK
<1>2. WakeInv
  BY DEF WakeInv, Registered, NoLostWakeup
<1>3. SessionInv
  BY DEF SessionInv, Gated, NoStalePackets
<1>4. PromiseInv
  BY DEF PromiseInv, PolledPast, ReadableUntilDown
<1>5. CountInv
  BY DEF CountInv, Counting, ReadCount
<1> QED
  BY <1>1, <1>2, <1>3, <1>4, <1>5 DEF IInv

-----------------------------------------------------------------------------
\* A read returns to the program, which then is outside kvnet_read.
LEMMA FinishFacts ==
  ASSUME NEW r \in Readers, ReadFinish(r)
  PROVE  /\ polled' = [polled EXCEPT ![r] = 0]
         /\ \E label \in {"idle", "failed"} : rpc' = [rpc EXCEPT ![r] = label]
BY DEF ReadFinish, ReadReturn, RGoto

\* Every step keeps the types.
LEMMA TypeStep ==
  ASSUME IInv, [Next]_vars
  PROVE  TypeOK'
<1> USE TxAssumption DEF IInv, queue, wait_queue, stats, device, sender, admin, reader,
                         cancel, history, locals, others
<1>1. ASSUME NEW s \in Senders, SendDrop(s) PROVE TypeOK'
  BY <1>1 DEF SendDrop, SendBegin, SGoto, TypeOK
<1>2. ASSUME NEW s \in Senders, SendCountDrop(s) PROVE TypeOK'
  BY <1>2 DEF SendCountDrop, SGoto, TypeOK
<1>3. ASSUME NEW s \in Senders, SendQueue(s) PROVE TypeOK'
  <2>1. [id |-> sent, session |-> session] \in Packet
    BY DEF TypeOK, Packet
  <2>2. fifo' \in Seq(Packet)
    BY <2>1, <1>3, AppendFacts DEF SendQueue, TypeOK
  <2>3. sent' \in 0..MaxPackets
    BY <1>3 DEF SendQueue, SendBegin, TypeOK
  <2> QED
    BY <2>2, <2>3, <1>3 DEF SendQueue, SGoto, TypeOK
<1>4. ASSUME NEW s \in Senders, SendWake(s) PROVE TypeOK'
  BY <1>4 DEF SendWake, SGoto, Wakeup, TypeOK
<1>5. ASSUME OpenEnable PROVE TypeOK'
  BY <1>5 DEF OpenEnable, TypeOK
<1>6. ASSUME OpenStart PROVE TypeOK'
  BY <1>6 DEF OpenStart, TypeOK
<1>7. ASSUME CloseDisable PROVE TypeOK'
  BY <1>7 DEF CloseDisable, TypeOK
<1>8. ASSUME CloseFlush PROVE TypeOK'
  BY <1>8 DEF CloseFlush, TypeOK
<1>9. ASSUME CloseLoad PROVE TypeOK'
  BY <1>9 DEF CloseLoad, TypeOK
<1>10. ASSUME CloseStore PROVE TypeOK'
  BY <1>10 DEF CloseStore, TypeOK
<1>11. ASSUME CloseStop PROVE TypeOK'
  BY <1>11 DEF CloseStop, TypeOK
<1>12. ASSUME NEW r \in Readers, ReadBegin(r) PROVE TypeOK'
  BY <1>12 DEF ReadBegin, RGoto, TypeOK
<1>13. ASSUME NEW r \in Readers, PollCanceled(r) PROVE TypeOK'
  BY <1>13 DEF PollCanceled, RGoto, PollReturn, TypeOK
<1>14. ASSUME NEW r \in Readers, PollNotCanceled(r) PROVE TypeOK'
  BY <1>14 DEF PollNotCanceled, RGoto, TypeOK
<1>15. ASSUME NEW r \in Readers, PollRegister(r) PROVE TypeOK'
  BY <1>15 DEF PollRegister, RGoto, TypeOK
<1>16. ASSUME NEW r \in Readers, PollReadable(r) PROVE TypeOK'
  BY <1>16 DEF PollReadable, RGoto, PollReturn, TypeOK
<1>17. ASSUME NEW r \in Readers, PollEmpty(r) PROVE TypeOK'
  BY <1>17 DEF PollEmpty, RGoto, TypeOK
<1>18. ASSUME NEW r \in Readers, PollWoken(r) PROVE TypeOK'
  BY <1>18 DEF PollWoken, RGoto, TypeOK
<1>19. ASSUME NEW r \in Readers, PollInterrupted(r) PROVE TypeOK'
  BY <1>19 DEF PollInterrupted, RGoto, PollReturn, TypeOK
<1>20. ASSUME NEW r \in Readers, ReadAccept(r) PROVE TypeOK'
  BY <1>20 DEF ReadAccept, RGoto, TypeOK
<1>21. ASSUME NEW r \in Readers, ReadRefuse(r) PROVE TypeOK'
  BY <1>21 DEF ReadRefuse, RGoto, ReadReturn, TypeOK
<1>22. ASSUME NEW r \in Readers, TakePacket(r) PROVE TypeOK'
  BY <1>22 DEF TakePacket, RGoto, TypeOK
<1>23. ASSUME NEW r \in Readers, TakeNone(r) PROVE TypeOK'
  BY <1>23 DEF TakeNone, RGoto, TypeOK
<1>24. ASSUME NEW r \in Readers, FillFault(r) PROVE TypeOK'
  BY <1>24 DEF FillFault, RGoto, TypeOK
<1>25. ASSUME NEW r \in Readers, FillLoad(r) PROVE TypeOK'
  BY <1>25 DEF FillLoad, RGoto, TypeOK
<1>26. ASSUME NEW r \in Readers, FillStore(r) PROVE TypeOK'
  BY <1>26 DEF FillStore, RGoto, TypeOK
<1>27. ASSUME NEW r \in Readers, FillLength(r) PROVE TypeOK'
  <2>1. got' \in [Readers -> Nat] /\ err' \in [Readers -> BOOLEAN]
    <3>1. CASE UNCHANGED err
      BY <3>1, <1>27 DEF FillLength, TypeOK
    <3>2. CASE UNCHANGED got
      <4>1. err' \in [Readers -> BOOLEAN]
        BY Zenon, <1>27 DEF FillLength, TypeOK
      <4> QED
        BY <3>2, <4>1 DEF TypeOK
    <3> QED
      BY <3>1, <3>2, <1>27 DEF FillLength
  <2>2. rpc' \in [Readers -> {"idle", "failed", "poll", "register", "test", "wait", "enter",
                              "take", "fill", "store", "length", "finish"}]
    BY <1>27 DEF FillLength, RGoto, TypeOK
  <2> QED
    BY <2>1, <2>2, <1>27 DEF FillLength, TypeOK
<1>28. ASSUME NEW r \in Readers, ReadFinish(r) PROVE TypeOK'
  <2>1. err' \in [Readers -> BOOLEAN]
    BY Zenon, <1>28 DEF ReadFinish, TypeOK
  <2>2. got' \in [Readers -> Nat]
    BY <1>28 DEF ReadFinish, TypeOK
  <2>3. polled' \in [Readers -> 0..MaxSessions]
    BY <1>28, FinishFacts DEF TypeOK
  <2>4. rpc' \in [Readers -> {"idle", "failed", "poll", "register", "test", "wait", "enter",
                              "take", "fill", "store", "length", "finish"}]
    BY <1>28, FinishFacts DEF TypeOK
  <2> QED
    BY <2>1, <2>2, <2>3, <2>4, <1>28 DEF ReadFinish, TypeOK
<1>29. ASSUME NEW r \in Readers, PollFails(r) \/ ReadAgain(r) PROVE TypeOK'
  BY <1>29 DEF PollFails, ReadAgain, RGoto, TypeOK
<1>30. ASSUME CancelMark \/ CancelWake
       PROVE TypeOK'
  BY <1>30 DEF CancelMark, CancelWake, Wakeup, TypeOK
<1>31. ASSUME UNCHANGED vars PROVE TypeOK'
  BY <1>31 DEF vars, TypeOK
<1> QED
  BY <1>1, <1>2, <1>3, <1>4, <1>5, <1>6, <1>7, <1>8, <1>9, <1>10, <1>11, <1>12, <1>13,
     <1>14, <1>15, <1>16, <1>17, <1>18, <1>19, <1>20, <1>21, <1>22, <1>23, <1>24, <1>25,
     <1>26, <1>27, <1>28, <1>29, <1>30, <1>31 DEF Next, Send, Close, Poll, Read

-----------------------------------------------------------------------------
\* A packet comes with a wakeup that is still to come, and a wakeup reaches
\* every reader that may be asleep.
LEMMA WakeStep ==
  ASSUME IInv, [Next]_vars
  PROVE  WakeInv'
<1> USE TxAssumption DEF IInv, queue, wait_queue, stats, device, sender, admin, reader,
                         cancel, history, locals, others
<1>1. ASSUME NEW s \in Senders, SendQueue(s) PROVE WakeInv'
  BY <1>1 DEF SendQueue, SendBegin, SGoto, WakeInv, Registered, NoLostWakeup, TypeOK
<1>2. ASSUME NEW s \in Senders, SendWake(s) PROVE WakeInv'
  BY <1>2 DEF SendWake, SGoto, Wakeup, WakeInv, Registered, NoLostWakeup, TypeOK
<1>3. ASSUME NEW s \in Senders,
         \/ SendDrop(s) \/ SendCountDrop(s)
       PROVE WakeInv'
  BY <1>3 DEF SendDrop, SendCountDrop, SendBegin, SGoto, WakeInv, Registered, NoLostWakeup, TypeOK
<1>4. ASSUME CloseFlush PROVE WakeInv'
  BY <1>4 DEF CloseFlush, WakeInv, Registered, NoLostWakeup, TypeOK
<1>5. ASSUME
         \/ OpenEnable \/ OpenStart \/ CloseDisable \/ CloseLoad
         \/ CloseStore \/ CloseStop
       PROVE WakeInv'
  BY <1>5 DEF OpenEnable, OpenStart, CloseDisable, CloseLoad, CloseStore, CloseStop, WakeInv,
     Registered, NoLostWakeup, TypeOK
<1>6. ASSUME NEW r \in Readers, PollCanceled(r) PROVE WakeInv'
  BY <1>6 DEF PollCanceled, RGoto, PollReturn, WakeInv, Registered, NoLostWakeup, TypeOK
<1>7. ASSUME NEW r \in Readers, PollRegister(r) PROVE WakeInv'
  BY <1>7 DEF PollRegister, RGoto, WakeInv, Registered, NoLostWakeup, TypeOK
<1>8. ASSUME NEW r \in Readers, PollReadable(r) PROVE WakeInv'
  BY <1>8 DEF PollReadable, RGoto, PollReturn, WakeInv, Registered, NoLostWakeup, TypeOK
<1>9. ASSUME NEW r \in Readers, PollEmpty(r) PROVE WakeInv'
  BY <1>9 DEF PollEmpty, RGoto, WakeInv, Registered, NoLostWakeup, TypeOK
<1>10. ASSUME NEW r \in Readers, PollWoken(r) PROVE WakeInv'
  BY <1>10 DEF PollWoken, RGoto, WakeInv, Registered, NoLostWakeup, TypeOK
<1>11. ASSUME NEW r \in Readers, PollInterrupted(r) PROVE WakeInv'
  BY <1>11 DEF PollInterrupted, RGoto, PollReturn, WakeInv, Registered, NoLostWakeup, TypeOK
<1>12. ASSUME NEW r \in Readers, TakePacket(r) PROVE WakeInv'
  BY <1>12 DEF TakePacket, RGoto, WakeInv, Registered, NoLostWakeup, TypeOK
<1>13. ASSUME NEW r \in Readers,
         \/ ReadBegin(r) \/ PollNotCanceled(r) \/ ReadAccept(r)
         \/ ReadRefuse(r) \/ TakeNone(r) \/ FillFault(r) \/ FillLoad(r)
         \/ FillStore(r) \/ FillLength(r) \/ ReadFinish(r)
         \/ PollFails(r) \/ ReadAgain(r)
       PROVE WakeInv'
  BY <1>13 DEF PollFails, ReadAgain, ReadBegin, PollNotCanceled, ReadAccept, ReadRefuse, TakeNone, FillFault, FillLoad,
     FillStore, FillLength, ReadFinish, RGoto, ReadReturn, WakeInv, Registered,
     NoLostWakeup, TypeOK
<1>14. ASSUME CancelWake PROVE WakeInv'
  BY <1>14 DEF CancelWake, Wakeup, WakeInv, Registered, NoLostWakeup, TypeOK
<1>15. ASSUME CancelMark
       PROVE WakeInv'
  BY <1>15 DEF CancelMark, WakeInv, Registered, NoLostWakeup, TypeOK
<1>16. ASSUME UNCHANGED vars PROVE WakeInv'
  BY <1>16 DEF vars, WakeInv, Registered, NoLostWakeup, TypeOK
<1> QED
  BY <1>1, <1>2, <1>3, <1>4, <1>5, <1>6, <1>7, <1>8, <1>9, <1>10, <1>11, <1>12, <1>13,
     <1>14, <1>15, <1>16 DEF Next, Send, Close, Poll, Read

-----------------------------------------------------------------------------
\* The gate is shut from before the flush until the next net_dev_open.
LEMMA SessionStep ==
  ASSUME IInv, [Next]_vars
  PROVE  SessionInv'
<1> USE TxAssumption DEF IInv, queue, wait_queue, stats, device, sender, admin, reader,
                         cancel, history, locals, others
<1>1. ASSUME NEW s \in Senders, SendQueue(s) PROVE SessionInv'
  BY <1>1 DEF SendQueue, SendBegin, SGoto, SessionInv, Gated, NoStalePackets, TypeOK
<1>2. ASSUME NEW s \in Senders,
         \/ SendDrop(s) \/ SendCountDrop(s) \/ SendWake(s)
       PROVE SessionInv'
  BY <1>2 DEF SendDrop, SendCountDrop, SendWake, SendBegin, SGoto, Wakeup, SessionInv, Gated,
     NoStalePackets, TypeOK
<1>3. ASSUME OpenEnable PROVE SessionInv'
  BY <1>3 DEF OpenEnable, SessionInv, Gated, NoStalePackets, TypeOK
<1>4. ASSUME CloseDisable PROVE SessionInv'
  BY <1>4 DEF CloseDisable, SessionInv, Gated, NoStalePackets, TypeOK
<1>5. ASSUME CloseFlush PROVE SessionInv'
  BY <1>5 DEF CloseFlush, SessionInv, Gated, NoStalePackets, TypeOK
<1>6. ASSUME OpenStart \/ CloseLoad \/ CloseStore \/ CloseStop
       PROVE SessionInv'
  BY <1>6 DEF OpenStart, CloseLoad, CloseStore, CloseStop, SessionInv, Gated, NoStalePackets,
     TypeOK
<1>7. ASSUME NEW r \in Readers, TakePacket(r) PROVE SessionInv'
  <2>1. /\ fifo # <<>> /\ fifo' = Tail(fifo) /\ fifo \in Seq(Packet)
        /\ UNCHANGED <<enabled, apc, session>>
    BY <1>7 DEF TakePacket, TypeOK
  <2>2. \A i \in 1..Len(fifo') : fifo'[i].session = session
    BY <2>1, TailFacts DEF SessionInv, NoStalePackets
  <2> QED
    BY <2>1, <2>2 DEF SessionInv, Gated, NoStalePackets
<1>8. ASSUME NEW r \in Readers,
         \/ ReadBegin(r) \/ PollCanceled(r) \/ PollNotCanceled(r)
         \/ PollRegister(r) \/ PollReadable(r) \/ PollEmpty(r)
         \/ PollWoken(r) \/ PollInterrupted(r) \/ ReadAccept(r)
         \/ ReadRefuse(r) \/ TakeNone(r) \/ FillFault(r) \/ FillLoad(r)
         \/ FillStore(r) \/ FillLength(r) \/ ReadFinish(r)
         \/ PollFails(r) \/ ReadAgain(r)
       PROVE SessionInv'
  BY <1>8 DEF PollFails, ReadAgain, ReadBegin, PollCanceled, PollNotCanceled, PollRegister, PollReadable, PollEmpty,
     PollWoken, PollInterrupted, ReadAccept, ReadRefuse, TakeNone, FillFault, FillLoad,
     FillStore, FillLength, ReadFinish, RGoto, PollReturn, ReadReturn, SessionInv,
     Gated, NoStalePackets, TypeOK
<1>9. ASSUME CancelMark \/ CancelWake
       PROVE SessionInv'
  BY <1>9 DEF CancelMark, CancelWake, Wakeup, SessionInv, Gated, NoStalePackets, TypeOK
<1>10. ASSUME UNCHANGED vars PROVE SessionInv'
  BY <1>10 DEF vars, SessionInv, Gated, NoStalePackets, TypeOK
<1> QED
  BY <1>1, <1>2, <1>3, <1>4, <1>5, <1>6, <1>7, <1>8, <1>9, <1>10 DEF Next, Send, Close, Poll, Read

-----------------------------------------------------------------------------
\* Only the reader itself and the flush take packets away, and the flush
\* comes with a shut gate or, later, another session.
LEMMA PromiseStep ==
  ASSUME IInv, [Next]_vars
  PROVE  PromiseInv'
<1> USE TxAssumption DEF IInv, queue, wait_queue, stats, device, sender, admin, reader,
                         cancel, history, locals, others
<1>1. ASSUME NEW s \in Senders, SendQueue(s) PROVE PromiseInv'
  BY <1>1 DEF SendQueue, SendBegin, SGoto, PromiseInv, PolledPast, ReadableUntilDown, TypeOK,
     SessionInv, Gated
<1>2. ASSUME NEW s \in Senders,
         \/ SendDrop(s) \/ SendCountDrop(s) \/ SendWake(s)
       PROVE PromiseInv'
  BY <1>2 DEF SendDrop, SendCountDrop, SendWake, SendBegin, SGoto, Wakeup, PromiseInv, PolledPast,
     ReadableUntilDown, TypeOK, SessionInv, Gated
<1>3. ASSUME OpenEnable PROVE PromiseInv'
  BY <1>3 DEF OpenEnable, PromiseInv, PolledPast, ReadableUntilDown, TypeOK, SessionInv, Gated
<1>4. ASSUME CloseDisable PROVE PromiseInv'
  BY <1>4 DEF CloseDisable, PromiseInv, PolledPast, ReadableUntilDown, TypeOK, SessionInv, Gated
<1>5. ASSUME CloseFlush PROVE PromiseInv'
  BY <1>5 DEF CloseFlush, PromiseInv, PolledPast, ReadableUntilDown, TypeOK, SessionInv, Gated
<1>6. ASSUME OpenStart \/ CloseLoad \/ CloseStore \/ CloseStop
       PROVE PromiseInv'
  BY <1>6 DEF OpenStart, CloseLoad, CloseStore, CloseStop, PromiseInv, PolledPast,
     ReadableUntilDown, TypeOK, SessionInv, Gated
<1>7. ASSUME NEW r \in Readers, PollReadable(r) PROVE PromiseInv'
  BY <1>7 DEF PollReadable, RGoto, PollReturn, PromiseInv, PolledPast, ReadableUntilDown, TypeOK,
     SessionInv, Gated
<1>8. ASSUME NEW r \in Readers, ReadAccept(r) PROVE PromiseInv'
  BY <1>8 DEF ReadAccept, RGoto, PromiseInv, PolledPast, ReadableUntilDown, TypeOK, SessionInv,
     Gated
<1>9. ASSUME NEW r \in Readers, ReadRefuse(r) PROVE PromiseInv'
  BY <1>9 DEF ReadRefuse, RGoto, ReadReturn, PromiseInv, PolledPast, ReadableUntilDown, TypeOK,
     SessionInv, Gated
<1>10. ASSUME NEW r \in Readers, TakePacket(r) PROVE PromiseInv'
  BY <1>10 DEF TakePacket, RGoto, PromiseInv, PolledPast, ReadableUntilDown, TypeOK, SessionInv,
     Gated
<1>11. ASSUME NEW r \in Readers, FillLength(r) PROVE PromiseInv'
  BY <1>11 DEF FillLength, RGoto, PromiseInv, PolledPast, ReadableUntilDown, TypeOK, SessionInv,
     Gated
<1>12. ASSUME NEW r \in Readers, ReadFinish(r) PROVE PromiseInv'
  <2>1. PICK label \in {"idle", "failed"} : rpc' = [rpc EXCEPT ![r] = label]
    BY <1>12, FinishFacts
  <2>2. polled' = [polled EXCEPT ![r] = 0] /\ UNCHANGED <<fifo, enabled, session>>
    BY <1>12, FinishFacts DEF ReadFinish
  <2>3. \A q \in Readers \ {r} : /\ rpc'[q] = rpc[q] /\ polled'[q] = polled[q]
                                /\ got'[q] = got[q]
    BY <2>1, <2>2, <1>12 DEF ReadFinish, TypeOK
  <2>4. rpc'[r] = label /\ polled'[r] = 0
    BY <2>1, <2>2 DEF TypeOK
  <2> QED
    BY <2>2, <2>3, <2>4 DEF PromiseInv, PolledPast, ReadableUntilDown, TypeOK
<1>13. ASSUME NEW r \in Readers,
         \/ ReadBegin(r) \/ PollCanceled(r) \/ PollNotCanceled(r)
         \/ PollRegister(r) \/ PollEmpty(r) \/ PollWoken(r)
         \/ PollInterrupted(r) \/ TakeNone(r) \/ FillFault(r)
         \/ FillLoad(r) \/ FillStore(r) \/ PollFails(r) \/ ReadAgain(r)
       PROVE PromiseInv'
  BY <1>13 DEF PollFails, ReadAgain, ReadBegin, PollCanceled, PollNotCanceled, PollRegister, PollEmpty, PollWoken,
     PollInterrupted, TakeNone, FillFault, FillLoad, FillStore, RGoto, PollReturn,
     PromiseInv, PolledPast, ReadableUntilDown, TypeOK, SessionInv, Gated
<1>14. ASSUME CancelMark \/ CancelWake
       PROVE PromiseInv'
  BY <1>14 DEF CancelMark, CancelWake, Wakeup, PromiseInv, PolledPast, ReadableUntilDown, TypeOK,
     SessionInv, Gated
<1>15. ASSUME UNCHANGED vars PROVE PromiseInv'
  BY <1>15 DEF vars, PromiseInv, PolledPast, ReadableUntilDown, TypeOK, SessionInv, Gated
<1> QED
  BY <1>1, <1>2, <1>3, <1>4, <1>5, <1>6, <1>7, <1>8, <1>9, <1>10, <1>11, <1>12, <1>13,
     <1>14, <1>15 DEF Next, Send, Close, Poll, Read

-----------------------------------------------------------------------------
\* The loop of io_read_to_iovec ends with a packet or with an error.
LEMMA CountStep ==
  ASSUME IInv, [Next]_vars
  PROVE  CountInv'
<1> USE TxAssumption DEF IInv, queue, wait_queue, stats, device, sender, admin, reader,
                         cancel, history, locals, others
<1>1. ASSUME NEW s \in Senders,
         \/ SendDrop(s) \/ SendCountDrop(s) \/ SendQueue(s)
         \/ SendWake(s)
       PROVE CountInv'
  BY <1>1 DEF SendDrop, SendCountDrop, SendQueue, SendWake, SendBegin, SGoto, Wakeup, CountInv,
     Counting, ReadCount, TypeOK
<1>2. ASSUME
         \/ OpenEnable \/ OpenStart \/ CloseDisable \/ CloseFlush
         \/ CloseLoad \/ CloseStore \/ CloseStop
       PROVE CountInv'
  BY <1>2 DEF OpenEnable, OpenStart, CloseDisable, CloseFlush, CloseLoad, CloseStore, CloseStop,
     CountInv, Counting, ReadCount, TypeOK
<1>3. ASSUME NEW r \in Readers, ReadAccept(r) PROVE CountInv'
  BY <1>3 DEF ReadAccept, RGoto, CountInv, Counting, ReadCount, TypeOK
<1>4. ASSUME NEW r \in Readers, ReadRefuse(r) PROVE CountInv'
  BY <1>4 DEF ReadRefuse, RGoto, ReadReturn, CountInv, Counting, ReadCount, TypeOK
<1>5. ASSUME NEW r \in Readers, TakePacket(r) PROVE CountInv'
  BY <1>5 DEF TakePacket, RGoto, CountInv, Counting, ReadCount, TypeOK
<1>6. ASSUME NEW r \in Readers, TakeNone(r) PROVE CountInv'
  <2>1. /\ rpc' = [rpc EXCEPT ![r] = "finish"] /\ got' = got
        /\ err' = [err EXCEPT ![r] = (got[r] = 0)]
    BY <1>6 DEF TakeNone, RGoto
  <2>2. \A q \in Readers \ {r} : rpc'[q] = rpc[q] /\ (err'[q] <=> err[q])
    BY <2>1 DEF TypeOK
  <2>3. rpc'[r] = "finish" /\ (~err'[r] => got[r] # 0)
    BY Zenon, <2>1 DEF TypeOK
  <2> QED
    BY <2>1, <2>2, <2>3 DEF CountInv, Counting, ReadCount, TypeOK
<1>7. ASSUME NEW r \in Readers, FillFault(r) PROVE CountInv'
  BY <1>7 DEF FillFault, RGoto, CountInv, Counting, ReadCount, TypeOK
<1>8. ASSUME NEW r \in Readers, FillLoad(r) PROVE CountInv'
  BY <1>8 DEF FillLoad, RGoto, CountInv, Counting, ReadCount, TypeOK
<1>9. ASSUME NEW r \in Readers, FillStore(r) PROVE CountInv'
  BY <1>9 DEF FillStore, RGoto, CountInv, Counting, ReadCount, TypeOK
<1>10. ASSUME NEW r \in Readers, FillLength(r) PROVE CountInv'
  <2>1. got[r] \in Nat /\ got[r] < Batch
    BY <1>10 DEF FillLength, CountInv, Counting, TypeOK
  <2>2. CASE got' = [got EXCEPT ![r] = got[r] + 1] /\ UNCHANGED err
             /\ RGoto(r, IF got[r] + 1 < Batch THEN "take" ELSE "finish")
    BY <2>1, <2>2 DEF RGoto, CountInv, Counting, ReadCount, TypeOK
  <2>3. CASE err' = [err EXCEPT ![r] = TRUE] /\ UNCHANGED got /\ RGoto(r, "finish")
    <3>1. \A q \in Readers : rpc'[q] = "finish" /\ ~err'[q] => q # r /\ rpc[q] = "finish" /\ ~err[q]
      BY <2>3 DEF RGoto, TypeOK
    <3> QED
      BY <2>1, <2>3, <3>1 DEF RGoto, CountInv, Counting, ReadCount, TypeOK
  <2> QED
    BY <1>10, <2>2, <2>3 DEF FillLength
<1>11. ASSUME NEW r \in Readers, ReadFinish(r) PROVE CountInv'
  BY <1>11 DEF ReadFinish, RGoto, ReadReturn, CountInv, Counting, ReadCount, TypeOK
<1>12. ASSUME NEW r \in Readers,
         \/ ReadBegin(r) \/ PollCanceled(r) \/ PollNotCanceled(r)
         \/ PollRegister(r) \/ PollReadable(r) \/ PollEmpty(r)
         \/ PollWoken(r) \/ PollInterrupted(r) \/ PollFails(r)
         \/ ReadAgain(r)
       PROVE CountInv'
  BY <1>12 DEF PollFails, ReadAgain, ReadBegin, PollCanceled, PollNotCanceled, PollRegister, PollReadable, PollEmpty,
     PollWoken, PollInterrupted, RGoto, PollReturn, CountInv, Counting, ReadCount,
     TypeOK
<1>13. ASSUME CancelMark \/ CancelWake
       PROVE CountInv'
  BY <1>13 DEF CancelMark, CancelWake, Wakeup, CountInv, Counting, ReadCount, TypeOK
<1>14. ASSUME UNCHANGED vars PROVE CountInv'
  BY <1>14 DEF vars, CountInv, Counting, ReadCount, TypeOK
<1> QED
  BY <1>1, <1>2, <1>3, <1>4, <1>5, <1>6, <1>7, <1>8, <1>9, <1>10, <1>11, <1>12, <1>13,
     <1>14 DEF Next, Send, Close, Poll, Read

-----------------------------------------------------------------------------
\* Every reachable state satisfies the inductive invariant.
THEOREM InductiveInvariant == Spec => []IInv
<1>1. Init => IInv
  BY InitIInv
<1>2. IInv /\ [Next]_vars => IInv'
  BY TypeStep, WakeStep, SessionStep, PromiseStep, CountStep DEF IInv
<1> QED
  BY <1>1, <1>2, PTL DEF Spec

\* The variables of the transmit path keep their types.
THEOREM TypeCorrect == Spec => []TypeOK
BY InductiveInvariant, PTL DEF IInv

\* A reader that sleeps beside a queued packet is about to be woken: calling
\* io_dev_wakeup after the unlock and poll_wait before the test is enough.
THEOREM WakeupNeverLost == Spec => []NoLostWakeup
BY InductiveInvariant, PTL DEF IInv, WakeInv

\* Disabling before flushing separates the sessions of the interface, whatever
\* the stack still sends while net_dev_close runs.
THEOREM SessionsSeparate == Spec => []NoStalePackets
BY InductiveInvariant, PTL DEF IInv, SessionInv

\* A lone reader gets EAGAIN after POLLIN only if the interface was closed.
THEOREM PollPromiseKept == Spec => []ReadableUntilDown
BY InductiveInvariant, PTL DEF IInv, PromiseInv

\* A kvnet_read that succeeds returns between one packet and Batch packets.
THEOREM SuccessReturnsPackets == Spec => []ReadCount
BY InductiveInvariant, PTL DEF IInv, CountInv

\* Every step of the transmit path is a step of the gated FIFO or leaves it.
THEOREM Refinement == Spec => ImplementsFifo
<1>1. Init => Promise!Init
  BY DEF Init, Promise!Init
<1>2. IInv /\ [Next]_vars => [Promise!Next]_(Promise!fifoVars)
  <2> SUFFICES ASSUME IInv, [Next]_vars, ~UNCHANGED <<fifo, enabled>>
               PROVE  Promise!Next
    BY DEF Promise!fifoVars
  <2>1. ASSUME NEW s \in Senders, SendQueue(s) PROVE Promise!Next
    <3>1. [id |-> sent, session |-> session] \in Packet
      BY DEF IInv, TypeOK, Packet
    <3> QED
      BY <2>1, <3>1 DEF SendQueue, Promise!Next, Promise!Offer
  <2>2. ASSUME NEW r \in Readers, TakePacket(r) PROVE Promise!Next
    BY <2>2 DEF TakePacket, Promise!Next, Promise!Take
  <2>3. ASSUME OpenEnable \/ CloseDisable PROVE Promise!Next
    BY <2>3 DEF OpenEnable, CloseDisable, Promise!Next, Promise!Gate
  <2>4. ASSUME CloseFlush PROVE Promise!Next
    <3>1. ~enabled
      BY <2>4 DEF CloseFlush, IInv, SessionInv, Gated
    <3> QED
      BY <2>4, <3>1 DEF CloseFlush, Promise!Next, Promise!Discard
  <2>5. CASE /\ ~(OpenEnable \/ CloseDisable \/ CloseFlush)
             /\ \A s \in Senders : ~SendQueue(s)
             /\ \A r \in Readers : ~TakePacket(r)
    BY <2>5 DEF Next, Send, Close, Poll, Read, SendDrop, SendCountDrop, SendWake,
       OpenStart, CloseLoad, CloseStore, CloseStop, ReadBegin, PollCanceled,
       PollNotCanceled, PollRegister, PollReadable, PollEmpty, PollWoken,
       PollInterrupted, PollFails, ReadAgain, ReadAccept, ReadRefuse, TakeNone, FillFault,
       FillLoad, FillStore, FillLength, ReadFinish, ReadReturn, CancelMark, CancelWake, queue, vars
  <2> QED
    BY <2>1, <2>2, <2>3, <2>4, <2>5
<1> QED
  BY <1>1, <1>2, InductiveInvariant, PTL DEF Spec, ImplementsFifo, Promise!Spec

-----------------------------------------------------------------------------
\* Where reader r is for DevicePromise, and whether it will hear of a packet.
At(r) ==
    CASE Outside(r) -> "out"
      [] rpc[r] \in {"poll", "register", "test", "wait"} -> rpc[r]
      [] OTHER -> "fetch"

Heard(r) == r \in triggered \/ (r \in waiting /\ \E s \in Senders : spc[s] = "wake")

\* The steps of DevicePromise, for one reader.
LEMMA ReaderSteps ==
  ASSUME NEW r \in Readers
  PROVE  /\ Reader(r)!Init <=>
               /\ ~canceled /\ ~(fifo # <<>>) /\ r \notin waiting /\ ~Heard(r)
               /\ At(r) = "out"
         /\ UNCHANGED <<canceled, fifo # <<>>, r \in waiting, Heard(r), At(r)>>
               => Reader(r)!Step
         /\ (fifo # <<>>)' = TRUE /\ Heard(r)' = (r \in waiting)
               /\ UNCHANGED <<canceled, r \in waiting, At(r)>> => Reader(r)!Step
         /\ (fifo # <<>>)' = FALSE /\ UNCHANGED <<canceled, r \in waiting, Heard(r), At(r)>>
               => Reader(r)!Step
         /\ canceled' = TRUE /\ UNCHANGED <<fifo # <<>>, r \in waiting, Heard(r), At(r)>>
               => Reader(r)!Step
         /\ Heard(r)' = (r \in waiting)
               /\ UNCHANGED <<canceled, fifo # <<>>, r \in waiting, At(r)>> => Reader(r)!Step
BY DEF Reader!Init, Reader!Step, Reader!Next, Reader!Offer, Reader!Drain, Reader!Cancel,
       Reader!Notify, Reader!vars, At, Heard, Outside

\* A step after which the reader sees nothing new.
LEMMA SeesNothing ==
  ASSUME NEW r \in Readers, canceled' = canceled, fifo' = fifo, waiting' = waiting,
         triggered' = triggered, rpc'[r] = rpc[r],
         \A s \in Senders : spc'[s] = "wake" <=> spc[s] = "wake"
  PROVE  Reader(r)!Step
<1>1. UNCHANGED <<canceled, fifo # <<>>, r \in waiting, Heard(r), At(r)>>
  BY DEF Heard, At, Outside
<1> QED
  BY <1>1, ReaderSteps

\* Every step of the driver is a step of the promise to each reader.
LEMMA ReaderStep ==
  ASSUME IInv, [Next]_vars, NEW r \in Readers
  PROVE  Reader(r)!Step
<1> USE DEF IInv, TypeOK, queue, wait_queue, stats, device, sender, admin, reader, cancel,
            history, locals, others, Outside
<1>1. ASSUME NEW s \in Senders, SendDrop(s) \/ SendCountDrop(s) PROVE Reader(r)!Step
  BY <1>1, SeesNothing DEF SendDrop, SendCountDrop, SendBegin, SGoto
<1>2. ASSUME NEW s \in Senders, SendQueue(s) PROVE Reader(r)!Step
  <2>1. spc'[s] = "wake" /\ UNCHANGED <<canceled, waiting, triggered, rpc>>
    BY <1>2 DEF SendQueue, SGoto
  <2>2. fifo' # <<>>
    <3>1. [id |-> sent, session |-> session] \in Packet
      BY DEF Packet
    <3> QED
      BY <3>1, <1>2, AppendFacts DEF SendQueue
  <2>3. Heard(r)' = (r \in waiting) /\ UNCHANGED <<canceled, r \in waiting, At(r)>>
    BY <2>1 DEF Heard, At
  <2> QED
    BY <2>2, <2>3, ReaderSteps
<1>3. ASSUME NEW s \in Senders, SendWake(s) PROVE Reader(r)!Step
  <2>1. /\ spc[s] = "wake" /\ triggered' = waiting
        /\ UNCHANGED <<canceled, fifo, waiting, rpc>>
    BY <1>3 DEF SendWake, Wakeup
  <2>2. UNCHANGED <<canceled, fifo # <<>>, r \in waiting, Heard(r), At(r)>>
    BY <2>1 DEF Heard, At
  <2> QED
    BY <2>2, ReaderSteps
<1>4. ASSUME OpenEnable \/ OpenStart \/ CloseDisable \/ CloseLoad \/ CloseStore \/ CloseStop
      PROVE Reader(r)!Step
  BY <1>4, SeesNothing DEF OpenEnable, OpenStart, CloseDisable, CloseLoad, CloseStore, CloseStop
<1>5. ASSUME CloseFlush PROVE Reader(r)!Step
  <2>1. (fifo # <<>>)' = FALSE /\ UNCHANGED <<canceled, r \in waiting, Heard(r), At(r)>>
    BY <1>5 DEF CloseFlush, Heard, At
  <2> QED
    BY <2>1, ReaderSteps
<1>6. ASSUME NEW q \in Readers, TakePacket(q) PROVE Reader(r)!Step
  <2>1. UNCHANGED <<canceled, r \in waiting, Heard(r), At(r)>>
    BY <1>6 DEF TakePacket, RGoto, Heard, At
  <2>2. (fifo # <<>>)' = FALSE \/ (fifo # <<>>)' = (fifo # <<>>)
    BY <1>6 DEF TakePacket
  <2> QED
    BY <2>1, <2>2, ReaderSteps
<1>7. ASSUME NEW q \in Readers,
             Poll(q) \/ PollInterrupted(q) \/ PollFails(q) \/ ReadAgain(q) \/ Read(q),
             ~TakePacket(q), q # r
      PROVE  Reader(r)!Step
  <2>1. /\ rpc'[r] = rpc[r] /\ UNCHANGED <<canceled, fifo, spc>>
        /\ r \in waiting' <=> r \in waiting
        /\ r \in triggered' <=> r \in triggered
    BY <1>7 DEF Poll, Read, ReadBegin, PollCanceled, PollNotCanceled, PollRegister,
       PollReadable, PollEmpty, PollWoken, PollInterrupted, PollFails, ReadAgain, PollReturn,
       RGoto, ReadReturn, ReadAccept, ReadRefuse, TakeNone, FillFault, FillLoad, FillStore, FillLength,
       ReadFinish
  <2>2. UNCHANGED <<canceled, fifo # <<>>, r \in waiting, Heard(r), At(r)>>
    BY <2>1 DEF Heard, At
  <2> QED
    BY <2>2, ReaderSteps
<1>8. ASSUME Poll(r) \/ PollInterrupted(r) \/ PollFails(r) \/ ReadAgain(r)
      PROVE  Reader(r)!Step
  <2> USE DEF Reader!Step, Reader!Next
  <2>1. CASE ReadBegin(r)
    <3>1. Reader(r)!PollBegin
      BY <2>1 DEF ReadBegin, RGoto, Reader!PollBegin
    <3> QED
      BY <3>1
  <2>2. CASE PollNotCanceled(r)
    <3>1. Reader(r)!PollGoesOn
      BY <2>2 DEF PollNotCanceled, RGoto, Reader!PollGoesOn
    <3> QED
      BY <3>1
  <2>3. CASE PollRegister(r)
    <3>1. Reader(r)!PollRegister
      BY <2>3 DEF PollRegister, RGoto, Reader!PollRegister
    <3> QED
      BY <3>1
  <2>4. CASE PollEmpty(r)
    <3>1. Reader(r)!PollEmpty
      BY <2>4 DEF PollEmpty, RGoto, Reader!PollEmpty
    <3> QED
      BY <3>1
  <2>5. CASE PollWoken(r)
    <3>1. Reader(r)!PollWoken
      BY <2>5 DEF PollWoken, RGoto, Reader!PollWoken
    <3> QED
      BY <3>1
  <2>6. CASE PollCanceled(r)
    <3>1. Reader(r)!PollCanceled
      BY <2>6 DEF PollCanceled, PollReturn, RGoto, Reader!PollCanceled, Reader!PollReturn
    <3> QED
      BY <3>1
  <2>7. CASE PollReadable(r)
    <3>1. Reader(r)!PollReadable
      BY <2>7 DEF PollReadable, PollReturn, RGoto, Reader!PollReadable, Reader!PollReturn
    <3> QED
      BY <3>1
  <2>8. CASE PollInterrupted(r)
    <3>1. Reader(r)!PollInterrupted
      BY <2>8 DEF PollInterrupted, PollReturn, RGoto, Reader!PollInterrupted, Reader!PollReturn
    <3> QED
      BY <3>1
  <2>9. CASE PollFails(r)
    <3>1. Reader(r)!PollFails
      BY <2>9 DEF PollFails, RGoto, Reader!PollFails, Reader!PollReturn
    <3> QED
      BY <3>1
  <2>10. CASE ReadAgain(r)
    <3>1. Reader(r)!PollBegin
      BY <2>10 DEF ReadAgain, RGoto, Reader!PollBegin
    <3> QED
      BY <3>1
  <2> QED
    BY <1>8, <2>1, <2>2, <2>3, <2>4, <2>5, <2>6, <2>7, <2>8, <2>9, <2>10 DEF Poll
<1>9. ASSUME Read(r), ~TakePacket(r) PROVE Reader(r)!Step
  <2>1. UNCHANGED <<canceled, fifo, waiting, triggered, spc>>
    BY <1>9 DEF Read, ReadReturn, ReadAccept, ReadRefuse, TakeNone, FillFault, FillLoad,
       FillStore, FillLength, ReadFinish
  <2>2. CASE ReadRefuse(r) \/ ReadFinish(r)
    <3>1. rpc[r] \in {"enter", "finish"} /\ rpc'[r] \in {"idle", "failed"}
      BY <2>2 DEF ReadRefuse, ReadFinish, ReadReturn, RGoto
    <3>2. Reader(r)!ReadReturn
      BY <2>1, <3>1 DEF Reader!ReadReturn
    <3> QED
      BY <3>2 DEF Reader!Step, Reader!Next
  <2>3. CASE ~(ReadRefuse(r) \/ ReadFinish(r))
    <3>1. /\ rpc[r] \in {"enter", "take", "fill", "store", "length"}
          /\ rpc'[r] \in {"take", "fill", "store", "length", "finish"}
      BY <1>9, <2>3 DEF Read, ReadAccept, TakeNone, FillFault, FillLoad, FillStore,
         FillLength, RGoto
    <3>2. UNCHANGED <<canceled, fifo # <<>>, r \in waiting, Heard(r), At(r)>>
      BY <2>1, <3>1 DEF Heard, At
    <3> QED
      BY <3>2, ReaderSteps
  <2> QED
    BY <2>2, <2>3
<1>10. ASSUME CancelMark PROVE Reader(r)!Step
  <2>1. canceled' = TRUE /\ UNCHANGED <<fifo # <<>>, r \in waiting, Heard(r), At(r)>>
    BY <1>10 DEF CancelMark, Heard, At
  <2> QED
    BY <2>1, ReaderSteps
<1>11. ASSUME CancelWake PROVE Reader(r)!Step
  <2>1. /\ Heard(r)' = (r \in waiting)
        /\ UNCHANGED <<canceled, fifo # <<>>, r \in waiting, At(r)>>
    BY <1>11 DEF CancelWake, Wakeup, Heard, At
  <2> QED
    BY <2>1, ReaderSteps
<1>12. CASE UNCHANGED vars
  BY <1>12, SeesNothing DEF vars
<1> QED
  BY <1>1, <1>2, <1>3, <1>4, <1>5, <1>6, <1>7, <1>8, <1>9, <1>10, <1>11, <1>12
     DEF Next, Send, Close

\* The driver keeps the promise that KvnetClient relies on, to every reader.
THEOREM PromiseKept == Spec => KeepsPromise
<1>1. Init => \A r \in Readers : Reader(r)!Init
  BY ReaderSteps DEF Init, At, Heard, Outside
<1>2. IInv /\ [Next]_vars => [\A r \in Readers : Reader(r)!Step]_vars
  BY ReaderStep
<1> QED
  BY <1>1, <1>2, InductiveInvariant, PTL DEF Spec, KeepsPromise
=============================================================================
