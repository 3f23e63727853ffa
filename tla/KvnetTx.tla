------------------------------ MODULE KvnetTx ------------------------------
(***************************************************************************)
(* The transmit path of the kvnet driver while its character device is     *)
(* open: the network stack hands packets to net_dev_send, the interface    *)
(* is brought up and down (net_dev_open, net_dev_close), threads of the    *)
(* program fetch the packets with kvnet_read (poll, then read), and one    *)
(* thread may cancel the pending reads (the KVNET_IOCTL_CANCEL_PENDING_    *)
(* READ ioctl).                                                            *)
(*                                                                         *)
(* The queue is the bounded FIFO of PacketFifo: KvnetQueue shows that the  *)
(* linked list under queue.lock implements it, so that here a critical     *)
(* section is one step.  What is not under the lock is cut at every access *)
(* to shared data: the wait queue, the canceled flag, the statistics.      *)
(***************************************************************************)
EXTENDS Naturals, Sequences, FiniteSets

CONSTANTS Senders,      \* contexts that call net_dev_send
          Readers,      \* threads that call kvnet_read
          TxQueueLen,   \* dev->tx_queue_len
          Batch,        \* hdr->count: packets asked for by one kvnet_read
          KernelSerializes, \* whether the stack keeps its promise to drivers:
                        \* one ndo_start_xmit at a time, none outside an
                        \* interface that is up.  FALSE: nothing is promised.
          MaxPackets,   \* bound: packets handed to net_dev_send
          MaxSessions   \* bound: times the interface is brought up

ASSUME TxAssumption ==
    /\ TxQueueLen \in Nat /\ Batch \in Nat \ {0}
    /\ MaxPackets \in Nat /\ MaxSessions \in Nat
    /\ KernelSerializes \in BOOLEAN

VARIABLES
    fifo, enabled,          \* vnet->net_dev.queue
    canceled,               \* vnet->io_dev.canceled
    waiting, triggered,     \* readers on wait_queue; those of them it woke
    tx_packets, tx_dropped, \* vnet->net_dev.stats
    connected, xoff,        \* net_dev.connected; the stopped bit of the device
    spc, sload,             \* senders: position, value of tx_dropped loaded
    apc, aload, flushed,    \* net_dev_open / net_dev_close, the same; packets flushed
    rpc, rload, got, err,   \* readers: position, tx_packets loaded, ret, ret < 0
    cpc                     \* the cancelling thread

\* History: the number of times the interface was brought up, the session
\* in which poll last reported data to each reader, the packets handed to
\* net_dev_send and those a reader lost to a fault before they were counted.
VARIABLES session, polled, sent, faulted

queue == <<fifo, enabled>>
wait_queue == <<waiting, triggered>>
stats == <<tx_packets, tx_dropped>>
device == <<connected, xoff>>
sender == <<spc, sload>>
admin == <<apc, aload, flushed>>
reader == <<rpc, rload, got, err>>
cancel == <<canceled, cpc>>
locals == <<rload, got, err>>
others == <<sender, admin, cancel>>
history == <<session, polled, sent, faulted>>
vars == <<queue, wait_queue, stats, device, sender, admin, reader, cancel, history>>

Init ==
    /\ fifo = <<>> /\ enabled = FALSE
    /\ canceled = FALSE /\ waiting = {} /\ triggered = {}
    /\ tx_packets = 0 /\ tx_dropped = 0
    /\ connected = FALSE /\ xoff = FALSE
    /\ spc = [s \in Senders |-> "out"] /\ sload = [s \in Senders |-> 0]
    /\ apc = "down" /\ aload = 0 /\ flushed = 0
    /\ rpc = [r \in Readers |-> "idle"] /\ rload = [r \in Readers |-> 0]
    /\ got = [r \in Readers |-> 0] /\ err = [r \in Readers |-> FALSE]
    /\ cpc = "ready"
    /\ session = 0 /\ polled = [r \in Readers |-> 0] /\ sent = 0 /\ faulted = 0

\* A dropping sender updates tx_dropped before it releases queue.lock.
LockFree == \A s \in Senders : spc[s] # "drop"

\* io_dev_wakeup: wake_up_interruptible reaches everyone on the wait queue.
Wakeup == triggered' = waiting /\ UNCHANGED waiting

SGoto(s, label) == spc' = [spc EXCEPT ![s] = label]
RGoto(r, label) == rpc' = [rpc EXCEPT ![r] = label]

-----------------------------------------------------------------------------
\* net_dev_send.

MayTransmit ==
    KernelSerializes => apc = "up" /\ ~xoff /\ \A s \in Senders : spc[s] = "out"

SendBegin(s) ==
    /\ spc[s] = "out" /\ MayTransmit /\ LockFree
    /\ sent < MaxPackets
    /\ sent' = sent + 1

\* Mutant: the packet is freed but not counted.
Bug_SendDrop(s) ==
    /\ SendBegin(s)
    /\ ~enabled \/ Len(fifo) >= TxQueueLen
    /\ UNCHANGED <<queue, wait_queue, stats, device, spc, sload, admin, reader, cancel,
                   session, polled, faulted>>

SendDrop(s) ==
    /\ SendBegin(s)
    /\ ~enabled \/ Len(fifo) >= TxQueueLen
    /\ sload' = [sload EXCEPT ![s] = tx_dropped]
    /\ SGoto(s, "drop")
    /\ UNCHANGED <<queue, wait_queue, stats, device, admin, reader, cancel,
                   session, polled, faulted>>

SendCountDrop(s) ==
    /\ spc[s] = "drop"
    /\ tx_dropped' = sload[s] + 1
    /\ sload' = [sload EXCEPT ![s] = 0]
    /\ SGoto(s, "out")
    /\ UNCHANGED <<queue, wait_queue, tx_packets, device, admin, reader, cancel, history>>

\* Mutants: nobody is woken; one packet too many is let in.
Bug_SendQueueSilent(s) ==
    /\ SendBegin(s)
    /\ enabled /\ Len(fifo) < TxQueueLen
    /\ fifo' = Append(fifo, [id |-> sent, session |-> session])
    /\ UNCHANGED <<enabled, wait_queue, stats, device, spc, sload, admin, reader,
                   cancel, session, polled, faulted>>

Bug_SendQueueFull(s) ==
    /\ SendBegin(s)
    /\ enabled /\ Len(fifo) <= TxQueueLen
    /\ fifo' = Append(fifo, [id |-> sent, session |-> session])
    /\ SGoto(s, "wake")
    /\ UNCHANGED <<enabled, wait_queue, stats, device, sload, admin, reader,
                   cancel, session, polled, faulted>>

SendQueue(s) ==
    /\ SendBegin(s)
    /\ enabled /\ Len(fifo) < TxQueueLen
    /\ fifo' = Append(fifo, [id |-> sent, session |-> session])
    /\ SGoto(s, "wake")
    /\ UNCHANGED <<enabled, wait_queue, stats, device, sload, admin, reader,
                   cancel, session, polled, faulted>>

\* The lock is released before io_dev_wakeup is called.
SendWake(s) ==
    /\ spc[s] = "wake"
    /\ Wakeup
    /\ SGoto(s, "out")
    /\ UNCHANGED <<queue, stats, device, sload, admin, reader, cancel, history>>

Send(s) == SendDrop(s) \/ SendCountDrop(s) \/ SendQueue(s) \/ SendWake(s)

-----------------------------------------------------------------------------
\* net_dev_open and net_dev_close, called by the stack one at a time.

OpenEnable ==
    /\ apc = "down" /\ LockFree
    /\ session < MaxSessions
    /\ session' = session + 1
    /\ enabled' = TRUE
    /\ apc' = "starting"
    /\ UNCHANGED <<fifo, wait_queue, stats, device, sender, aload, flushed, reader,
                   cancel, polled, sent, faulted>>

OpenStart ==
    /\ apc = "starting"
    /\ xoff' = FALSE /\ connected' = TRUE
    /\ apc' = "up"
    /\ UNCHANGED <<queue, wait_queue, stats, sender, aload, flushed, reader, cancel,
                   history>>

\* Mutant: net_dev_close forgets queue_enable(0).
Bug_CloseDisable ==
    /\ apc = "up" /\ LockFree
    /\ KernelSerializes => \A s \in Senders : spc[s] = "out"
    /\ apc' = "flush"
    /\ UNCHANGED <<queue, wait_queue, stats, device, sender, aload, flushed, reader,
                   cancel, history>>

CloseDisable ==
    /\ apc = "up" /\ LockFree
    /\ KernelSerializes => \A s \in Senders : spc[s] = "out"
    /\ enabled' = FALSE
    /\ apc' = "flush"
    /\ UNCHANGED <<fifo, wait_queue, stats, device, sender, aload, flushed, reader,
                   cancel, history>>

\* Mutant: the removal that finds the queue empty is counted too.
Bug_CloseFlush ==
    /\ apc = "flush" /\ LockFree
    /\ fifo' = <<>>
    /\ flushed' = Len(fifo) + 1
    /\ apc' = "load"
    /\ UNCHANGED <<enabled, wait_queue, stats, device, sender, aload, reader, cancel,
                   history>>

\* net_dev_flush_tx_queue empties the queue under the lock and counts what it
\* dropped after it released the lock.
CloseFlush ==
    /\ apc = "flush" /\ LockFree
    /\ fifo' = <<>>
    /\ flushed' = Len(fifo)
    /\ apc' = "load"
    /\ UNCHANGED <<enabled, wait_queue, stats, device, sender, aload, reader, cancel,
                   history>>

CloseLoad ==
    /\ apc = "load"
    /\ aload' = tx_dropped
    /\ apc' = "store"
    /\ UNCHANGED <<queue, wait_queue, stats, device, sender, flushed, reader, cancel,
                   history>>

\* Mutant: the flushed packets are subtracted.
Bug_CloseStore ==
    /\ apc = "store"
    /\ tx_dropped' = aload - flushed
    /\ aload' = 0 /\ flushed' = 0
    /\ apc' = "stop"
    /\ UNCHANGED <<queue, wait_queue, tx_packets, device, sender, reader, cancel, history>>

CloseStore ==
    /\ apc = "store"
    /\ tx_dropped' = aload + flushed
    /\ aload' = 0 /\ flushed' = 0
    /\ apc' = "stop"
    /\ UNCHANGED <<queue, wait_queue, tx_packets, device, sender, reader, cancel, history>>

CloseStop ==
    /\ apc = "stop"
    /\ xoff' = TRUE /\ connected' = FALSE
    /\ apc' = "down"
    /\ UNCHANGED <<queue, wait_queue, stats, sender, aload, flushed, reader, cancel,
                   history>>

Close == CloseDisable \/ CloseFlush \/ CloseLoad \/ CloseStore \/ CloseStop

-----------------------------------------------------------------------------
\* kvnet_read: poll without a timeout, io_dev_poll inside it.

\* poll returns to user space: the reader leaves the wait queue.
PollReturn(r, label) ==
    /\ waiting' = waiting \ {r} /\ triggered' = triggered \ {r}
    /\ RGoto(r, label)

ReadBegin(r) ==
    /\ rpc[r] = "idle"
    /\ RGoto(r, "poll")
    /\ UNCHANGED <<queue, wait_queue, stats, device, others, locals, history>>

\* A canceled device reports POLLERR before poll_wait: kvnet_read fails.
PollCanceled(r) ==
    /\ rpc[r] = "poll" /\ canceled
    /\ PollReturn(r, "failed")
    /\ UNCHANGED <<queue, stats, device, others, locals, history>>

PollNotCanceled(r) ==
    /\ rpc[r] = "poll" /\ ~canceled
    /\ RGoto(r, "register")
    /\ UNCHANGED <<queue, wait_queue, stats, device, others, locals, history>>

\* poll_wait.
PollRegister(r) ==
    /\ rpc[r] = "register"
    /\ waiting' = waiting \cup {r}
    /\ RGoto(r, "test")
    /\ UNCHANGED <<queue, triggered, stats, device, others, locals, history>>

\* Mutant: POLLIN whatever queue_is_empty says.
Bug_PollReadable(r) ==
    /\ rpc[r] = "test" /\ LockFree
    /\ PollReturn(r, "enter")
    /\ polled' = [polled EXCEPT ![r] = session]
    /\ UNCHANGED <<queue, stats, device, others, locals, session, sent, faulted>>

\* queue_is_empty says no: POLLIN.
PollReadable(r) ==
    /\ rpc[r] = "test" /\ LockFree
    /\ fifo # <<>>
    /\ PollReturn(r, "enter")
    /\ polled' = [polled EXCEPT ![r] = session]
    /\ UNCHANGED <<queue, stats, device, others, locals, session, sent, faulted>>

PollEmpty(r) ==
    /\ rpc[r] = "test" /\ LockFree
    /\ fifo = <<>>
    /\ RGoto(r, "wait")
    /\ UNCHANGED <<queue, wait_queue, stats, device, others, locals, history>>

\* A woken poll asks io_dev_poll again, still on the wait queue.
PollWoken(r) ==
    /\ rpc[r] = "wait" /\ r \in triggered
    /\ triggered' = triggered \ {r}
    /\ RGoto(r, "poll")
    /\ UNCHANGED <<queue, waiting, stats, device, others, locals, history>>

\* EINTR: kvnet_read calls poll again from the start.
PollInterrupted(r) ==
    /\ rpc[r] = "wait"
    /\ PollReturn(r, "poll")
    /\ UNCHANGED <<queue, stats, device, others, locals, history>>

\* poll fails before it asks io_dev_poll (no memory, a bad address).
PollFails(r) ==
    /\ rpc[r] = "poll" /\ r \notin waiting
    /\ RGoto(r, "failed")
    /\ UNCHANGED <<queue, wait_queue, stats, device, others, locals, history>>

\* The program calls kvnet_read again although the last call failed.
ReadAgain(r) ==
    /\ rpc[r] = "failed"
    /\ RGoto(r, "poll")
    /\ UNCHANGED <<queue, wait_queue, stats, device, others, locals, history>>

Poll(r) ==
    \/ ReadBegin(r) \/ PollCanceled(r) \/ PollNotCanceled(r) \/ PollRegister(r)
    \/ PollReadable(r) \/ PollEmpty(r) \/ PollWoken(r)

-----------------------------------------------------------------------------
\* read: io_read_to_iovec.

ReadReturn(r, label) ==
    /\ RGoto(r, label)
    /\ polled' = [polled EXCEPT ![r] = 0]

\* The header is fetched and checked, or the read fails before it starts
\* (EINVAL, ENOMEM, EFAULT).
ReadAccept(r) ==
    /\ rpc[r] = "enter"
    /\ RGoto(r, "take")
    /\ UNCHANGED <<queue, wait_queue, stats, device, others, locals, history>>

ReadRefuse(r) ==
    /\ rpc[r] = "enter"
    /\ ReadReturn(r, "failed")
    /\ UNCHANGED <<queue, wait_queue, stats, device, others, locals, session, sent, faulted>>

TakePacket(r) ==
    /\ rpc[r] = "take" /\ LockFree
    /\ fifo # <<>>
    /\ fifo' = Tail(fifo)
    /\ RGoto(r, "fill")
    /\ UNCHANGED <<enabled, wait_queue, stats, device, others, locals, history>>

\* Mutant: no EAGAIN.
Bug_TakeNone(r) ==
    /\ rpc[r] = "take" /\ LockFree
    /\ fifo = <<>>
    /\ RGoto(r, "finish")
    /\ UNCHANGED <<queue, wait_queue, stats, device, others, locals, history>>

\* No packet: EAGAIN if none was read before.
TakeNone(r) ==
    /\ rpc[r] = "take" /\ LockFree
    /\ fifo = <<>>
    /\ err' = [err EXCEPT ![r] = (got[r] = 0)]
    /\ RGoto(r, "finish")
    /\ UNCHANGED <<queue, wait_queue, stats, device, others, rload, got, history>>

\* io_read_fill_network_packet: a fault before tx_packets is counted loses
\* the packet, as does one after it; the statistics take a load and a store.
FillFault(r) ==
    /\ rpc[r] = "fill"
    /\ faulted' = faulted + 1
    /\ err' = [err EXCEPT ![r] = TRUE]
    /\ RGoto(r, "finish")
    /\ UNCHANGED <<queue, wait_queue, stats, device, others, rload, got, session,
                   polled, sent>>

FillLoad(r) ==
    /\ rpc[r] = "fill"
    /\ rload' = [rload EXCEPT ![r] = tx_packets]
    /\ RGoto(r, "store")
    /\ UNCHANGED <<queue, wait_queue, stats, device, others, got, err, history>>

FillStore(r) ==
    /\ rpc[r] = "store"
    /\ tx_packets' = rload[r] + 1
    /\ rload' = [rload EXCEPT ![r] = 0]
    /\ RGoto(r, "length")
    /\ UNCHANGED <<queue, wait_queue, tx_dropped, device, others, got, err, history>>

FillLength(r) ==
    /\ rpc[r] = "length"
    /\ \/ /\ got' = [got EXCEPT ![r] = got[r] + 1]
          /\ RGoto(r, IF got[r] + 1 < Batch THEN "take" ELSE "finish")
          /\ UNCHANGED err
       \/ /\ err' = [err EXCEPT ![r] = TRUE]
          /\ RGoto(r, "finish")
          /\ UNCHANGED got
    /\ UNCHANGED <<queue, wait_queue, stats, device, others, rload, history>>

\* netif_wake_queue, then the count goes to user space; if that faults the
\* read fails, as it does after a fault before, and the packets are gone.
ReadFinish(r) ==
    /\ rpc[r] = "finish"
    /\ xoff' = FALSE
    /\ got' = [got EXCEPT ![r] = 0] /\ err' = [err EXCEPT ![r] = FALSE]
    /\ \/ ~err[r] /\ ReadReturn(r, "idle")
       \/ ReadReturn(r, "failed")
    /\ UNCHANGED <<queue, wait_queue, stats, connected, others, rload, session, sent,
                   faulted>>

Read(r) ==
    \/ ReadAccept(r) \/ ReadRefuse(r) \/ TakePacket(r) \/ TakeNone(r)
    \/ FillFault(r) \/ FillLoad(r) \/ FillStore(r) \/ FillLength(r) \/ ReadFinish(r)

-----------------------------------------------------------------------------
\* KVNET_IOCTL_CANCEL_PENDING_READ.  The program cancels once.

CancelMark ==
    /\ cpc = "ready"
    /\ canceled' = TRUE
    /\ cpc' = "wake"
    /\ UNCHANGED <<queue, wait_queue, stats, device, sender, admin, reader, history>>

\* Mutant: nobody is woken.
Bug_CancelWake ==
    /\ cpc = "wake"
    /\ cpc' = "done"
    /\ UNCHANGED <<queue, wait_queue, stats, device, sender, admin, reader, canceled,
                   history>>

CancelWake ==
    /\ cpc = "wake"
    /\ Wakeup
    /\ cpc' = "done"
    /\ UNCHANGED <<queue, stats, device, sender, admin, reader, canceled, history>>

Next ==
    \/ \E s \in Senders : Send(s)
    \/ OpenEnable \/ OpenStart \/ Close
    \/ \E r \in Readers :
          Poll(r) \/ PollInterrupted(r) \/ PollFails(r) \/ ReadAgain(r) \/ Read(r)
    \/ CancelMark \/ CancelWake

Spec == Init /\ [][Next]_vars

\* Every call that was begun goes on, and a reader calls kvnet_read again after
\* a read that succeeded; the loop of the example ends at the first that fails
\* (main.cpp, pktLoop), so nothing makes it call once more.  Nor does anything
\* make the stack send, the interface change its state, the program cancel, or
\* a signal arrive.
Fairness ==
    /\ \A s \in Senders : WF_vars(SendCountDrop(s) \/ SendWake(s))
    /\ WF_vars(OpenStart) /\ WF_vars(CloseFlush \/ CloseLoad \/ CloseStore \/ CloseStop)
    /\ \A r \in Readers : WF_vars(Poll(r) \/ Read(r))
    /\ WF_vars(CancelWake)

FairSpec == Spec /\ Fairness

-----------------------------------------------------------------------------
Packet == [id : 0..MaxPackets, session : 0..MaxSessions]

\* Types of the queue, of the shared flags and of the position of each actor.
TypeOK ==
    /\ fifo \in Seq(Packet) /\ enabled \in BOOLEAN
    /\ canceled \in BOOLEAN
    /\ waiting \in SUBSET Readers /\ triggered \in SUBSET waiting
    /\ tx_packets \in Nat /\ tx_dropped \in Nat
    /\ connected \in BOOLEAN /\ xoff \in BOOLEAN
    /\ spc \in [Senders -> {"out", "drop", "wake"}] /\ sload \in [Senders -> Nat]
    /\ apc \in {"down", "starting", "up", "flush", "load", "store", "stop"}
    /\ aload \in Nat /\ flushed \in Nat
    /\ rpc \in [Readers -> {"idle", "failed", "poll", "register", "test", "wait", "enter", "take",
                            "fill", "store", "length", "finish"}]
    /\ rload \in [Readers -> Nat] /\ got \in [Readers -> Nat]
    /\ err \in [Readers -> BOOLEAN]
    /\ cpc \in {"ready", "wake", "done"}
    /\ session \in 0..MaxSessions /\ polled \in [Readers -> 0..MaxSessions]
    /\ sent \in 0..MaxPackets /\ faulted \in Nat

\* No lost wakeup: io_dev_wakeup runs after the lock is released and poll_wait
\* before queue_is_empty, so when a reader sleeps although there are packets,
\* the wakeup that will reach it is still to come.
NoLostWakeup ==
    \A r \in Readers :
        rpc[r] = "wait" /\ r \notin triggered /\ fifo # <<>>
            => r \in waiting /\ \E s \in Senders : spc[s] = "wake"

\* net_dev_close disables the queue before it flushes it, in two critical
\* sections: a packet of an earlier session is never left for the next one,
\* and nothing is queued once the flush is over, even if the stack still sends.
NoStalePackets ==
    /\ \A i \in 1..Len(fifo) : fifo[i].session = session
    /\ apc \in {"down", "load", "store", "stop"} => fifo = <<>>

\* What poll promised to a lone reader holds: read answers EAGAIN only if the
\* interface was closed since.
ReadableUntilDown ==
    \A r \in Readers :
        /\ rpc[r] \in {"enter", "take"} /\ (rpc[r] = "take" => got[r] = 0)
        /\ \A q \in Readers : q = r
        => fifo # <<>> \/ ~enabled \/ session # polled[r]

\* A read that succeeds returns at least one packet and at most Batch.
ReadCount ==
    \A r \in Readers :
        /\ got[r] <= Batch
        /\ rpc[r] = "finish" /\ ~err[r] => got[r] > 0

\* The packets that were handed to net_dev_send and are in none of the
\* counters because their drop or their delivery is being counted.
BeingCounted ==
    Cardinality({s \in Senders : spc[s] = "drop"})
    + (IF apc \in {"load", "store"} THEN flushed ELSE 0)
    + Cardinality({r \in Readers : rpc[r] \in {"fill", "store"}})

Accounted == Len(fifo) + tx_packets + tx_dropped + faulted + BeingCounted

\* Unlocked updates of the statistics may lose counts but never invent them:
\* the counters are at most the totals.
NeverOvercounted == Accounted <= sent

\* What vnet.h says of the statistics: they are totals.  The code does not
\* provide it: two readers that load tx_packets before either stores it count
\* two packets as one (io_read.c, io_read_fill_network_packet).
AllCounted == Accounted = sent

\* With one reader and a stack that keeps its promise every packet handed to
\* net_dev_send is queued, counted as sent, counted as dropped, or was lost to
\* a fault of the reader's memory: exactly one of them.
AccountingExact ==
    KernelSerializes /\ (\E r \in Readers : Readers = {r}) => AllCounted

\* Seen from outside its critical sections the queue is the bounded FIFO.
Promise == INSTANCE PacketFifo WITH Capacity <- TxQueueLen

ImplementsFifo == Promise!Spec

\* The reader is not in kvnet_read.
Outside(r) == rpc[r] \in {"idle", "failed"}

\* What a reader sees of the driver.  It is as good as woken when a sender that
\* queued a packet has yet to call io_dev_wakeup.
Reader(r) == INSTANCE DevicePromise WITH
    open <- TRUE,
    readable <- fifo # <<>>,
    listening <- r \in waiting,
    notified <- r \in triggered \/ (r \in waiting /\ \E s \in Senders : spc[s] = "wake"),
    at <- CASE Outside(r) -> "out"
            [] rpc[r] \in {"poll", "register", "test", "wait"} -> rpc[r]
            [] OTHER -> "fetch"

\* The driver keeps the promise to each reader, whoever else sends and reads.
KeepsPromise ==
    /\ \A r \in Readers : Reader(r)!Init
    /\ [][\A r \in Readers : Reader(r)!Step]_vars

InQueue(n) == \E i \in 1..Len(fifo) : fifo[i].id = n

\* Every queued packet is fetched or flushed, unless the program cancels or a
\* read fails: the packet may then wait for ever, for nobody reads again.
PacketsLeave ==
    \A n \in 0..MaxPackets - 1 :
        InQueue(n) ~> ~InQueue(n) \/ canceled \/ \E r \in Readers : rpc[r] = "failed"

\* A reader that is on the wait queue when the device is canceled, or when a
\* packet arrives after that, returns from kvnet_read.
CancelReturns ==
    \A r \in Readers :
        canceled /\ r \in waiting /\ (cpc = "wake" \/ \E s \in Senders : spc[s] = "wake")
            ~> Outside(r)

\* What the example program relies on (main.cpp, cancel_loop): canceling ends
\* any pending read.  The code does not provide it: a reader between the
\* check of canceled and poll_wait misses both the flag and the wakeup.
CancelEndsAnyRead == \A r \in Readers : cpc = "done" /\ ~Outside(r) ~> Outside(r)
=============================================================================
