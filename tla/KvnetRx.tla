------------------------------- MODULE KvnetRx -------------------------------
(***************************************************************************)
(* The receive path of kvnet: threads of the program hand batches of       *)
(* packets to the network stack with kvnet_write.  On the kvnet device the *)
(* driver takes the packets one by one (io_write_from_iovec); on a TAP     *)
(* device the library writes them one by one itself.                       *)
(*                                                                         *)
(* No lock is taken on this path.  Each copy, allocation and count is a    *)
(* step, and a call may fail in the middle of its batch; the program may   *)
(* then try the same batch again.                                          *)
(***************************************************************************)
EXTENDS Naturals, Sequences, FiniteSets

CONSTANTS Writers,      \* threads that call kvnet_write
          MaxCount,     \* bound: hdr->count, packets in a batch
          MaxCalls,     \* bound: batches of a thread
          MaxTries      \* bound: calls of kvnet_write for one batch

ASSUME RxAssumption ==
    /\ MaxCount \in Nat \ {0} /\ MaxCalls \in Nat /\ MaxTries \in Nat \ {0}

VARIABLES
    use_tap_dev,        \* the library's choice of device
    wpc,                \* position of each writer
    count, ret,         \* hdr->count, and the packets of it handed over so far
    told,               \* hdr->count in the program's memory after the call
    status,             \* what kvnet_write returned last
    skbs,               \* sk_buffs the driver has allocated and not given away
    rx_packets, rload   \* the statistics, and the value a writer loaded

\* History: the batch and the try each writer is at, what the stack got from
\* each writer, and how many packets it got from the driver.
VARIABLES batch, try, handed, total

call == <<use_tap_dev, count, told, status>>
stats == <<rx_packets, rload>>
history == <<batch, try, handed, total>>
vars == <<call, wpc, ret, skbs, stats, history>>

Init ==
    /\ use_tap_dev \in BOOLEAN
    /\ wpc = [w \in Writers |-> "idle"]
    /\ count = [w \in Writers |-> 0] /\ ret = [w \in Writers |-> 0]
    /\ told = [w \in Writers |-> 0] /\ status = [w \in Writers |-> "none"]
    /\ skbs = 0
    /\ rx_packets = 0 /\ rload = [w \in Writers |-> 0]
    /\ batch = [w \in Writers |-> 0] /\ try = [w \in Writers |-> 0]
    /\ handed = [w \in Writers |-> <<>>] /\ total = 0

Goto(w, label) == wpc' = [wpc EXCEPT ![w] = label]

\* The stack gets packet ret + 1 of the batch.
HandOver(w) ==
    handed' = [handed EXCEPT ![w] = Append(@, [batch |-> batch[w], n |-> ret[w] + 1])]

-----------------------------------------------------------------------------
\* kvnet_write: a batch, new or once more after an error.

WriteEnter(w) ==
    /\ wpc[w] = "idle"
    /\ ret' = [ret EXCEPT ![w] = 0]
    /\ told' = [told EXCEPT ![w] = 0]
    /\ status' = [status EXCEPT ![w] = "none"]
    /\ Goto(w, IF use_tap_dev THEN "tap" ELSE "enter")

WriteBatch(w) ==
    /\ WriteEnter(w)
    /\ batch[w] < MaxCalls
    /\ batch' = [batch EXCEPT ![w] = @ + 1]
    /\ try' = [try EXCEPT ![w] = 1]
    /\ \E n \in 1..MaxCount : count' = [count EXCEPT ![w] = n]
    /\ UNCHANGED <<use_tap_dev, skbs, stats, handed, total>>

WriteAgain(w) ==
    /\ WriteEnter(w)
    /\ status[w] = "error" /\ try[w] < MaxTries
    /\ try' = [try EXCEPT ![w] = @ + 1]
    /\ UNCHANGED <<use_tap_dev, count, skbs, stats, batch, handed, total>>

Return(w, s) ==
    /\ status' = [status EXCEPT ![w] = s]
    /\ Goto(w, "idle")

\* KVNET_WRITE_ERROR: hdr->count in the program's memory is not touched.
Fail(w) ==
    /\ Return(w, "error")
    /\ UNCHANGED <<use_tap_dev, count, ret, told, stats, history>>

-----------------------------------------------------------------------------
\* io_write_from_iovec.

\* The header is fetched and checked (EINVAL, ENOMEM, EFAULT).
HeaderAccept(w) ==
    /\ wpc[w] = "enter"
    /\ Goto(w, "alloc")
    /\ UNCHANGED <<call, ret, skbs, stats, history>>

HeaderRefuse(w) ==
    /\ wpc[w] = "enter"
    /\ Fail(w) /\ UNCHANGED skbs

\* get_user(data_len) and dev_alloc_skb.
AllocSkb(w) ==
    /\ wpc[w] = "alloc"
    /\ skbs' = skbs + 1
    /\ Goto(w, "copy")
    /\ UNCHANGED <<call, ret, stats, history>>

\* Mutants: the sk_buff that was not allocated is freed; the packet is left
\* out and the batch goes on.
Bug_AllocFailsFree(w) ==
    /\ wpc[w] = "alloc"
    /\ Fail(w) /\ skbs' = skbs - 1

Bug_AllocFails(w) ==
    /\ wpc[w] = "alloc"
    /\ ret' = [ret EXCEPT ![w] = @ + 1]
    /\ Goto(w, IF ret[w] + 1 < count[w] THEN "alloc" ELSE "finish")
    /\ UNCHANGED <<call, skbs, stats, history>>

AllocFails(w) ==
    /\ wpc[w] = "alloc"
    /\ Fail(w) /\ UNCHANGED skbs

\* Mutant: the sk_buff is not freed.
Bug_CopyFaults(w) ==
    /\ wpc[w] = "copy"
    /\ Fail(w) /\ UNCHANGED skbs

\* copy_from_user.
CopyFaults(w) ==
    /\ wpc[w] = "copy"
    /\ Fail(w) /\ skbs' = skbs - 1

\* eth_type_trans and netif_rx_ni: the sk_buff now belongs to the stack.
HandSkb(w) ==
    /\ wpc[w] = "copy"
    /\ HandOver(w)
    /\ total' = total + 1
    /\ skbs' = skbs - 1
    /\ Goto(w, "load")
    /\ UNCHANGED <<call, ret, stats, batch, try>>

\* rx_packets++, with no lock.
CountLoad(w) ==
    /\ wpc[w] = "load"
    /\ rload' = [rload EXCEPT ![w] = rx_packets]
    /\ Goto(w, "store")
    /\ UNCHANGED <<call, ret, skbs, rx_packets, history>>

NextPacket(w, again, done) ==
    /\ ret' = [ret EXCEPT ![w] = @ + 1]
    /\ Goto(w, IF ret[w] + 1 < count[w] THEN again ELSE done)

\* Mutants: counted twice; the last packet of a batch is left out; the loop
\* does not advance.
Bug_CountStoreTwice(w) ==
    /\ wpc[w] = "store"
    /\ rx_packets' = rload[w] + 2
    /\ rload' = [rload EXCEPT ![w] = 0]
    /\ NextPacket(w, "alloc", "finish")
    /\ UNCHANGED <<call, skbs, history>>

Bug_CountStoreShort(w) ==
    /\ wpc[w] = "store"
    /\ rx_packets' = rload[w] + 1
    /\ rload' = [rload EXCEPT ![w] = 0]
    /\ ret' = [ret EXCEPT ![w] = @ + 1]
    /\ Goto(w, IF ret[w] + 2 < count[w] THEN "alloc" ELSE "finish")
    /\ UNCHANGED <<call, skbs, history>>

CountStore(w) ==
    /\ wpc[w] = "store"
    /\ rx_packets' = rload[w] + 1
    /\ rload' = [rload EXCEPT ![w] = 0]
    /\ NextPacket(w, "alloc", "finish")
    /\ UNCHANGED <<call, skbs, history>>

\* The count goes back to the program; if that faults the call fails although
\* the stack has every packet.
WriteFinish(w) ==
    /\ wpc[w] = "finish"
    /\ told' = [told EXCEPT ![w] = ret[w]]
    /\ Return(w, "ok")
    /\ UNCHANGED <<use_tap_dev, count, ret, skbs, stats, history>>

WriteFinishFaults(w) ==
    /\ wpc[w] = "finish"
    /\ Fail(w) /\ UNCHANGED skbs

-----------------------------------------------------------------------------
\* kvnet_write on a TAP device: one write for each packet.

\* Mutant: the loop starts over.
Bug_TapWrite(w) ==
    /\ wpc[w] = "tap" /\ ret[w] < count[w]
    /\ HandOver(w)
    /\ \/ ret' = [ret EXCEPT ![w] = @ + 1]
       \/ ret' = [ret EXCEPT ![w] = 0]
    /\ UNCHANGED <<call, wpc, skbs, stats, batch, try, total>>

TapWrite(w) ==
    /\ wpc[w] = "tap" /\ ret[w] < count[w]
    /\ HandOver(w)
    /\ ret' = [ret EXCEPT ![w] = @ + 1]
    /\ UNCHANGED <<call, wpc, skbs, stats, batch, try, total>>

TapWriteFails(w) ==
    /\ wpc[w] = "tap" /\ ret[w] < count[w]
    /\ Fail(w) /\ UNCHANGED skbs

\* hdr->count is what the program put there.
TapFinish(w) ==
    /\ wpc[w] = "tap" /\ ret[w] = count[w]
    /\ told' = [told EXCEPT ![w] = count[w]]
    /\ Return(w, "ok")
    /\ UNCHANGED <<use_tap_dev, count, ret, skbs, stats, history>>

Driver(w) ==
    \/ HeaderAccept(w) \/ HeaderRefuse(w) \/ AllocSkb(w) \/ AllocFails(w)
    \/ CopyFaults(w) \/ HandSkb(w) \/ CountLoad(w) \/ CountStore(w)
    \/ WriteFinish(w) \/ WriteFinishFaults(w)

Tap(w) == TapWrite(w) \/ TapWriteFails(w) \/ TapFinish(w)

Next == \E w \in Writers : WriteBatch(w) \/ WriteAgain(w) \/ Driver(w) \/ Tap(w)

Spec == Init /\ [][Next]_vars

-----------------------------------------------------------------------------
Packet == [batch : 1..MaxCalls, n : 1..MaxCount]

\* Types of the calls, the statistics and of what the stack got.
TypeOK ==
    /\ use_tap_dev \in BOOLEAN
    /\ wpc \in [Writers -> {"idle", "enter", "alloc", "copy", "load", "store", "finish",
                            "tap"}]
    /\ count \in [Writers -> 0..MaxCount] /\ ret \in [Writers -> 0..MaxCount]
    /\ told \in [Writers -> 0..MaxCount]
    /\ status \in [Writers -> {"none", "ok", "error"}]
    /\ skbs \in Nat /\ rx_packets \in Nat /\ rload \in [Writers -> Nat]
    /\ batch \in [Writers -> 0..MaxCalls] /\ try \in [Writers -> 0..MaxTries]
    /\ handed \in [Writers -> Seq(Packet)] /\ total \in Nat

\* A batch reaches the stack in order and without a gap, whatever fails: each
\* packet is the first of its batch or follows the one before it.
NoGap ==
    \A w \in Writers : \A k \in 1..Len(handed[w]) :
        LET p == handed[w][k] IN
        \/ p.n = 1
        \/ /\ k > 1
           /\ handed[w][k - 1] = [batch |-> p.batch, n |-> p.n - 1]

\* kvnet_write reports success only if the stack got the whole batch in this
\* very call, and the program is told the size of it.
SuccessMeansAll ==
    \A w \in Writers : status[w] = "ok" =>
        /\ told[w] = count[w]
        /\ handed[w] # <<>>
        /\ handed[w][Len(handed[w])] = [batch |-> batch[w], n |-> count[w]]

Copies(w, p) == Cardinality({k \in 1..Len(handed[w]) : handed[w][k] = p})

\* A packet is delivered twice only if the program tried its batch again, and
\* never more often than it tried: a failed call may have delivered packets.
OncePerTry ==
    \A w \in Writers : \A n \in 1..count[w] :
        Copies(w, [batch |-> batch[w], n |-> n]) <= try[w]

\* Every sk_buff the driver allocated was given to the stack or freed, but for
\* the one a writer is just filling.
NoSkbLeak == skbs = Cardinality({w \in Writers : wpc[w] = "copy"})

\* rx_packets never counts more than the stack got, and exactly that as long
\* as a single thread writes.  A packet two writers count at once may be lost
\* from it.
Uncounted == Cardinality({w \in Writers : wpc[w] \in {"load", "store"}})

RxCount ==
    /\ rx_packets + Uncounted <= total
    /\ (\E w \in Writers : \A v \in Writers \ {w} : batch[v] = 0)
           => rx_packets + Uncounted = total
=============================================================================
