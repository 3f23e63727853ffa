----------------------------- MODULE PacketFifo -----------------------------
(***************************************************************************)
(* What the transmit queue of the kvnet driver promises: a bounded FIFO of *)
(* packets, gated by a flag.  A packet enters only while the gate is open  *)
(* and there is room, packets leave in the order in which they entered,    *)
(* and the whole content is discarded at once, only while the gate is      *)
(* shut.                                                                   *)
(*                                                                         *)
(* Every step stands for one critical section under queue.lock:            *)
(* net_dev_send, queue_remove, queue_enable and net_dev_flush_tx_queue.    *)
(* KvnetQueue is the linked list that implements it.                       *)
(***************************************************************************)
EXTENDS Naturals, Sequences

CONSTANTS Packet,     \* the packets the network stack may hand over
          Capacity    \* dev->tx_queue_len

VARIABLES fifo,       \* the packets accepted and not yet taken, oldest first
          enabled     \* the gate: queue.enabled

fifoVars == <<fifo, enabled>>

Init == fifo = <<>> /\ enabled = FALSE

Offer(p) ==
    /\ enabled
    /\ Len(fifo) < Capacity
    /\ fifo' = Append(fifo, p)
    /\ UNCHANGED enabled

Take ==
    /\ fifo # <<>>
    /\ fifo' = Tail(fifo)
    /\ UNCHANGED enabled

Gate(on) ==
    /\ enabled' = on
    /\ UNCHANGED fifo

Discard ==
    /\ ~enabled
    /\ fifo' = <<>>
    /\ UNCHANGED enabled

Next ==
    \/ \E p \in Packet : Offer(p)
    \/ Take
    \/ \E on \in BOOLEAN : Gate(on)
    \/ Discard

Spec == Init /\ [][Next]_fifoVars
=============================================================================
