---------------------------- MODULE DevicePromise ----------------------------
(***************************************************************************)
(* What the open kvnet device promises a thread that waits for packets in  *)
(* poll.  The thread finds a cancel at the start of each round, then joins *)
(* the wait queue, then looks for packets, and sleeps only if there are    *)
(* none; once it is on the wait queue every packet and every cancel wakes  *)
(* it.  A cancel between the first two is the one it may sleep through.    *)
(*                                                                         *)
(* Every step is one of io_dev_poll, of net_dev_send or a reader, or of    *)
(* the cancel ioctl.  KvnetTx is the driver that keeps the promise to each *)
(* of its readers; KvnetClient is the program, built on these very actions *)
(* so that it meets whatever a driver that keeps the promise may do.       *)
(***************************************************************************)
VARIABLES open,         \* the file of the thread is open
          canceled,     \* io_dev.canceled
          readable,     \* the transmit queue is not empty
          listening,    \* the thread is on wait_queue
          notified,     \* it was woken, or is about to be
          at            \* its position: in poll, in read, or outside both

vars == <<open, canceled, readable, listening, notified, at>>

Init ==
    /\ open \in BOOLEAN
    /\ canceled = FALSE /\ readable = FALSE
    /\ listening = FALSE /\ notified = FALSE /\ at = "out"

\* A packet is queued, and whoever listens will hear of it.
Offer ==
    /\ open
    /\ readable' = TRUE /\ notified' = listening
    /\ UNCHANGED <<open, canceled, listening, at>>

\* The last packet is read by anyone or flushed.
Drain == readable' = FALSE /\ UNCHANGED <<open, canceled, listening, notified, at>>

Cancel == canceled' = TRUE /\ UNCHANGED <<open, readable, listening, notified, at>>

\* The wakeup of a cancel, or of a packet that is gone.
Notify == notified' = listening /\ UNCHANGED <<open, canceled, readable, listening, at>>

PollBegin ==
    /\ open /\ at = "out"
    /\ at' = "poll"
    /\ UNCHANGED <<open, canceled, readable, listening, notified>>

PollGoesOn ==
    /\ at = "poll" /\ ~canceled
    /\ at' = "register"
    /\ UNCHANGED <<open, canceled, readable, listening, notified>>

\* The wakeup for a packet that was queued before may still come.
PollRegister ==
    /\ at = "register"
    /\ listening' = TRUE /\ notified' \in {notified, TRUE}
    /\ at' = "test"
    /\ UNCHANGED <<open, canceled, readable>>

PollEmpty ==
    /\ at = "test" /\ ~readable
    /\ at' = "wait"
    /\ UNCHANGED <<open, canceled, readable, listening, notified>>

\* Woken once, the thread may be woken for another packet on the way.
PollWoken ==
    /\ at = "wait" /\ notified
    /\ notified' \in BOOLEAN
    /\ at' = "poll"
    /\ UNCHANGED <<open, canceled, readable, listening>>

\* poll returns: the thread leaves the wait queue.
PollReturn(label) ==
    /\ at' = label
    /\ listening' = FALSE /\ notified' = FALSE
    /\ UNCHANGED <<open, canceled, readable>>

PollCanceled == at = "poll" /\ canceled /\ PollReturn("out")

PollReadable == at = "test" /\ readable /\ PollReturn("fetch")

\* By a signal; kvnet_read begins the poll again.
PollInterrupted == at = "wait" /\ PollReturn("poll")

\* poll has no memory for it, before it asks the device.
PollFails == at = "poll" /\ ~listening /\ PollReturn("out")

\* The read that poll said would find something; it may take all there is.
ReadReturn ==
    /\ at = "fetch"
    /\ at' = "out" /\ readable' \in {readable, FALSE}
    /\ UNCHANGED <<open, canceled, listening, notified>>

\* The file is opened; it is closed, by the program or because it died.
Open ==
    /\ ~open /\ open' = TRUE
    /\ canceled' = FALSE
    /\ UNCHANGED <<readable, listening, notified, at>>

Close ==
    /\ open /\ open' = FALSE
    /\ at' = "out"
    /\ readable' = FALSE /\ listening' = FALSE /\ notified' = FALSE
    /\ UNCHANGED canceled

Next ==
    \/ Offer \/ Drain \/ Cancel \/ Notify
    \/ PollBegin \/ PollGoesOn \/ PollRegister \/ PollEmpty \/ PollWoken
    \/ PollCanceled \/ PollReadable \/ PollInterrupted \/ PollFails \/ ReadReturn
    \/ Open \/ Close

\* What one step of the system may look like to the thread.
Step == Next \/ UNCHANGED vars

Spec == Init /\ [][Next]_vars
=============================================================================
