----------------------------- MODULE KvnetClient -----------------------------
(***************************************************************************)
(* The example program on top of libkvnet: the main thread, the packet     *)
(* loop thread, the signal handler that runs on either of them, the        *)
(* library's globals, and the device: the kvnet device or a TAP device.    *)
(*                                                                         *)
(* The kvnet device is DevicePromise itself: every step of it is a step    *)
(* here, taken on its own or together with the move of the program that    *)
(* causes it, and nothing is asked of it beyond what DevicePromise says.   *)
(* What holds here holds on any driver that keeps the promise, and KvnetTx *)
(* is shown to keep it.                                                    *)
(*                                                                         *)
(* The program may be killed at any point and started again; the driver    *)
(* keeps its state in between.  A handler is not itself interrupted by     *)
(* another signal.                                                         *)
(***************************************************************************)
EXTENDS Naturals

CONSTANTS MaxSignals,   \* bound: signals in one run of the program
          MaxRuns       \* bound: runs of the program

ASSUME ClientAssumption == MaxSignals \in Nat /\ MaxRuns \in Nat \ {0}

\* Who may be inside cancel_loop: main after a q, the handler on either thread.
Cancellers == {"quit", "main", "loop"}

VARIABLES
    use_tap, can_run_loop,          \* the program's globals
    fdesc, canceled, use_tap_dev,   \* the library's; fdesc: whether it is not -1
    open, io_canceled,              \* the kvnet device: it is open; io_dev.canceled
    readable, waiting, woken,       \* ... has packets; the reader on its wait_queue
    at,                             \* ... and where in poll or read the reader is
    tap,                            \* the TAP device
    mpc, lpc, cpc                   \* main thread, loop thread, cancel_loop

\* History: runs of the program, signals in this run, calls of kvnet_read
\* begun after the loop was told to stop (no more than two are told apart),
\* and whether a cancel woke the wait queue just before the reader joined it.
VARIABLES runs, signals, late, missed

Device == INSTANCE DevicePromise WITH
    canceled <- io_canceled, listening <- waiting, notified <- woken

lib == <<fdesc, canceled, use_tap_dev>>
program == <<use_tap, can_run_loop, lib>>
device == <<open, io_canceled, readable, waiting, woken, at>>
history == <<runs, signals, late, missed>>
vars == <<program, device, tap, mpc, lpc, cpc, history>>

Init ==
    /\ use_tap \in BOOLEAN /\ can_run_loop = FALSE
    /\ fdesc = FALSE /\ canceled = FALSE /\ use_tap_dev = FALSE
    /\ Device!Init /\ ~open /\ tap = "closed"
    /\ mpc = "start" /\ lpc = "none" /\ cpc = [c \in Cancellers |-> "out"]
    /\ runs = 1 /\ signals = 0 /\ late = 0 /\ missed = FALSE

LoopDone == lpc \in {"ended", "cancelled"}

\* A handler suspends the thread it runs on; it finds main outside the ioctl.
MainRuns(label) == mpc = label /\ cpc["main"] = "out" /\ cpc["quit"] = "out"
LoopRuns(label) == lpc = label /\ cpc["loop"] = "out" /\ mpc # "exited"

\* The kernel closes the file, whichever device it is.
Released ==
    /\ \/ open /\ Device!Close
       \/ ~open /\ UNCHANGED device
    /\ tap' = "closed"

-----------------------------------------------------------------------------
\* main.

\* kvnet_open: the globals are set when nothing can fail any more.
Opens ==
    /\ MainRuns("start") /\ ~fdesc
    /\ fdesc' = TRUE /\ canceled' = FALSE /\ use_tap_dev' = use_tap
    /\ mpc' = "opened"
    /\ UNCHANGED <<use_tap, can_run_loop, lpc, cpc, history>>

\* Mutant: io_dev_open leaves canceled alone.
Bug_MainOpen ==
    /\ Opens
    /\ \/ use_tap /\ tap' = "empty" /\ UNCHANGED device
       \/ ~use_tap /\ open' = TRUE /\ UNCHANGED <<io_canceled, readable, waiting, woken, at, tap>>

MainOpen ==
    /\ Opens
    /\ \/ use_tap /\ tap' = "empty" /\ UNCHANGED device
       \/ ~use_tap /\ Device!Open /\ UNCHANGED tap

\* open or TUNSETIFF fails, the latter after a close: fdesc is -1 again.
MainOpenFails ==
    /\ MainRuns("start")
    /\ mpc' = "leave"
    /\ UNCHANGED <<program, device, tap, lpc, cpc, history>>

MainRunLoop ==
    /\ MainRuns("opened")
    /\ can_run_loop' = TRUE
    /\ mpc' = "create"
    /\ UNCHANGED <<use_tap, lib, device, tap, lpc, cpc, history>>

\* pthread_create; without a thread the device is closed at once.
MainCreate ==
    /\ MainRuns("create")
    /\ \/ mpc' = "keys" /\ lpc' = "info"
       \/ mpc' = "close" /\ UNCHANGED lpc
    /\ UNCHANGED <<program, device, tap, cpc, history>>

MainQuit ==
    /\ MainRuns("keys")
    /\ mpc' = "join"
    /\ cpc' = [cpc EXCEPT !["quit"] = "test"]
    /\ UNCHANGED <<program, device, tap, lpc, history>>

\* Mutant: main does not wait for the loop.
Bug_MainJoin ==
    /\ MainRuns("join")
    /\ mpc' = "close"
    /\ UNCHANGED <<program, device, tap, lpc, cpc, history>>

MainJoin ==
    /\ MainRuns("join") /\ LoopDone
    /\ mpc' = "close"
    /\ UNCHANGED <<program, device, tap, lpc, cpc, history>>

\* kvnet_close: close, then fdesc = -1.
MainClose ==
    /\ MainRuns("close")
    /\ Released
    /\ mpc' = "forget"
    /\ UNCHANGED <<program, lpc, cpc, history>>

MainForget ==
    /\ MainRuns("forget")
    /\ fdesc' = FALSE
    /\ mpc' = "leave"
    /\ UNCHANGED <<use_tap, can_run_loop, canceled, use_tap_dev, device, tap, lpc, cpc, history>>

MainExit ==
    /\ MainRuns("leave")
    /\ mpc' = "exited"
    /\ UNCHANGED <<program, device, tap, lpc, cpc, history>>

Main ==
    \/ MainOpen \/ MainOpenFails \/ MainRunLoop \/ MainCreate
    \/ MainJoin \/ MainClose \/ MainForget \/ MainExit

-----------------------------------------------------------------------------
\* cancel_loop, with kvnet_cancel_read in it.

Goto(c, label) == cpc' = [cpc EXCEPT ![c] = label]

\* Main is suspended while the handler runs on it.
Runs(c, label) == cpc[c] = label /\ mpc # "exited" /\ (c = "quit" => cpc["main"] = "out")

CancelTest(c) ==
    /\ Runs(c, "test")
    /\ Goto(c, IF can_run_loop THEN "clear" ELSE "out")
    /\ UNCHANGED <<program, device, tap, mpc, lpc, history>>

CancelClear(c) ==
    /\ Runs(c, "clear")
    /\ can_run_loop' = FALSE
    /\ Goto(c, "cancel")
    /\ UNCHANGED <<use_tap, lib, device, tap, mpc, lpc, history>>

CancelTap(c) ==
    /\ Runs(c, "cancel") /\ use_tap_dev
    /\ canceled' = TRUE
    /\ Goto(c, "out")
    /\ UNCHANGED <<use_tap, can_run_loop, fdesc, use_tap_dev, device, tap, mpc, lpc, history>>

\* fdesc is -1, or the kernel knows no such descriptor.
CancelRefused(c) ==
    /\ Runs(c, "cancel") /\ ~use_tap_dev /\ ~(fdesc /\ open)
    /\ Goto(c, "out")
    /\ UNCHANGED <<program, device, tap, mpc, lpc, history>>

\* The ioctl: the flag, then the wakeup.
CancelIoctl(c) ==
    /\ Runs(c, "cancel") /\ ~use_tap_dev /\ fdesc
    /\ open /\ Device!Cancel
    /\ Goto(c, "wake")
    /\ UNCHANGED <<program, tap, mpc, lpc, history>>

\* Mutants: nobody is woken; the wakeup is left for a reader yet to come.
Bug_CancelWake(c) ==
    /\ Runs(c, "wake")
    /\ Goto(c, "out")
    /\ UNCHANGED <<program, device, tap, mpc, lpc, history>>

Bug_CancelWakeKept(c) ==
    /\ Runs(c, "wake")
    /\ woken' = TRUE
    /\ Goto(c, "out")
    /\ UNCHANGED <<program, open, io_canceled, readable, waiting, at, tap, mpc, lpc, history>>

\* It misses a reader that has tested the flag and is not yet on the wait queue.
CancelWake(c) ==
    /\ Runs(c, "wake")
    /\ Device!Notify
    /\ missed' = (missed \/ (at = "register" /\ ~waiting))
    /\ Goto(c, "out")
    /\ UNCHANGED <<program, tap, mpc, lpc, runs, signals, late>>

CancelLoop(c) ==
    \/ CancelTest(c) \/ CancelClear(c) \/ CancelTap(c) \/ CancelRefused(c)
    \/ CancelIoctl(c) \/ CancelWake(c)

-----------------------------------------------------------------------------
\* signal_handler, on a thread that is in user space or that a signal gets
\* out of the kernel.

SignalMain ==
    /\ mpc # "exited" /\ signals < MaxSignals
    /\ cpc["main"] = "out" /\ cpc["quit"] # "wake"
    /\ signals' = signals + 1
    /\ Goto("main", "test")
    /\ UNCHANGED <<program, device, tap, mpc, lpc, runs, late, missed>>

\* A poll that sleeps ends with EINTR, and kvnet_read begins it again.
SignalLoop ==
    /\ mpc # "exited" /\ signals < MaxSignals
    /\ cpc["loop"] = "out"
    /\ \/ /\ lpc \in {"info", "setup", "test", "call", "poll", "timeout", "fetch"}
          /\ UNCHANGED device
       \/ lpc = "read" /\ at \in {"poll", "fetch"} /\ ~waiting /\ UNCHANGED device
       \/ lpc = "read" /\ Device!PollInterrupted
    /\ signals' = signals + 1
    /\ Goto("loop", "test")
    /\ UNCHANGED <<program, tap, mpc, lpc, runs, late, missed>>

-----------------------------------------------------------------------------
\* pktLoop, with kvnet_read in it.

LGoto(label) == lpc' = label /\ UNCHANGED <<program, mpc, cpc, runs, signals, missed>>

\* kvnet_get_driver_info; on a TAP device it cannot fail.
LoopInfo ==
    /\ LoopRuns("info")
    /\ LGoto("setup") \/ (~use_tap_dev /\ LGoto("ended"))
    /\ UNCHANGED <<device, tap, late>>

\* The buffers.  Without memory the loop ends; the clean-up then frees
\* pointers it never set, which may also kill the program (see Kill).
LoopSetup ==
    /\ LoopRuns("setup")
    /\ LGoto("test") \/ LGoto("ended")
    /\ UNCHANGED <<device, tap, late>>

\* Mutant: the loop goes on until a read fails.
Bug_LoopTest ==
    /\ LoopRuns("test")
    /\ LGoto("call")
    /\ UNCHANGED <<device, tap, late>>

LoopTest ==
    /\ LoopRuns("test")
    /\ LGoto(IF can_run_loop THEN "call" ELSE "ended")
    /\ UNCHANGED <<device, tap, late>>

\* kvnet_read; it refuses a descriptor that is -1.
LoopCall ==
    /\ LoopRuns("call")
    /\ \/ ~fdesc /\ LGoto("ended") /\ UNCHANGED device
       \/ fdesc /\ use_tap_dev /\ LGoto("poll") /\ UNCHANGED device
       \/ fdesc /\ ~use_tap_dev /\ LGoto("read") /\ Device!PollBegin
    /\ late' = IF can_run_loop \/ late = 2 THEN late ELSE late + 1
    /\ UNCHANGED tap

\* poll on a TAP device, with a timeout of 1 ms.  Nothing but the timeout looks
\* at canceled; without a cancel it begins the poll again.
TapStep(from, label) ==
    /\ LoopRuns(from) /\ LGoto(label)
    /\ UNCHANGED <<device, tap, late>>

TapReadable == tap = "packet" /\ TapStep("poll", "fetch")

\* POLLERR, for the interface is gone.
TapGone == tap = "gone" /\ TapStep("poll", "cancelled")

TapTimeout == tap = "empty" /\ TapStep("poll", "timeout")

\* Mutant: a timeout always begins the poll again.
Bug_TapCanceled == canceled /\ TapStep("timeout", "poll")

TapCanceled == canceled /\ TapStep("timeout", "cancelled")

TapAgain == ~canceled /\ TapStep("timeout", "poll")

\* poll itself fails: KVNET_SELECT_ERROR.
TapFails == TapStep("poll", "ended")

TapPoll ==
    \/ TapReadable \/ TapGone \/ TapTimeout \/ TapCanceled \/ TapAgain \/ TapFails

\* read takes one packet; its error, as any other, ends the loop.
TapFetch ==
    /\ LoopRuns("fetch")
    /\ \/ tap = "packet" /\ tap' \in {"packet", "empty"} /\ LGoto("test")
       \/ LGoto("ended") /\ UNCHANGED tap
    /\ UNCHANGED <<device, late>>

\* poll on the kvnet device, without a timeout.
KvnetPoll ==
    /\ LoopRuns("read") /\ LGoto("read")
    /\ \/ Device!PollGoesOn \/ Device!PollRegister \/ Device!PollEmpty
       \/ Device!PollWoken \/ Device!PollReadable
    /\ UNCHANGED <<tap, late>>

KvnetCanceled ==
    /\ LoopRuns("read") /\ LGoto("cancelled")
    /\ Device!PollCanceled
    /\ UNCHANGED <<tap, late>>

KvnetFails ==
    /\ LoopRuns("read") /\ LGoto("ended")
    /\ Device!PollFails
    /\ UNCHANGED <<tap, late>>

\* EAGAIN because the packets are gone, like any other error, ends the loop.
KvnetFetch ==
    /\ LoopRuns("read") /\ (LGoto("test") \/ LGoto("ended"))
    /\ Device!ReadReturn
    /\ UNCHANGED <<tap, late>>

Loop ==
    \/ LoopInfo \/ LoopSetup \/ LoopTest \/ LoopCall
    \/ TapPoll \/ TapFetch
    \/ KvnetPoll \/ KvnetCanceled \/ KvnetFails \/ KvnetFetch

-----------------------------------------------------------------------------
\* Around the program.

\* The rest of the driver: packets come and go, and so do wakeups.
Driver ==
    /\ Device!Offer \/ Device!Drain \/ Device!Notify
    /\ UNCHANGED <<program, tap, mpc, lpc, cpc, history>>

\* A packet for the TAP device, or somebody deletes its interface.
TapArrive ==
    /\ tap = "empty" /\ tap' = "packet"
    /\ UNCHANGED <<program, device, mpc, lpc, cpc, history>>

TapDelete ==
    /\ tap \in {"empty", "packet"} /\ tap' = "gone"
    /\ UNCHANGED <<program, device, mpc, lpc, cpc, history>>

Kill ==
    /\ mpc # "exited"
    /\ Released
    /\ mpc' = "exited"
    /\ UNCHANGED <<program, lpc, cpc, history>>

\* The globals of the new process are initialised; the device is as it was.
Restart ==
    /\ mpc = "exited" /\ runs < MaxRuns
    /\ use_tap' \in BOOLEAN /\ can_run_loop' = FALSE
    /\ fdesc' = FALSE /\ canceled' = FALSE /\ use_tap_dev' = FALSE
    /\ mpc' = "start" /\ lpc' = "none" /\ cpc' = [c \in Cancellers |-> "out"]
    /\ runs' = runs + 1 /\ signals' = 0 /\ late' = 0 /\ missed' = FALSE
    /\ UNCHANGED <<device, tap>>

Next ==
    \/ Main \/ MainQuit \/ Loop \/ \E c \in Cancellers : CancelLoop(c)
    \/ SignalMain \/ SignalLoop
    \/ Driver \/ TapArrive \/ TapDelete \/ Kill \/ Restart

Spec == Init /\ [][Next]_vars

\* The scheduler runs both threads and their handlers.  Nobody has to press q,
\* send a signal or transmit a packet.
FairSpec ==
    /\ Spec
    /\ WF_vars(Main) /\ WF_vars(Loop)
    /\ \A c \in Cancellers : WF_vars(CancelLoop(c))

-----------------------------------------------------------------------------
\* Types of the program's, the library's and the device's state.
TypeOK ==
    /\ {use_tap, can_run_loop, fdesc, canceled, use_tap_dev, open, io_canceled, readable,
        waiting, woken, missed} \subseteq BOOLEAN
    /\ woken => waiting
    /\ at \in {"out", "poll", "register", "test", "wait", "fetch"}
    /\ tap \in {"closed", "empty", "packet", "gone"}
    /\ mpc \in {"start", "opened", "create", "keys", "join", "close", "forget", "leave",
                "exited"}
    /\ lpc \in {"none", "info", "setup", "test", "call", "poll", "timeout", "fetch", "read",
                "ended", "cancelled"}
    /\ cpc \in [Cancellers -> {"out", "test", "clear", "cancel", "wake"}]
    /\ runs \in 1..MaxRuns /\ signals \in 0..MaxSignals /\ late \in 0..2

\* fdesc names an open file.
Valid == open \/ tap # "closed"

\* Neither thread, nor a handler on it, makes a system call on a descriptor
\* that is closed and may by then name another file.  The one exception is a
\* program that could not create its thread: a signal may then run between
\* the two statements of kvnet_close.
NoUseAfterClose ==
    mpc # "exited" =>
        /\ lpc # "none" /\ ~LoopDone => fdesc /\ Valid
        /\ \A c \in Cancellers : cpc[c] = "cancel" /\ fdesc => Valid \/ lpc = "none"

\* kvnet_read reports KVNET_READ_CANCELLED only if this run of the program
\* asked for it, or the interface of its TAP device is gone, which poll reports
\* as an error and kvnet_read as a cancel: whatever cancel an earlier run left
\* behind does not end this one.
CancelledMeansAsked ==
    [][lpc' = "cancelled" => lpc = "cancelled" \/ ~can_run_loop \/ tap = "gone"]_vars

\* Once the loop has been told to stop it begins at most one more read, the
\* one it had already decided on.
OneMoreRead == late <= 1

\* poll sleeps only while there is nothing for it: no packet, and no cancel
\* but one whose wakeup is still to come or was the missed one.
SleepJustified ==
    at = "wait" /\ ~woken =>
        /\ waiting /\ ~readable
        /\ io_canceled => missed \/ \E c \in Cancellers : cpc[c] = "wake"

\* Quitting ends the program whatever signals came before, whether or not the
\* cancel of this q was the one that was accepted; unless the wakeup of a
\* cancel fell between the reader's test of io_dev.canceled and its entry in
\* the wait queue (KvnetTx!CancelEndsAnyRead).
QuitEnds == mpc = "join" ~> mpc = "exited" \/ missed

\* A loop that was told to stop, by a q or by a signal on either thread, ends,
\* with the same exception.
StopEndsLoop ==
    lpc # "none" /\ ~can_run_loop ~> LoopDone \/ mpc = "exited" \/ missed
=============================================================================
