# A TLA+ model of the kvnet VPN driver

The repository holds a Linux network driver (`drivers/vpn/linux`), a user-space
library for it (`libkvnet`), an example program, and packaging. A program opens
`/dev/kvnet`; while it has the device open a network interface `kvnet` exists.
Packets the network stack sends through the interface are queued and the program
reads them; packets the program writes are handed to the network stack. This
directory models the driver's concurrent core, checks it with TLC on small
instances and proves its safety with TLAPS for all sizes.

## 1. The system

| Component | State | Operations | Meets |
|---|---|---|---|
| Transmit queue (`queue.c`) | `head`, `tail`, `size`, `enabled`, spinlock, `skb->next` | insert, remove, enable, empty?, length | called by the network device and the read path |
| Network device (`net_dev.c`) | `device`, `added`, `connected`, statistics, the stopped bit of the kernel's transmit queue | open, close with flush, send, add, remove, get_stats | called by the network stack; wakes the I/O device |
| I/O device (`io_dev.c`) | `opened`, `canceled`, wait queue, what was registered | open, close, poll, cancel and info ioctls, add, remove | called by the program's system calls; adds and removes the network device |
| Read path (`io_read.c`) | `tx_packets`, `tx_bytes` | batch read | takes from the queue, restarts the stack |
| Write path (`io_write.c`) | `rx_packets`, `rx_bytes` | batch write | gives packets to the stack |
| Module (`init.c`, `vnet.c`) | `gs_vnet` | start with rollback, stop | adds and removes the I/O device |
| Utilities (`utils.c`) | none | locks, allocation, checksums, packet dump | everything |
| Library (`libkvnet/src/linux/kvnet.c`) | `fdesc`, `canceled`, `use_tap_dev` | open, close, read, write, cancel, info | system calls on `/dev/kvnet` or `/dev/net/tun` |
| Example (`libkvnet/example`) | `can_run_loop`, two threads | packet loop, signal handler, main | the library |

What is hard: the network stack sends from any CPU and from softirq context,
while threads of the program poll and read, a thread or a signal handler cancels,
and the administrator takes the interface up and down. Only the queue has a lock;
`canceled`, the statistics, `opened`, `device` and `added` have none. Kernel calls
fail in the middle of a registration, and the rollback must undo exactly what was
done. `PROJECT.json` lists the hazards, each at its line.

What makes each component correct:

* queue: it is a bounded FIFO behind a gate; no `sk_buff` has two owners; the
  `tail` that `__queue_remove` leaves behind is never followed;
* transmit path: no wakeup is lost; a packet never crosses from one session of
  the interface to the next; what poll promised can be read; packets are
  accounted for, exactly with one reader and never too high with more; queued packets
  leave while somebody reads; a cancel ends a read;
* lifecycle: nothing missing is dereferenced, nothing is undone twice, nothing is
  left behind; the flags tell what exists;
* write path: a batch reaches the stack in order; success means all of it; only a
  retry delivers a packet twice; no `sk_buff` leaks; the count is never too high, and
  right for a lone writer;
* library and example: a descriptor is used only while it is open, a read ends as
  cancelled only if this run cancelled it or its device is gone, and the program can be
  ended;
* checksums: the field stays right when part of the packet is rewritten.

## 2. Modules

```
KvnetQueue      implements PacketFifo      KvnetQueueProofs, MCKvnetQueue
KvnetTx         implements PacketFifo,     KvnetTxProofs, KvnetTxCountProofs, MCKvnetTx
                keeps DevicePromise to each reader
KvnetClient     is built on DevicePromise  KvnetClientProofs, MCKvnetClient
KvnetLifecycle                             KvnetLifecycleProofs, MCKvnetLifecycle
KvnetRx                                    KvnetRxProofs, MCKvnetRx
KvnetChecksum                              KvnetChecksumProofs, MCKvnetChecksum
```

**PacketFifo** is the abstract specification: a bounded FIFO with a gate. A packet
enters only while the gate is open and there is room, the oldest leaves first, and
the whole content is discarded only while the gate is shut.

**DevicePromise** is the contract between driver and program: what the open kvnet
device promises a thread that waits for packets in poll. Its state is what this
thread can tell: whether its file is `open`, `canceled`, whether there is something to
read (`readable`), whether the thread is on the wait queue (`listening`) and was or
will be woken (`notified`), and where it is (`at`). It finds a cancel at the start of
a round, joins the wait queue, then looks for packets, and sleeps only if there are
none; from then on every packet and every cancel wakes it. A cancel between the first
two steps is the one it may sleep through: finding 1 is part of the contract, because it is
what the code provides.

The contract joins the two sides, each from its own direction. KvnetTx is the driver:
each of its steps is, for each of its readers, a step of DevicePromise or none
(`KeepsPromise`), so the driver does nothing the contract does not allow. KvnetClient is
the program, and its device is DevicePromise itself, with nothing stronger in its place:
what the device does by itself (`Offer`, `Drain`, `Notify`) may happen at any time, and
what it does in a call of the program (poll, read, cancel, open, close) happens in that call, with
every outcome the contract allows. The program thus meets every behaviour of the contract in its
calls, and with it every one of the driver: the safety checked and proved of KvnetClient
holds of the program on KvnetTx. `Open` and `Close` of the contract are not
steps of KvnetTx, which models a device that stays open; they are those of
`io_dev_open` and `io_dev_close`, read from their code (KvnetLifecycle has what else they do).
The contract is wider than one reader of KvnetTx: packets may vanish at any time, a
wakeup that is still under way when the reader joins the wait queue, or comes again, is a
choice (`PollRegister`, `PollWoken`), and a wakeup may come for nothing (`Notify`).

**KvnetQueue** is `queue.c` with the critical sections of its callers, one step
for each update of the queue (statements that only touch a packet still private to
the thread are joined to a neighbour). `head`, `tail`, `size`, `enabled` are the fields of `struct queue`,
`next` is `skb->next`, `lock` the spinlock. `pc` and `buf` are the position and
the local `skb` of each thread. Freed sk_buffs return to `pool`, and the allocator
may hand one out again with any `next`: a stale pointer therefore reaches memory
in use elsewhere. A thread that reads the queue's length alone
(`queue_is_empty`) changes nothing and appears in KvnetTx.

| Action | Code |
|---|---|
| `Acquire`, `Release` | `acquire_lock`, `release_lock` |
| `SendBegin`, `SendDrop`, `SendAccept` | `net_dev_send` up to the insert |
| `InsertLink`, `InsertTail` | `__queue_insert` |
| `RemoveNone`, `RemoveHead`, `RemoveDetach` | `__queue_remove`, `queue_remove` |
| `ReadBegin`, `ReadFree` | the calls of `queue_remove` and `kfree_skb` in `io_read_to_iovec` |
| `AdminBegin`, `SetEnabled`, and `Remove(Admin)` | `net_dev_open`, `net_dev_close`, `net_dev_flush_tx_queue` |

`chain` (what the pointers should spell) and `fifo` (what they spelled when the
lock was last free) are history variables; `fifo` is the refinement mapping.

**KvnetTx** is the transmit path of an open device. A critical section under
`queue.lock` is one step, which KvnetQueue justifies; everything that is not under
the lock is cut at each access to shared data: the wakeup after the unlock, the
test of `canceled`, `poll_wait`, the test of the queue, the load and the store of
each counter (both under the lock and outside it). `waiting` is the wait queue,
`triggered` the pollers it woke, `xoff` the stopped bit that `netif_stop_queue`,
`netif_start_queue` and `netif_wake_queue` set and clear. A reader's `rpc` walks
through `kvnet_read`: poll, `io_dev_poll`, sleep, wakeup, `io_read_to_iovec`. Any
copy to or from user memory may fault, and so may poll itself. A read that failed leaves
the reader at `failed`, from where the program may call again (`ReadAgain`) but need not. `fifo` holds packets as records of a serial
number and the session of the interface in which they were queued.

`KernelSerializes` says what the network stack does for a driver. TRUE: at most
one `ndo_start_xmit` at a time (the driver does not set NETIF_F_LLTX, so the stack
holds the transmit lock), none while the queue is stopped, and none in progress
when `ndo_stop` is called (`dev_deactivate` waits for them). FALSE: nothing of
the kind is assumed. The safety of the queue, the wakeups and the sessions is
checked and proved without it.

**KvnetLifecycle** is the life of the module, of the character device and of the
network device. `io` and `kobj` are what `vnet->io_dev` says was added and what
exists; `device`, `added`, `enabled` are `vnet->net_dev`, and `allocated`,
`registered`, `up` what the kernel has. `loader` and `step` are the position in
`module_start` and its rollback or in `module_stop`, `pc` the position of each
process in `io_dev_open` (with `net_dev_add` and its rollback) or `io_dev_close`.
`Failing` names the kernel calls that may fail. `oops` becomes TRUE when the driver
dereferences a vnet that is not there, destroys what does not exist, unregisters or
frees a net_device that is not registered or allocated, or frees vnet under a
registered interface, or when a transfer (`Transfer`: the program's read or write)
uses a net_device that is gone; the system then stops. `StaticNode` says whether `/dev/kvnet`
exists before `device_create` makes it (a node made by hand); `OpensOverlap`
whether two processes may be inside an open at once, which nothing in the driver
prevents.

**KvnetRx** is the receive path: threads of the program that call `kvnet_write`
with a batch. On the kvnet device `Driver` is `io_write_from_iovec`, cut at each
copy from user memory, each allocation and at the load and the store of
`rx_packets`, because nothing on this path takes a lock; on a TAP device `Tap` is
the loop of `write` calls in the library. Every call that can fail does, and after
an error the program may try the same batch again (`WriteAgain`). `told` is
`hdr->count` as the program sees it after the call, `handed` what the stack got
from each writer.

| Action | Code |
|---|---|
| `WriteBatch`, `WriteAgain` | `kvnet_write` |
| `HeaderAccept`, `HeaderRefuse` | the header of `io_write_from_iovec` |
| `AllocSkb`, `AllocFails`, `CopyFaults`, `HandSkb` | the body of its loop |
| `CountLoad`, `CountStore` | `rx_packets++`, `ret++` and the loop's test |
| `WriteFinish`, `WriteFinishFaults` | the copy of the count to the program |
| `TapWrite`, `TapWriteFails`, `TapFinish` | `kvnet_write` with `use_tap_dev` |

**KvnetClient** is the example program with the library's globals and the device as
its one reader sees it. `mpc` is the position of `main` (with `kvnet_open` and
`kvnet_close` in it), `lpc` that of `pktLoop` (with `kvnet_read`, on the kvnet
device with `io_dev_poll` and the wait queue, on a TAP device with its poll of one
millisecond), and `cpc` that of up to three activations of `cancel_loop`: by main
after a q, and by the signal handler on either thread. A handler suspends the
thread it runs on. The program may be killed at any point (`Kill`) and started
again (`Restart`); the file is then closed but `io_dev.canceled` stays in the
driver. What the kvnet device does is DevicePromise, under the names of the code:
`io_canceled` for `canceled`, `waiting` for `listening`, `woken` for `notified`. `Driver` is what it does
by itself; its other actions happen together with the step of the program that causes
them. A TAP device is `tap`: closed, empty, with a packet, or with an interface that
somebody deleted, which poll reports as POLLERR and `kvnet_read` as a cancel. `missed` is a history variable: a cancel's wakeup came between the reader's
test of `io_dev.canceled` and its entry in the wait queue, finding 1 seen from the
program.

| Action | Code |
|---|---|
| `MainOpen`, `MainOpenFails`, `MainRunLoop`, `MainCreate` | `main`, `kvnet_open`, `io_dev_open` |
| `MainQuit`, `MainJoin`, `MainClose`, `MainForget`, `MainExit` | `main` after a q, `kvnet_close` |
| `CancelTest` ... `CancelWake` | `cancel_loop`, `kvnet_cancel_read`, the cancel ioctl |
| `SignalMain`, `SignalLoop` | `signal_handler` on either thread, EINTR of a poll |
| `LoopInfo`, `LoopSetup`, `LoopTest`, `LoopCall` | `pktLoop` up to the poll of `kvnet_read` |
| `TapReadable`, `TapGone`, `TapTimeout`, `TapCanceled`, `TapAgain`, `TapFails`, `TapFetch` | `kvnet_read` on a TAP device, branch by branch |
| `KvnetPoll`, `KvnetCanceled`, `KvnetFails`, `KvnetFetch` | `kvnet_read` on the kvnet device, with `io_dev_poll` in DevicePromise |
| `Driver`, `TapArrive`, `TapDelete`, `Kill`, `Restart` | around the program |

**KvnetChecksum** is `checksum` and `adjust_checksum` as functions, with the width
of a byte as the constant `Byte` (256 in the code) and the casts and carries of the
C expressions. The behaviour is a packet that gets its checksum and is then
rewritten, whole words at a time, again and again. The reference is `NetSum`, the
unfolded sum of RFC 1071. Nothing in the driver calls either function at this
commit.

## 3. Runs

| Run | Properties | Shows |
|---|---|---|
| `queue` | `TypeOK` `ListInv` `OwnershipInv` `TailIsLive` `ImplementsFifo` | the list under its lock is the FIFO |
| `tx_races` | `TypeOK` `NoLostWakeup` `NoStalePackets` `NeverOvercounted` `ImplementsFifo` `KeepsPromise` | safety of the path with nothing assumed of the stack, and each reader's view of it |
| `tx_serial` | `ReadableUntilDown` `ReadCount` `AccountingExact` `PacketsLeave` `CancelReturns` | what one reader and a well-behaved stack get on top: packets leave, sleeping readers are canceled |
| `tx_cancel` | `CancelEndsAnyRead` | violated: finding 1 |
| `tx_lost_counts` | `AllCounted` | violated: finding 4 |
| `lifecycle_rollback` | `TypeOK` `NoOops` `NothingLeft` `FieldsTellTheTruth` `NoOrphan` | every rollback is exact |
| `lifecycle_races` | `VnetOutlivesFiles` `QueueFollowsInterface` | what survives opens before `module_start` is done and opens that overlap |
| `lifecycle_no_vnet` | `NoOops` | violated: finding 2 |
| `lifecycle_overlap` | `FieldsTellTheTruth` | violated: finding 3 |
| `rx` | `TypeOK` `NoGap` `SuccessMeansAll` `OncePerTry` `NoSkbLeak` `RxCount` | two writers, any failure, retries |
| `client` | `TypeOK` `NoUseAfterClose` `CancelledMeansAsked` `OneMoreRead` `SleepJustified` `QuitEnds` `StopEndsLoop` | the program with signals, kills and restarts, on TAP or on any device that keeps the contract |
| `checksum` | `TypeOK` `FieldIsRight` `ReceiverAccepts` | the two checksum functions against RFC 1071 |

Bounds, and why they are enough:

* `queue`: 3 sk_buffs with a limit of 2, so that the list is empty, has one
  element, is full with a packet to be dropped, and an sk_buff named by a stale
  tail is in use by another sender; 2 senders, a reader and the administrator
  contend for the lock. No counter needs a bound: the state space is finite.
* `tx_races`: 2 senders and 2 readers, a limit of 1, 3 packets (`MaxPackets`), 2
  sessions (`MaxSessions`): a full queue, a packet of each session, two readers
  after the same packet, and a cancel at any point. Symmetry in senders and
  readers.
* `tx_serial`: one sender and one reader, a limit and a batch of 2 with 4 packets
  (full, partial and empty batches, and a batch that a close interrupts) and 2
  sessions; no symmetry, because liveness is checked.
* `lifecycle_*`: 3 processes, 3 net_devices; two opens race while a third process
  opens or closes. The module may be loaded and unloaded again and again.
* `rx`: 2 writers with 2 batches of up to 2 packets each (`MaxCount`, `MaxCalls`),
  and 2 tries of a batch (`MaxTries`): a failure at the first and at the second
  packet, a retry of either, two counts that overlap. Symmetry in the writers.
* `client`: 2 signals (`MaxSignals`), so that both threads are in the handler
  while main handles a q; 2 runs of the program (`MaxRuns`), the second finding what
  the first left. The device needs no bound: the contract only knows whether there is a
  packet, and a read may leave one behind.
* `tx_lost_counts`: two readers with a packet each under a serializing stack, the smallest
  instance with the counterexample.
* `checksum`: bytes of 4 values and packets of up to 5 bytes: no word, one, two, and
  an odd byte behind them; every carry, borrow and both zeros occur at that width.

Deadlock is checked except where the system may stop: in `lifecycle_races` and
`lifecycle_overlap` after an oops, in `rx` when the batches are used up, in `checksum` for a packet without a whole word. In the KvnetTx runs a reader may
always be interrupted by a signal, and in `client` a wakeup for nothing is always
possible, so deadlock freedom says little there and the liveness properties say it
instead.

**Fairness** (`FairSpec` of KvnetTx). A call into the driver that has begun goes on:
the sender that has to count a drop or to wake the readers, `net_dev_open`,
`net_dev_close` and the cancel ioctl are scheduled like any kernel code, and no
step of theirs waits for anything but a spinlock whose holder runs with bottom
halves off and does not block. A reader's calls go on too, and it calls `kvnet_read` again after
one that succeeded, as the example's packet loop does. That loop ends at the first read that fails
(`main.cpp:126-129`), so nothing makes a reader at `failed` call again, and `PacketsLeave` promises
nothing once one is there: after an EAGAIN or a fault the packets of this session, and of
the next, may stay until the interface goes down. Nothing makes the stack send, the interface change
state, the program cancel or a signal arrive. The number of sends is bounded, so
a reader that goes on polling meets a finite number of packets.

In KvnetClient (`FairSpec`) both threads are scheduled (`WF` of `Main` and of
`Loop`), in the device as outside it (in KvnetTx the same is `WF` of `Poll` and `Read`),
and so is each activation of `cancel_loop`. No one has to press q, to send
a signal or to transmit a packet. `QuitEnds` and `StopEndsLoop` except the behaviours in which
`missed` became TRUE, which is finding 1: there the program does hang until a packet
arrives. `NoUseAfterClose` excepts a program whose `pthread_create` failed: a signal
may then run `kvnet_cancel_read` between the `close` and the `fdesc = -1` of
`kvnet_close`.

**Findings.**

1. `tx_cancel`: `io_dev_poll` reads `canceled` before it joins the wait queue and
   not after. A cancel in between is missed, and the read waits until a packet
   comes, although the example program (`main.cpp:167`) takes the call to cancel
   any pending read. `CancelReturns` is what does hold.
2. `lifecycle_no_vnet`: when `vnet_init` fails, the rollback of `module_start`
   (`init.c:101-104`) runs `io_dev_remove`, which reads through the NULL vnet.
3. `lifecycle_overlap`: `opened` is tested and set without a lock around calls that
   sleep. Two opens overlap, and the rollback of one works on the net_device of
   the other.
4. `tx_lost_counts`: `vnet.h:80` calls `tx_packets` the total of the packets transmitted, but
   two readers that increment it together (`io_read.c:47`) count two packets as one.
   `NeverOvercounted` holds for any number of readers, `AccountingExact` for one.
   `rx_packets` (`vnet.h:79`) loses counts of two writers in the same way
   (`io_write.c:112`); `RxCount` is what holds of it.

Two comments say something else than the code, and the models follow the code:

* `status.h:56` says of KVNET_READ_CANCELLED that the read was cancelled, but `kvnet_read`
  reports it for whatever poll calls an error (`kvnet.c:182-183`): when the interface of a TAP
  device is deleted, the program is told of a cancel that nobody asked for (`TapGone`). `CancelledMeansAsked`
  is what does hold.
* `io_dev.c:144-145` says of POLLERR that it "is not used in this implementation", and
  `io_dev_poll` below it reports a cancel by that flag (`io_dev.c:173-178`).

## 4. Proofs

**KvnetQueueProofs** proves, for any finite or infinite set of sk_buffs, senders and
readers and any `TxQueueLen`, that KvnetQueue satisfies each of its invariants, the
mutual exclusion `LockInv` among them, and
implements PacketFifo. It assumes `QueueAssumption` only (the sets of threads are
disjoint, NULL is none of their members). The inductive invariant `IInv` joins
`TypeOK`, `LockInv`, `ListInv` and `OwnershipInv` with what each program point
knows: which points hold an sk_buff, that `chain` and `fifo` agree while the lock
is free and how they differ inside each critical section. The properties alone are not
inductive: that `InsertLink` keeps the list well formed needs that the new sk_buff
is not in the list (ownership) and that `tail` is its last element in every phase
but one (`ListInv` with `Phase`). There is one lemma per action. `TailIsLive`
follows from `ListInv` at the point where `tail` is followed. The refinement maps
`Release` to the PacketFifo step the critical section made, every other step to a
stutter, but for `SetEnabled`, which is `Gate`.

**KvnetTxProofs** proves `TypeOK`, `NoLostWakeup`, `NoStalePackets`,
`ReadableUntilDown`, `ReadCount` and the refinement of PacketFifo for any sets of
senders and readers and any bounds, under `TxAssumption`, and with either value of
`KernelSerializes`. Its invariant adds where a reader must be on the wait queue,
what the position of `net_dev_close` says about `enabled` and the queue, and how
many packets a batch has at each point. From the same invariant follows `PromiseKept`:
for each reader every step of the driver, of other readers and of the stack is a step of
DevicePromise or none. `ReaderStep` has one step per action of KvnetTx. A sender that
inserts a packet is `Offer`; the insert by one sender and the wakeup by another may cross, and the
mapping counts a reader on the wait queue as notified as long as any sender is about to
wake it.

**KvnetTxCountProofs** proves `NeverOvercounted` and, with one reader and a stack that
serializes its sends, `AccountingExact`. Both compare counters, the loads that
threads hold and the numbers of threads that are counting. A counter that is updated
without a lock will be overwritten by any of the values loaded from it, so the
invariant speaks of all of them: any value from which `tx_dropped` may go on, plus any
value from which `tx_packets` may go on, plus the packets no counter has yet, is at
most what was sent (`TallyInv`). A store of an old value then needs no history of the
updates it loses. `Exact` says that, with one reader and a serializing stack, every loaded value is still
the counter's, and turns the bound into an equation; `Serial` is what the stack
promises, position by position. The lemmas `Droppers` and `Takers` say how the
cardinalities change when a thread moves.

**KvnetRxProofs** proves all six invariants of KvnetRx for any number of writers and any
bounds, under `RxAssumption`. `Progress` bounds `ret` at each
position. `TrailInv` adds to `NoGap` and `SuccessMeansAll` that the last packet a writer handed over is
the one its position names, which is what makes the next one its successor.
`TriesInv` carries `OncePerTry`: a packet of the current batch has at most as many
copies as the batch had tries, one fewer if this try has yet to come to it, and no
packet of a later batch exists. `SkbInv` is `NoSkbLeak` with the set of writers that hold an
`sk_buff` finite. `CountInv` does for `rx_packets` what `TallyInv` does for the
statistics of the other direction.

**KvnetLifecycleProofs** proves every invariant of KvnetLifecycle for any sets of
processes and net_devices. The assumptions are exactly what the counterexamples of
TLC leave. `NoEarlyFailure`: if a device node exists beforehand, `class_create` and
`device_create` do not fail (otherwise `module_start` frees vnet under a file that
was opened as soon as `cdev_add` was done). From it alone follow `TypeOK`,
`VnetOutlivesFiles` and `QueueFollowsInterface`, with opens that overlap and any
other call failing. `Serial` adds that opens do not overlap and that `vnet_init`
finds its memory (findings 3 and 2 show that both are needed); then `NoOops`,
`NothingLeft`, `FieldsTellTheTruth` and `NoOrphan` hold. The inductive invariant has
three parts. `ModuleInv` ties `vnet->io_dev` to what exists at each position of
`module_start`, its rollback and `module_stop`, and says when the device can be
opened at all. `QueueInv` adds that at most one interface is registered.
`NetdevInv` says that one process at a time is between its test of `opened` and the
end of its close, and that its position determines `device`, `added` and what the
kernel has: the four properties only speak of moments between calls and say
nothing a step could start from.

**KvnetClientProofs** proves the four invariants of KvnetClient and the action property
`CancelledMeansAsked`, for every bound and on any device that keeps DevicePromise. Its
invariant says where both threads and the handlers can be at the same time
(`Positions`), what can still happen after the loop was told to stop (`Stopping`,
`Reads`), and that a flag of a cancel that is set was asked for by this run (`Asked`),
which holds because `io_dev_open` clears the driver's and the library's starts clear.
`WaitInv` adds the wait queue: a reader past
`poll_wait` is on it, nothing is left on a device that is closed (`Waits`), and
from the test of `io_dev.canceled` on a set flag means a wakeup to come or a missed
one (`Sleeps`). `SleepJustified` is its conclusion, the safety half of `QuitEnds` and
`StopEndsLoop`: the loop cannot be asleep with a packet in the queue or through a cancel
that is done, except in the window of finding 1. Each lemma takes the actions of
DevicePromise as they are, so the theorems assume of the device what the contract says;
`PromiseKept` is the theorem that the driver provides it.

**KvnetChecksumProofs** proves, for every width of a byte, `TypeOK`, `FieldIsRight` and
`ReceiverAccepts`. The steps of the loops are lemmas: a word out and a word
in keep a right field right (`RewriteWord`), the two byte orders agree (`ByteOrder`), and the two
folds lose no carry for any unsigned int (`FoldRight`). That the loops apply them to a packet of
any length is an induction, over the recursive functions that model the loops:
`LoopRuns` gives their equations, and each lemma about a loop inducts over the prefixes
of its packet by the induction theorem for sets of naturals. `ChecksumRight` and
`AdjustRight` state what the two C functions compute for any arguments. The two
invariants have the hypothesis `ShortPackets`: a packet of `2 * Base` bytes (128 KiB) or more
may overflow the 32-bit sum of `checksum`, which then loses a carry. A packet of kvnet is at
most a few kilobytes. `TypeOK` and `AdjustRight` need no such bound.

Every safety property that a passing run checks, and every refinement, is proved;
`NoOops` also with a `StaticNode`, and `VnetOutlivesFiles` and `QueueFollowsInterface`
also without one and then with `class_create` and `device_create` that fail, for which
there is no run. Where a
run and a theorem share a property, the run shows it on a small instance and shows
that the hypotheses of the theorem can be met. Only
model-checked: the liveness properties `PacketsLeave`, `CancelReturns`, `QuitEnds` and
`StopEndsLoop`, because TLAPS does not reason about ENABLED and so not about fairness.
`NoLostWakeup`, `SleepJustified` and the refinement of DevicePromise are what
they come down to: they say that no thread sleeps on what it should have
seen; that a thread which is not asleep gets on is the part that stays with TLC.

## 5. Not modelled

* `USE_BLOCKING_READ`: commented out in `hdrs.h`.
* `net_dev_get_stats`, `net_dev_setup`, the info ioctl, tracing and packet dumps:
  they copy or print fields.
* Packet contents and lengths (but in KvnetChecksum), `tx_bytes`. Counters are naturals: 32-bit wrap is
  out of the model, and no code branches on them.
* A `class_create` or `device_create` that fails while a hand-made node lets a
  process open the device: `module_start` then frees vnet under an open file, and
  `VnetOutlivesFiles` does not hold. `lifecycle_races` leaves these two
  failures out and the proofs assume `NoEarlyFailure`.
* What becomes of a received packet after `netif_rx_ni`: its result is ignored, and
  `rx_dropped` (`vnet.h:85`) is never incremented, so a packet the stack drops is
  counted as received. `rx_bytes` is counted like `rx_packets` and left out.
* `status.h`: shifts and masks without state. The models keep which status a call
  returned, not its encoding.
* `kvnet_get_mac`, the MTU of the TAP interface, the version fields of
  `kvnet_get_driver_info`: copies of constants.
* The dump functions of `utils.c` (headers of IP, TCP, UDP, ICMP, ARP): they format
  text for debug traces and change nothing.
* The example after one of its packets could not be allocated: the clean-up frees
  array entries that were never set (`main.cpp:141`). That is undefined behaviour;
  KvnetClient ends the loop there or, by `Kill`, the program.
* A second `kvnet_open` in one process, and with it the reset of the library's `canceled`
  (`kvnet.c:117`): the example, the only caller, opens the library once. A program that
  opens it again while a late cancel is under way is not covered.
* `printf` in the signal handler, which is not async-signal-safe.
* The Docker files, makefiles and binary packages have no logic of the program.

## 6. Plan

Done, in the order of importance: PacketFifo, KvnetQueue and its proofs, KvnetTx
and its proofs with those of its counters, KvnetLifecycle and its proofs, KvnetRx and its
proofs, DevicePromise, kept by KvnetTx, KvnetClient on top of it and its proofs,
KvnetChecksum and its proofs.

1. An abstract specification of an exclusive session (one process has the device, its
   interface exists exactly meanwhile) and its refinement by KvnetLifecycle under
   `Serial`.
2. What the program gets for its writes as an abstract specification (a batch is handed
   over from its start, in order, and again from its start when it is retried), and
   its refinement by KvnetRx.
3. Action properties of the transmit path: `canceled` never goes back while the device is
   open, the packets of a reader leave the queue in the order in which they were
   sent.
