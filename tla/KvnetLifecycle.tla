--------------------------- MODULE KvnetLifecycle ---------------------------
(***************************************************************************)
(* The life of the kvnet driver: module_start and module_stop (init.c)     *)
(* with their rollback, the character device they add and remove           *)
(* (io_dev_add, io_dev_remove), and the network device that comes and goes *)
(* with an open file (io_dev_open, io_dev_close, net_dev_add,              *)
(* net_dev_remove).  Any call into the kernel may fail where the code      *)
(* expects it to.                                                          *)
(*                                                                         *)
(* Nothing in the driver orders two opens, so an open is cut at each call  *)
(* into the kernel and between the groups of accesses to vnet->net_dev     *)
(* that such calls separate; accesses with no call between them (the tests *)
(* of Unregister, the two stores of ClearNetdev and of OpenDone) are one   *)
(* step.  A use of freed memory, of a NULL vnet or of a kernel interface   *)
(* against its rules sets oops and stops the system.                       *)
(***************************************************************************)
EXTENDS Naturals, Sequences, FiniteSets

CONSTANTS Procs,        \* processes that open /dev/kvnet
          Dev,          \* net_device structures of the kernel's allocator
          NULL,
          Failing,      \* the kernel calls that may fail
          StaticNode,   \* whether /dev/kvnet exists before device_create
          OpensOverlap  \* whether two opens may run at the same time

Calls == {"vnet", "region", "cdev", "class", "node", "alloc", "register"}

ASSUME LifecycleAssumption ==
    /\ NULL \notin Dev
    /\ Failing \subseteq Calls
    /\ StaticNode \in BOOLEAN /\ OpensOverlap \in BOOLEAN

VARIABLES
    loader, step,           \* module_start and its rollback, module_stop: position
    vnet,                   \* whether gs_vnet points to an object
    io,                     \* what vnet->io_dev says was added
    opened, canceled,       \* vnet->io_dev
    device, added,          \* vnet->net_dev
    enabled,                \* vnet->net_dev.queue.enabled
    pc                      \* each process: where its open or close is

\* The kernel: what exists of the character device, the net_devices that are
\* allocated, registered and up, and whether the driver broke its rules.
VARIABLES kobj, allocated, registered, up, oops

io_dev == <<io, opened, canceled>>
net_dev == <<device, added, enabled>>
netdevs == <<allocated, registered, up>>
vars == <<loader, step, vnet, io_dev, net_dev, pc, kobj, netdevs, oops>>

\* io_dev_add makes these in this order, io_dev_remove goes backwards.
Objects == <<"region", "cdev", "class", "node">>

Init ==
    /\ loader = "out" /\ step = 0
    /\ vnet = FALSE /\ io = {} /\ opened = FALSE /\ canceled = FALSE
    /\ device = NULL /\ added = FALSE /\ enabled = FALSE
    /\ pc = [p \in Procs |-> "out"]
    /\ kobj = {} /\ allocated = {} /\ registered = {} /\ up = {}
    /\ oops = FALSE

-----------------------------------------------------------------------------
\* module_start.

\* vnet_init: a zeroed vnet with an empty, disabled queue.
VnetInit ==
    /\ loader = "out"
    /\ vnet' = TRUE /\ io' = {} /\ opened' = FALSE /\ canceled' = FALSE
    /\ device' = NULL /\ added' = FALSE /\ enabled' = FALSE
    /\ loader' = "add" /\ step' = 1
    /\ UNCHANGED <<pc, kobj, netdevs, oops>>

VnetInitFails ==
    /\ loader = "out" /\ "vnet" \in Failing
    /\ loader' = "undo" /\ step' = Len(Objects)
    /\ UNCHANGED <<vnet, io_dev, net_dev, pc, kobj, netdevs, oops>>

IoDevAdd ==
    /\ loader = "add"
    /\ kobj' = kobj \cup {Objects[step]}
    /\ io' = io \cup {Objects[step]}
    /\ IF step < Len(Objects) THEN step' = step + 1 /\ UNCHANGED loader
       ELSE loader' = "live" /\ step' = 0
    /\ UNCHANGED <<vnet, opened, canceled, net_dev, pc, netdevs, oops>>

\* Mutant: what was added is noted before the call that adds it.
Bug_IoDevAddFails ==
    /\ loader = "add" /\ Objects[step] \in Failing
    /\ io' = io \cup {Objects[step]}
    /\ loader' = "undo" /\ step' = Len(Objects)
    /\ UNCHANGED <<vnet, opened, canceled, net_dev, pc, kobj, netdevs, oops>>

IoDevAddFails ==
    /\ loader = "add" /\ Objects[step] \in Failing
    /\ loader' = "undo" /\ step' = Len(Objects)
    /\ UNCHANGED <<vnet, io_dev, net_dev, pc, kobj, netdevs, oops>>

\* Mutant: file_operations without an owner.
Bug_Unload ==
    /\ loader = "live"
    /\ loader' = "remove" /\ step' = Len(Objects)
    /\ UNCHANGED <<vnet, io_dev, net_dev, pc, kobj, netdevs, oops>>

\* rmmod, when no process has a reference to the module.
Unload ==
    /\ loader = "live"
    /\ \A p \in Procs : pc[p] = "out"
    /\ loader' = "remove" /\ step' = Len(Objects)
    /\ UNCHANGED <<vnet, io_dev, net_dev, pc, kobj, netdevs, oops>>

\* Mutant: the class is not destroyed.
Bug_IoDevRemove ==
    /\ loader \in {"undo", "remove"}
    /\ IF ~vnet THEN oops' = TRUE /\ UNCHANGED <<kobj, io>>
       ELSE /\ oops' = (Objects[step] \in io \ kobj)
            /\ kobj' = kobj \ ({Objects[step]} \cap (io \ {"class"}))
            /\ io' = io \ {Objects[step]}
    /\ step' = step - 1
    /\ loader' = IF step = 1 THEN "close" ELSE loader
    /\ UNCHANGED <<vnet, opened, canceled, net_dev, pc, netdevs>>

\* module_stop, by rmmod or as the rollback of module_start: io_dev_remove,
\* which undoes what vnet->io_dev names, then vnet_close.
IoDevRemove ==
    /\ loader \in {"undo", "remove"}
    /\ IF ~vnet THEN oops' = TRUE /\ UNCHANGED <<kobj, io>>
       ELSE /\ oops' = (Objects[step] \in io \ kobj)
            /\ kobj' = IF Objects[step] \in io THEN kobj \ {Objects[step]} ELSE kobj
            /\ io' = io \ {Objects[step]}
    /\ step' = step - 1
    /\ loader' = IF step = 1 THEN "close" ELSE loader
    /\ UNCHANGED <<vnet, opened, canceled, net_dev, pc, netdevs>>

\* An interface that is still registered would call into what is freed here.
VnetClose ==
    /\ loader = "close"
    /\ vnet' = FALSE
    /\ oops' = (registered # {})
    /\ loader' = "out"
    /\ UNCHANGED <<step, io_dev, net_dev, pc, kobj, netdevs>>

Module == VnetInit \/ VnetInitFails \/ IoDevAdd \/ IoDevAddFails \/ Unload
              \/ IoDevRemove \/ VnetClose

-----------------------------------------------------------------------------
\* io_dev_open and net_dev_add.  The kernel finds the character device and
\* takes a reference to the module, unless rmmod is removing it; a module whose
\* module_start has not returned counts as present.

Goto(p, label) == pc' = [pc EXCEPT ![p] = label]

Opening == {"check", "alloc", "register", "added", "opened", "unregister", "free", "clear"}

OpenBegin(p) ==
    /\ pc[p] = "out"
    /\ "cdev" \in kobj /\ ("node" \in kobj \/ StaticNode)
    /\ loader \in {"add", "live", "undo"}
    /\ OpensOverlap \/ \A q \in Procs : pc[q] \notin Opening
    /\ Goto(p, "check")
    /\ UNCHANGED <<loader, step, vnet, io_dev, net_dev, kobj, netdevs, oops>>

\* vnet->io_dev.opened: EACCES if the device is open.
OpenCheck(p) ==
    /\ pc[p] = "check"
    /\ IF vnet THEN Goto(p, IF opened THEN "out" ELSE "alloc") /\ UNCHANGED oops
       ELSE oops' = TRUE /\ UNCHANGED pc
    /\ UNCHANGED <<loader, step, vnet, io_dev, net_dev, kobj, netdevs>>

AllocNetdev(p) ==
    /\ pc[p] = "alloc"
    /\ \/ \E d \in Dev \ allocated :
            /\ allocated' = allocated \cup {d} /\ device' = d
            /\ Goto(p, "register")
       \/ /\ "alloc" \in Failing
          /\ device' = NULL
          /\ Goto(p, "unregister")
          /\ UNCHANGED allocated
    /\ UNCHANGED <<loader, step, vnet, io_dev, added, enabled, kobj, registered, up, oops>>

\* register_netdev refuses a second device called "kvnet".
RegisterNetdev(p) ==
    /\ pc[p] = "register"
    /\ \/ /\ registered = {} /\ device \in allocated
          /\ registered' = {device}
          /\ Goto(p, "added")
          /\ UNCHANGED oops
       \/ /\ registered # {} \/ "register" \in Failing
          /\ device \in allocated \ registered
          /\ Goto(p, "unregister")
          /\ UNCHANGED <<registered, oops>>
       \/ /\ device \notin allocated \ registered
          /\ oops' = TRUE
          /\ UNCHANGED <<registered, pc>>
    /\ UNCHANGED <<loader, step, vnet, io_dev, net_dev, kobj, allocated, up>>

\* Mutant: added stays 0.
Bug_SetAdded(p) ==
    /\ pc[p] = "added"
    /\ Goto(p, "opened")
    /\ UNCHANGED <<loader, step, vnet, io_dev, net_dev, kobj, netdevs, oops>>

SetAdded(p) ==
    /\ pc[p] = "added"
    /\ added' = TRUE
    /\ Goto(p, "opened")
    /\ UNCHANGED <<loader, step, vnet, io_dev, device, enabled, kobj, netdevs, oops>>

OpenDone(p) ==
    /\ pc[p] = "opened"
    /\ opened' = TRUE /\ canceled' = FALSE
    /\ Goto(p, "open")
    /\ UNCHANGED <<loader, step, vnet, io, net_dev, kobj, netdevs, oops>>

-----------------------------------------------------------------------------
\* net_dev_remove: the rollback of net_dev_add, which then leaves the open
\* with an error, and the first part of io_dev_close.

\* Mutant: the interface is not brought down.
Bug_Unregister(p, from, to, after) ==
    /\ pc[p] = from
    /\ Goto(p, IF device = NULL THEN after ELSE to)
    /\ IF device # NULL /\ added
       THEN /\ oops' = (device \notin registered)
            /\ registered' = registered \ {device}
       ELSE UNCHANGED <<registered, oops>>
    /\ UNCHANGED <<loader, step, vnet, io_dev, net_dev, kobj, allocated, up>>

\* unregister_netdev brings the interface down first, and net_dev_close
\* disables and empties the queue.
Unregister(p, from, to, after) ==
    /\ pc[p] = from
    /\ Goto(p, IF device = NULL THEN after ELSE to)
    /\ IF device # NULL /\ added
       THEN /\ oops' = (device \notin registered)
            /\ registered' = registered \ {device}
            /\ enabled' = (enabled /\ device \notin up)
            /\ up' = up \ {device}
       ELSE UNCHANGED <<registered, up, enabled, oops>>
    /\ UNCHANGED <<loader, step, vnet, io_dev, device, added, kobj, allocated>>

\* Mutant: free_netdev is left to the destructor, which does nothing.
Bug_FreeNetdev(p, from, to) ==
    /\ pc[p] = from
    /\ Goto(p, to)
    /\ UNCHANGED <<loader, step, vnet, io_dev, net_dev, kobj, netdevs, oops>>

FreeNetdev(p, from, to) ==
    /\ pc[p] = from
    /\ oops' = (device \notin allocated \ registered)
    /\ allocated' = allocated \ {device}
    /\ Goto(p, to)
    /\ UNCHANGED <<loader, step, vnet, io_dev, net_dev, kobj, registered, up>>

ClearNetdev(p, from, after) ==
    /\ pc[p] = from
    /\ device' = NULL /\ added' = FALSE
    /\ Goto(p, after)
    /\ UNCHANGED <<loader, step, vnet, io_dev, enabled, kobj, netdevs, oops>>

Rollback(p) ==
    \/ Unregister(p, "unregister", "free", "out")
    \/ FreeNetdev(p, "free", "clear")
    \/ ClearNetdev(p, "clear", "out")

\* The last reference to the file is dropped.
CloseBegin(p) ==
    /\ pc[p] = "open"
    /\ Goto(p, "close_unregister")
    /\ UNCHANGED <<loader, step, vnet, io_dev, net_dev, kobj, netdevs, oops>>

CloseDone(p) ==
    /\ pc[p] = "close_done"
    /\ opened' = FALSE
    /\ Goto(p, "out")
    /\ UNCHANGED <<loader, step, vnet, io, canceled, net_dev, kobj, netdevs, oops>>

Close(p) ==
    \/ CloseBegin(p)
    \/ Unregister(p, "close_unregister", "close_free", "close_done")
    \/ FreeNetdev(p, "close_free", "close_clear")
    \/ ClearNetdev(p, "close_clear", "close_done")
    \/ CloseDone(p)

Open(p) ==
    \/ OpenBegin(p) \/ OpenCheck(p) \/ AllocNetdev(p) \/ RegisterNetdev(p)
    \/ SetAdded(p) \/ OpenDone(p) \/ Rollback(p)

-----------------------------------------------------------------------------
\* The holder of the file reads, writes and cancels its reads; the administrator
\* brings a registered interface up and down (net_dev_open, net_dev_close).

\* Each packet written, and each read that took packets, goes to the
\* net_device that vnet names at that moment.
Transfer(p) ==
    /\ pc[p] = "open"
    /\ oops' = (device \notin allocated)
    /\ UNCHANGED <<loader, step, vnet, io_dev, net_dev, pc, kobj, netdevs>>

Cancel(p) ==
    /\ pc[p] = "open"
    /\ canceled' = TRUE
    /\ UNCHANGED <<loader, step, vnet, io, opened, net_dev, pc, kobj, netdevs, oops>>

IfUp(d) ==
    /\ d \in registered \ up
    /\ up' = up \cup {d}
    /\ enabled' = TRUE
    /\ UNCHANGED <<loader, step, vnet, io_dev, device, added, pc, kobj, allocated,
                   registered, oops>>

\* Mutant: net_dev_close leaves the queue enabled.
Bug_IfDown(d) ==
    /\ d \in up
    /\ up' = up \ {d}
    /\ UNCHANGED <<loader, step, vnet, io_dev, net_dev, pc, kobj, allocated, registered, oops>>

IfDown(d) ==
    /\ d \in up
    /\ up' = up \ {d}
    /\ enabled' = FALSE
    /\ UNCHANGED <<loader, step, vnet, io_dev, device, added, pc, kobj, allocated,
                   registered, oops>>

\* After an oops nothing is worth modelling.
Next ==
    /\ ~oops
    /\ \/ Module
       \/ \E p \in Procs : Open(p) \/ Close(p) \/ Transfer(p) \/ Cancel(p)
       \/ \E d \in Dev : IfUp(d) \/ IfDown(d)

Spec == Init /\ [][Next]_vars

-----------------------------------------------------------------------------
Inside == Opening \cup {"open", "close_unregister", "close_free", "close_clear", "close_done"}

\* Types of vnet, of the kernel's objects and of the position of each actor.
TypeOK ==
    /\ loader \in {"out", "add", "live", "undo", "remove", "close"}
    /\ step \in 0..Len(Objects)
    /\ vnet \in BOOLEAN
    /\ io \subseteq {"region", "cdev", "class", "node"}
    /\ opened \in BOOLEAN /\ canceled \in BOOLEAN
    /\ device \in Dev \cup {NULL} /\ added \in BOOLEAN /\ enabled \in BOOLEAN
    /\ pc \in [Procs -> Inside \cup {"out"}]
    /\ kobj \subseteq {"region", "cdev", "class", "node"}
    /\ up \subseteq registered /\ registered \subseteq Dev /\ allocated \subseteq Dev
    /\ oops \in BOOLEAN

\* The driver never dereferences a missing vnet, never hands a packet to a
\* net_device that was freed, never destroys what it did not create and never
\* unregisters or frees a net_device twice, whichever call of module_start or
\* of an open fails.
NoOops == ~oops

\* However far module_start came, what is left after the rollback or after
\* rmmod is nothing: every kernel object is gone, and so is vnet.
NothingLeft ==
    loader = "out" => ~vnet /\ kobj = {} /\ allocated = {}

\* vnet outlives every process that is inside an open, a call or a close.
VnetOutlivesFiles == (\E p \in Procs : pc[p] \in Inside) => vnet

\* The fields of vnet.h say what is: when nobody is inside an open or a close,
\* opened is 1 exactly while a process has the file open, and added is 1
\* exactly while the interface that device points to is registered.
FieldsTellTheTruth ==
    (\A p \in Procs : pc[p] \in {"out", "open"}) =>
        /\ opened <=> \E p \in Procs : pc[p] = "open"
        /\ added <=> opened
        /\ registered = IF added THEN {device} ELSE {}

\* The queue is open exactly while the interface is up, whichever opens race
\* and whatever fails, so that nothing is queued between a close of the file
\* and the next open.
QueueFollowsInterface == enabled <=> up # {}

\* No net_device is left behind that vnet does not name.
NoOrphan == allocated \subseteq {device}
=============================================================================
