------------------------- MODULE KvnetLifecycleProofs -------------------------
(***************************************************************************)
(* For any number of processes and net_device structures: vnet outlives    *)
(* every process in the driver, the transmit queue is open exactly while   *)
(* the interface is up, and, as long as opens do not overlap, the driver   *)
(* never destroys what is not there and its fields say what is.            *)
(*                                                                         *)
(* The assumptions are what the counterexamples of TLC leave: see          *)
(* NoEarlyFailure and Serial.                                              *)
(***************************************************************************)
EXTENDS KvnetLifecycle, TLAPS

\* With a device node of its own the device can be opened as soon as cdev_add
\* is done; class_create and device_create must then not fail.
NoEarlyFailure == StaticNode => Failing \cap {"class", "node"} = {}

\* Two opens do not overlap, and vnet_init finds its memory.
Serial == ~OpensOverlap /\ "vnet" \notin Failing

(***************************************************************************)
(* ModuleInv: vnet->io_dev names exactly what exists, in every position of *)
(* module_start, its rollback and module_stop, and the device can only be  *)
(* opened while vnet is there.  QueueInv: at most one interface, none when *)
(* the module is out.  NetdevInv: one process at a time is between its     *)
(* check of opened and the end of its close, and its position determines   *)
(* the fields of vnet->net_dev and what the kernel has.                    *)
(***************************************************************************)
\* The processes that are somewhere in the driver.
AllOut == \A p \in Procs : pc[p] = "out"

\* Each position of module_start and module_stop is at one of the Objects.
Steps == loader \in {"add", "undo", "remove"} => step \in 1..4

Reachable ==
    /\ loader = "add" => AllOut \/ (StaticNode /\ step >= 3)
    /\ loader = "add" => "node" \notin kobj /\ (step <= 2 => "cdev" \notin kobj)
    /\ loader = "undo" => "cdev" \notin kobj \/ (~StaticNode /\ "node" \notin kobj)

ModuleInv ==
    /\ io = kobj
    /\ Steps /\ Reachable
    /\ loader \in {"add", "live"} => vnet
    /\ loader \notin {"add", "live"} => AllOut
    /\ loader \in {"undo", "remove"} =>
           \A i \in 1..4 : Objects[i] \in kobj => i <= step
    /\ loader \in {"out", "close"} \/ ~vnet => kobj = {}

QueueInv ==
    /\ QueueFollowsInterface
    /\ \A d, e \in registered : d = e
    /\ loader = "out" => registered = {} \/ oops

\* A process that has the network device to itself, and one whose file is open.
Busy == Inside \ {"check"}
Holding == {"open", "close_unregister"}
Closing == {"close_free", "close_clear", "close_done"}

NetdevIs(dev, all, reg, add) ==
    device = dev /\ allocated = all /\ registered = reg /\ added = add

NetdevInv ==
    /\ vnet <=> loader # "out"
    /\ \A p, q \in Procs : pc[p] \in Opening /\ pc[q] \in Opening => p = q
    /\ \A p, q \in Procs : pc[p] \in Busy /\ pc[q] \in Busy => p = q
    /\ opened <=> \E p \in Procs : pc[p] \in Holding \cup Closing
    /\ (\A p \in Procs : pc[p] \notin Busy) => NetdevIs(NULL, {}, {}, FALSE)
    /\ \A p \in Procs :
        /\ pc[p] \in {"alloc", "close_done"} => NetdevIs(NULL, {}, {}, FALSE)
        /\ pc[p] \in {"register", "free"} =>
               device # NULL /\ NetdevIs(device, {device}, {}, FALSE)
        /\ pc[p] = "added" => device # NULL /\ NetdevIs(device, {device}, {device}, FALSE)
        /\ pc[p] \in Holding \cup {"opened"} =>
               device # NULL /\ NetdevIs(device, {device}, {device}, TRUE)
        /\ pc[p] = "unregister" =>
               NetdevIs(device, IF device = NULL THEN {} ELSE {device}, {}, FALSE)
        /\ pc[p] = "clear" => device # NULL /\ NetdevIs(device, {}, {}, FALSE)
        /\ pc[p] = "close_free" => device # NULL /\ NetdevIs(device, {device}, {}, TRUE)
        /\ pc[p] = "close_clear" => device # NULL /\ NetdevIs(device, {}, {}, TRUE)

\* The objects of io_dev_add by their places.
LEMMA ObjectsFacts ==
  /\ Len(Objects) = 4 /\ Len(Objects)' = 4
  /\ Objects[1] = "region" /\ Objects[2] = "cdev"
  /\ Objects[3] = "class" /\ Objects[4] = "node"
  /\ \A i \in 1..4 :
       /\ Objects[i] \in {"region", "cdev", "class", "node"}
       /\ Objects[i]' = Objects[i]
       /\ \A j \in 1..4 : Objects[i] = Objects[j] => i = j
  /\ \A x \in {"region", "cdev", "class", "node"} : \E i \in 1..4 : x = Objects[i]
BY DEF Objects

\* The initial state has the invariants.
LEMMA InitInvs == Init => TypeOK /\ ModuleInv /\ QueueInv /\ NetdevInv
<1> SUFFICES ASSUME Init PROVE TypeOK /\ ModuleInv /\ QueueInv /\ NetdevInv
  OBVIOUS
<1> USE LifecycleAssumption, ObjectsFacts DEF Init
<1>1. TypeOK
  <2>1. step \in 0..Len(Objects)
    OBVIOUS
  <2>2. pc \in [Procs -> Inside \cup {"out"}]
    OBVIOUS
  <2> QED
    BY <2>1, <2>2 DEF TypeOK
<1>2. ModuleInv
  BY DEF ModuleInv, Steps, Reachable, AllOut
<1>3. QueueInv
  BY DEF QueueInv, QueueFollowsInterface
<1>4. NetdevInv
  BY DEF NetdevInv, NetdevIs, Opening, Holding, Closing, Busy, Inside
<1> QED
  BY <1>1, <1>2, <1>3, <1>4

-----------------------------------------------------------------------------
\* Every step keeps the types.
LEMMA TypeStep ==
  ASSUME TypeOK, io = kobj, Steps, [Next]_vars
  PROVE  TypeOK'
<1> USE LifecycleAssumption, ObjectsFacts DEF io_dev, net_dev, netdevs, Inside, Opening, Steps
<1>1. ASSUME ~oops, VnetInit PROVE  TypeOK'
  <2>1. step' \in 0..Len(Objects)'
    BY <1>1 DEF VnetInit, TypeOK
  <2>2. (io \subseteq {"region", "cdev", "class", "node"})'
    BY <1>1 DEF VnetInit, TypeOK
  <2>3. (kobj \subseteq {"region", "cdev", "class", "node"})'
    BY <1>1, <2>2 DEF VnetInit, TypeOK
  <2>4. (loader \in {"out", "add", "live", "undo", "remove", "close"})'
    BY <1>1 DEF VnetInit, TypeOK
  <2>5. oops' \in BOOLEAN
    BY <1>1 DEF VnetInit, TypeOK
  <2>6. (added \in BOOLEAN /\ enabled \in BOOLEAN /\ opened \in BOOLEAN /\ canceled \in BOOLEAN)'
    BY <1>1 DEF VnetInit, TypeOK
  <2> QED
    BY <1>1, <2>1, <2>2, <2>3, <2>4, <2>5, <2>6 DEF VnetInit, TypeOK
<1>2. ASSUME ~oops, VnetInitFails PROVE  TypeOK'
  BY <1>2 DEF VnetInitFails, TypeOK
<1>3. ASSUME ~oops, IoDevAdd PROVE  TypeOK'
  <2>1. step' \in 0..Len(Objects)'
    BY <1>3 DEF IoDevAdd, TypeOK
  <2>2. (io \subseteq {"region", "cdev", "class", "node"})'
    BY <1>3 DEF IoDevAdd, TypeOK
  <2>3. (kobj \subseteq {"region", "cdev", "class", "node"})'
    BY <1>3, <2>2 DEF IoDevAdd, TypeOK
  <2>4. (loader \in {"out", "add", "live", "undo", "remove", "close"})'
    BY <1>3 DEF IoDevAdd, TypeOK
  <2>5. oops' \in BOOLEAN
    BY <1>3 DEF IoDevAdd, TypeOK
  <2>6. (added \in BOOLEAN /\ enabled \in BOOLEAN /\ opened \in BOOLEAN /\ canceled \in BOOLEAN)'
    BY <1>3 DEF IoDevAdd, TypeOK
  <2> QED
    BY <1>3, <2>1, <2>2, <2>3, <2>4, <2>5, <2>6 DEF IoDevAdd, TypeOK
<1>4. ASSUME ~oops, IoDevAddFails PROVE  TypeOK'
  BY <1>4 DEF IoDevAddFails, TypeOK
<1>5. ASSUME ~oops, Unload PROVE  TypeOK'
  BY <1>5 DEF Unload, TypeOK
<1>6. ASSUME ~oops, IoDevRemove PROVE  TypeOK'
  <2>1. step' \in 0..Len(Objects)'
    BY <1>6 DEF IoDevRemove, TypeOK
  <2>2. (io \subseteq {"region", "cdev", "class", "node"})'
    BY <1>6 DEF IoDevRemove, TypeOK
  <2>3. (kobj \subseteq {"region", "cdev", "class", "node"})'
    BY <1>6, <2>2 DEF IoDevRemove, TypeOK
  <2>4. (loader \in {"out", "add", "live", "undo", "remove", "close"})'
    BY <1>6 DEF IoDevRemove, TypeOK
  <2>5. oops' \in BOOLEAN
    <3>1. CASE vnet
      <4>1. oops' = (Objects[step] \in io \ kobj)
        BY <1>6, <3>1 DEF IoDevRemove
      <4>2. (Objects[step] \in io \ kobj) \in BOOLEAN
        OBVIOUS
      <4> QED
        BY ONLY <4>1, <4>2
    <3>2. CASE ~vnet
      BY <1>6, <3>2, Zenon DEF IoDevRemove
    <3> QED
      BY <3>1, <3>2
  <2>6. (added \in BOOLEAN /\ enabled \in BOOLEAN /\ opened \in BOOLEAN /\ canceled \in BOOLEAN)'
    BY <1>6 DEF IoDevRemove, TypeOK
  <2> QED
    BY <1>6, <2>1, <2>2, <2>3, <2>4, <2>5, <2>6 DEF IoDevRemove, TypeOK
<1>7. ASSUME ~oops, VnetClose PROVE  TypeOK'
  BY <1>7 DEF VnetClose, TypeOK
<1>8. ASSUME NEW p \in Procs, ~oops, OpenBegin(p) PROVE  TypeOK'
  BY <1>8 DEF OpenBegin, Goto, TypeOK
<1>9. ASSUME NEW p \in Procs, ~oops, OpenCheck(p) PROVE  TypeOK'
  BY <1>9 DEF OpenCheck, Goto, TypeOK
<1>10. ASSUME NEW p \in Procs, ~oops, AllocNetdev(p) PROVE  TypeOK'
  BY <1>10 DEF AllocNetdev, Goto, TypeOK
<1>11. ASSUME NEW p \in Procs, ~oops, RegisterNetdev(p) PROVE  TypeOK'
  <2>1. pc' \in [Procs -> Inside \cup {"out"}]
    BY <1>11 DEF RegisterNetdev, Goto, TypeOK
  <2>2. (up \subseteq registered /\ registered \subseteq Dev /\ allocated \subseteq Dev)'
    BY <1>11 DEF RegisterNetdev, TypeOK
  <2>3. oops' \in BOOLEAN
    BY <1>11 DEF RegisterNetdev, TypeOK
  <2> QED
    BY <1>11, <2>1, <2>2, <2>3 DEF RegisterNetdev, TypeOK
<1>12. ASSUME NEW p \in Procs, ~oops, SetAdded(p) PROVE  TypeOK'
  BY <1>12 DEF SetAdded, Goto, TypeOK
<1>13. ASSUME NEW p \in Procs, ~oops, OpenDone(p) PROVE  TypeOK'
  BY <1>13 DEF OpenDone, Goto, TypeOK
<1>14. ASSUME NEW p \in Procs, ~oops, Unregister(p, "unregister", "free", "out")
       PROVE  TypeOK'
  BY <1>14 DEF Unregister, Goto, TypeOK
<1>15. ASSUME NEW p \in Procs, ~oops, FreeNetdev(p, "free", "clear") PROVE  TypeOK'
  BY <1>15 DEF FreeNetdev, Goto, TypeOK
<1>16. ASSUME NEW p \in Procs, ~oops, ClearNetdev(p, "clear", "out") PROVE  TypeOK'
  BY <1>16 DEF ClearNetdev, Goto, TypeOK
<1>17. ASSUME NEW p \in Procs, ~oops, CloseBegin(p) PROVE  TypeOK'
  BY <1>17 DEF CloseBegin, Goto, TypeOK
<1>18. ASSUME NEW p \in Procs, ~oops, Unregister(p, "close_unregister", "close_free", "close_done")
       PROVE  TypeOK'
  BY <1>18 DEF Unregister, Goto, TypeOK
<1>19. ASSUME NEW p \in Procs, ~oops, FreeNetdev(p, "close_free", "close_clear")
       PROVE  TypeOK'
  BY <1>19 DEF FreeNetdev, Goto, TypeOK
<1>20. ASSUME NEW p \in Procs, ~oops, ClearNetdev(p, "close_clear", "close_done")
       PROVE  TypeOK'
  BY <1>20 DEF ClearNetdev, Goto, TypeOK
<1>21. ASSUME NEW p \in Procs, ~oops, CloseDone(p) PROVE  TypeOK'
  BY <1>21 DEF CloseDone, Goto, TypeOK
<1>22. ASSUME NEW p \in Procs, ~oops, Transfer(p) PROVE  TypeOK'
  BY <1>22 DEF Transfer, TypeOK
<1>23. ASSUME NEW p \in Procs, ~oops, Cancel(p) PROVE  TypeOK'
  BY <1>23 DEF Cancel, TypeOK
<1>24. ASSUME NEW d \in Dev, ~oops, IfUp(d) PROVE  TypeOK'
  BY <1>24 DEF IfUp, TypeOK
<1>25. ASSUME NEW d \in Dev, ~oops, IfDown(d) PROVE  TypeOK'
  BY <1>25 DEF IfDown, TypeOK
<1>26. CASE UNCHANGED vars
  BY <1>26 DEF vars, TypeOK
<1> QED
  BY <1>1, <1>2, <1>3, <1>4, <1>5, <1>6, <1>7, <1>8, <1>9, <1>10, <1>11, <1>12, <1>13,
     <1>14, <1>15, <1>16, <1>17, <1>18, <1>19, <1>20, <1>21, <1>22, <1>23, <1>24,
     <1>25, <1>26 DEF Next, Module, Open, Close, Rollback

\* Every step keeps module_start and module_stop in order.
LEMMA ModuleStep ==
  ASSUME NoEarlyFailure, TypeOK, ModuleInv, [Next]_vars
  PROVE  ModuleInv'
<1> USE LifecycleAssumption, ObjectsFacts DEF io_dev, net_dev, netdevs, Inside,
       Opening, TypeOK, AllOut, NoEarlyFailure, Steps, Reachable
<1>1. ASSUME ~oops, VnetInit PROVE  ModuleInv'
  BY <1>1 DEF VnetInit, ModuleInv
<1>2. ASSUME ~oops, VnetInitFails PROVE  ModuleInv'
  BY <1>2 DEF VnetInitFails, ModuleInv
<1>3. ASSUME ~oops, IoDevAdd PROVE  ModuleInv'
  BY <1>3 DEF IoDevAdd, ModuleInv
<1>4. ASSUME ~oops, IoDevAddFails PROVE  ModuleInv'
  BY <1>4 DEF IoDevAddFails, ModuleInv
<1>5. ASSUME ~oops, Unload PROVE  ModuleInv'
  BY <1>5 DEF Unload, ModuleInv
<1>6. ASSUME ~oops, IoDevRemove PROVE  ModuleInv'
  <2>1. io' = kobj'
    BY <1>6 DEF IoDevRemove, ModuleInv
  <2>2. (Steps /\ Reachable)'
    BY <1>6 DEF IoDevRemove, ModuleInv
  <2>3. (loader \notin {"add", "live"} => AllOut)'
    BY <1>6 DEF IoDevRemove, ModuleInv
  <2>4. ASSUME NEW i \in 1..4, Objects[i] \in kobj' PROVE i <= step'
    BY <1>6, <2>4 DEF IoDevRemove, ModuleInv
  <2>5. step = 1 => kobj' = {}
    <3> SUFFICES ASSUME step = 1, NEW x \in kobj' PROVE FALSE
      OBVIOUS
    <3>1. x \in {"region", "cdev", "class", "node"}
      BY <1>6 DEF IoDevRemove
    <3>2. PICK i \in 1..4 : x = Objects[i]
      BY ONLY <3>1, ObjectsFacts
    <3> QED
      BY <1>6, <2>4, <3>2 DEF IoDevRemove
  <2> QED
    BY <1>6, <2>1, <2>2, <2>3, <2>4, <2>5 DEF IoDevRemove, ModuleInv
<1>7. ASSUME ~oops, VnetClose PROVE  ModuleInv'
  BY <1>7 DEF VnetClose, ModuleInv
<1>8. ASSUME NEW p \in Procs, ~oops, OpenBegin(p) PROVE  ModuleInv'
  BY <1>8 DEF OpenBegin, Goto, ModuleInv
<1>9. ASSUME NEW p \in Procs, ~oops, OpenCheck(p) PROVE  ModuleInv'
  BY <1>9 DEF OpenCheck, Goto, ModuleInv
<1>10. ASSUME NEW p \in Procs, ~oops, AllocNetdev(p) PROVE  ModuleInv'
  BY <1>10 DEF AllocNetdev, Goto, ModuleInv
<1>11. ASSUME NEW p \in Procs, ~oops, RegisterNetdev(p) PROVE  ModuleInv'
  BY <1>11 DEF RegisterNetdev, Goto, ModuleInv
<1>12. ASSUME NEW p \in Procs, ~oops, SetAdded(p) PROVE  ModuleInv'
  BY <1>12 DEF SetAdded, Goto, ModuleInv
<1>13. ASSUME NEW p \in Procs, ~oops, OpenDone(p) PROVE  ModuleInv'
  BY <1>13 DEF OpenDone, Goto, ModuleInv
<1>14. ASSUME NEW p \in Procs, ~oops, Unregister(p, "unregister", "free", "out")
       PROVE  ModuleInv'
  BY <1>14 DEF Unregister, Goto, ModuleInv
<1>15. ASSUME NEW p \in Procs, ~oops, FreeNetdev(p, "free", "clear") PROVE  ModuleInv'
  BY <1>15 DEF FreeNetdev, Goto, ModuleInv
<1>16. ASSUME NEW p \in Procs, ~oops, ClearNetdev(p, "clear", "out") PROVE  ModuleInv'
  BY <1>16 DEF ClearNetdev, Goto, ModuleInv
<1>17. ASSUME NEW p \in Procs, ~oops, CloseBegin(p) PROVE  ModuleInv'
  BY <1>17 DEF CloseBegin, Goto, ModuleInv
<1>18. ASSUME NEW p \in Procs, ~oops, Unregister(p, "close_unregister", "close_free", "close_done")
       PROVE  ModuleInv'
  BY <1>18 DEF Unregister, Goto, ModuleInv
<1>19. ASSUME NEW p \in Procs, ~oops, FreeNetdev(p, "close_free", "close_clear")
       PROVE  ModuleInv'
  BY <1>19 DEF FreeNetdev, Goto, ModuleInv
<1>20. ASSUME NEW p \in Procs, ~oops, ClearNetdev(p, "close_clear", "close_done")
       PROVE  ModuleInv'
  BY <1>20 DEF ClearNetdev, Goto, ModuleInv
<1>21. ASSUME NEW p \in Procs, ~oops, CloseDone(p) PROVE  ModuleInv'
  BY <1>21 DEF CloseDone, Goto, ModuleInv
<1>22. ASSUME NEW p \in Procs, ~oops, Transfer(p) PROVE  ModuleInv'
  BY <1>22 DEF Transfer, ModuleInv
<1>23. ASSUME NEW p \in Procs, ~oops, Cancel(p) PROVE  ModuleInv'
  BY <1>23 DEF Cancel, ModuleInv
<1>24. ASSUME NEW d \in Dev, ~oops, IfUp(d) PROVE  ModuleInv'
  BY <1>24 DEF IfUp, ModuleInv
<1>25. ASSUME NEW d \in Dev, ~oops, IfDown(d) PROVE  ModuleInv'
  BY <1>25 DEF IfDown, ModuleInv
<1>26. CASE UNCHANGED vars
  BY <1>26 DEF vars, ModuleInv
<1> QED
  BY <1>1, <1>2, <1>3, <1>4, <1>5, <1>6, <1>7, <1>8, <1>9, <1>10, <1>11, <1>12, <1>13,
     <1>14, <1>15, <1>16, <1>17, <1>18, <1>19, <1>20, <1>21, <1>22, <1>23, <1>24,
     <1>25, <1>26 DEF Next, Module, Open, Close, Rollback

\* Every step keeps the queue and the interface together.
LEMMA QueueStep ==
  ASSUME TypeOK, ModuleInv, QueueInv, [Next]_vars
  PROVE  QueueInv'
<1> USE LifecycleAssumption, ObjectsFacts DEF io_dev, net_dev, netdevs, Inside,
       Opening, TypeOK, AllOut, ModuleInv
<1>1. ASSUME ~oops, VnetInit PROVE  QueueInv'
  BY <1>1 DEF VnetInit, QueueInv, QueueFollowsInterface
<1>2. ASSUME ~oops, VnetInitFails PROVE  QueueInv'
  BY <1>2 DEF VnetInitFails, QueueInv, QueueFollowsInterface
<1>3. ASSUME ~oops, IoDevAdd PROVE  QueueInv'
  BY <1>3 DEF IoDevAdd, QueueInv, QueueFollowsInterface
<1>4. ASSUME ~oops, IoDevAddFails PROVE  QueueInv'
  BY <1>4 DEF IoDevAddFails, QueueInv, QueueFollowsInterface
<1>5. ASSUME ~oops, Unload PROVE  QueueInv'
  BY <1>5 DEF Unload, QueueInv, QueueFollowsInterface
<1>6. ASSUME ~oops, IoDevRemove PROVE  QueueInv'
  BY <1>6 DEF IoDevRemove, QueueInv, QueueFollowsInterface
<1>7. ASSUME ~oops, VnetClose PROVE  QueueInv'
  BY <1>7 DEF VnetClose, QueueInv, QueueFollowsInterface
<1>8. ASSUME NEW p \in Procs, ~oops, OpenBegin(p) PROVE  QueueInv'
  BY <1>8 DEF OpenBegin, Goto, QueueInv, QueueFollowsInterface
<1>9. ASSUME NEW p \in Procs, ~oops, OpenCheck(p) PROVE  QueueInv'
  BY <1>9 DEF OpenCheck, Goto, QueueInv, QueueFollowsInterface
<1>10. ASSUME NEW p \in Procs, ~oops, AllocNetdev(p) PROVE  QueueInv'
  BY <1>10 DEF AllocNetdev, Goto, QueueInv, QueueFollowsInterface
<1>11. ASSUME NEW p \in Procs, ~oops, RegisterNetdev(p) PROVE  QueueInv'
  BY <1>11 DEF RegisterNetdev, Goto, QueueInv, QueueFollowsInterface
<1>12. ASSUME NEW p \in Procs, ~oops, SetAdded(p) PROVE  QueueInv'
  BY <1>12 DEF SetAdded, Goto, QueueInv, QueueFollowsInterface
<1>13. ASSUME NEW p \in Procs, ~oops, OpenDone(p) PROVE  QueueInv'
  BY <1>13 DEF OpenDone, Goto, QueueInv, QueueFollowsInterface
<1>14. ASSUME NEW p \in Procs, ~oops, Unregister(p, "unregister", "free", "out")
       PROVE  QueueInv'
  BY <1>14 DEF Unregister, Goto, QueueInv, QueueFollowsInterface
<1>15. ASSUME NEW p \in Procs, ~oops, FreeNetdev(p, "free", "clear") PROVE  QueueInv'
  BY <1>15 DEF FreeNetdev, Goto, QueueInv, QueueFollowsInterface
<1>16. ASSUME NEW p \in Procs, ~oops, ClearNetdev(p, "clear", "out") PROVE  QueueInv'
  BY <1>16 DEF ClearNetdev, Goto, QueueInv, QueueFollowsInterface
<1>17. ASSUME NEW p \in Procs, ~oops, CloseBegin(p) PROVE  QueueInv'
  BY <1>17 DEF CloseBegin, Goto, QueueInv, QueueFollowsInterface
<1>18. ASSUME NEW p \in Procs, ~oops, Unregister(p, "close_unregister", "close_free", "close_done")
       PROVE  QueueInv'
  BY <1>18 DEF Unregister, Goto, QueueInv, QueueFollowsInterface
<1>19. ASSUME NEW p \in Procs, ~oops, FreeNetdev(p, "close_free", "close_clear")
       PROVE  QueueInv'
  BY <1>19 DEF FreeNetdev, Goto, QueueInv, QueueFollowsInterface
<1>20. ASSUME NEW p \in Procs, ~oops, ClearNetdev(p, "close_clear", "close_done")
       PROVE  QueueInv'
  BY <1>20 DEF ClearNetdev, Goto, QueueInv, QueueFollowsInterface
<1>21. ASSUME NEW p \in Procs, ~oops, CloseDone(p) PROVE  QueueInv'
  BY <1>21 DEF CloseDone, Goto, QueueInv, QueueFollowsInterface
<1>22. ASSUME NEW p \in Procs, ~oops, Transfer(p) PROVE  QueueInv'
  BY <1>22 DEF Transfer, QueueInv, QueueFollowsInterface
<1>23. ASSUME NEW p \in Procs, ~oops, Cancel(p) PROVE  QueueInv'
  BY <1>23 DEF Cancel, QueueInv, QueueFollowsInterface
<1>24. ASSUME NEW d \in Dev, ~oops, IfUp(d) PROVE  QueueInv'
  BY <1>24 DEF IfUp, QueueInv, QueueFollowsInterface
<1>25. ASSUME NEW d \in Dev, ~oops, IfDown(d) PROVE  QueueInv'
  BY <1>25 DEF IfDown, QueueInv, QueueFollowsInterface
<1>26. CASE UNCHANGED vars
  BY <1>26 DEF vars, QueueInv, QueueFollowsInterface
<1> QED
  BY <1>1, <1>2, <1>3, <1>4, <1>5, <1>6, <1>7, <1>8, <1>9, <1>10, <1>11, <1>12, <1>13,
     <1>14, <1>15, <1>16, <1>17, <1>18, <1>19, <1>20, <1>21, <1>22, <1>23, <1>24,
     <1>25, <1>26 DEF Next, Module, Open, Close, Rollback

\* Every step keeps the network device in the state its holder's position says.
LEMMA NetdevStep ==
  ASSUME Serial, TypeOK, ModuleInv, NetdevInv, [Next]_vars
  PROVE  NetdevInv'
<1> USE LifecycleAssumption, ObjectsFacts DEF io_dev, net_dev, netdevs, Inside,
       Opening, Holding, Closing, Busy, TypeOK, AllOut, ModuleInv, Serial
<1>1. ASSUME ~oops, VnetInit PROVE  NetdevInv'
  BY <1>1 DEF VnetInit, NetdevInv, NetdevIs
<1>2. ASSUME ~oops, VnetInitFails PROVE  NetdevInv'
  BY <1>2 DEF VnetInitFails, NetdevInv, NetdevIs
<1>3. ASSUME ~oops, IoDevAdd PROVE  NetdevInv'
  BY <1>3 DEF IoDevAdd, NetdevInv, NetdevIs
<1>4. ASSUME ~oops, IoDevAddFails PROVE  NetdevInv'
  BY <1>4 DEF IoDevAddFails, NetdevInv, NetdevIs
<1>5. ASSUME ~oops, Unload PROVE  NetdevInv'
  BY <1>5 DEF Unload, NetdevInv, NetdevIs
<1>6. ASSUME ~oops, IoDevRemove PROVE  NetdevInv'
  BY <1>6 DEF IoDevRemove, NetdevInv, NetdevIs
<1>7. ASSUME ~oops, VnetClose PROVE  NetdevInv'
  BY <1>7 DEF VnetClose, NetdevInv, NetdevIs
<1>8. ASSUME NEW p \in Procs, ~oops, OpenBegin(p) PROVE  NetdevInv'
  BY <1>8 DEF OpenBegin, Goto, NetdevInv, NetdevIs
<1>9. ASSUME NEW p \in Procs, ~oops, OpenCheck(p) PROVE  NetdevInv'
  BY <1>9 DEF OpenCheck, Goto, NetdevInv, NetdevIs
<1>10. ASSUME NEW p \in Procs, ~oops, AllocNetdev(p) PROVE  NetdevInv'
  BY <1>10 DEF AllocNetdev, Goto, NetdevInv, NetdevIs
<1>11. ASSUME NEW p \in Procs, ~oops, RegisterNetdev(p) PROVE  NetdevInv'
  BY <1>11 DEF RegisterNetdev, Goto, NetdevInv, NetdevIs
<1>12. ASSUME NEW p \in Procs, ~oops, SetAdded(p) PROVE  NetdevInv'
  BY <1>12 DEF SetAdded, Goto, NetdevInv, NetdevIs
<1>13. ASSUME NEW p \in Procs, ~oops, OpenDone(p) PROVE  NetdevInv'
  BY <1>13 DEF OpenDone, Goto, NetdevInv, NetdevIs
<1>14. ASSUME NEW p \in Procs, ~oops, Unregister(p, "unregister", "free", "out")
       PROVE  NetdevInv'
  BY <1>14 DEF Unregister, Goto, NetdevInv, NetdevIs
<1>15. ASSUME NEW p \in Procs, ~oops, FreeNetdev(p, "free", "clear") PROVE  NetdevInv'
  BY <1>15 DEF FreeNetdev, Goto, NetdevInv, NetdevIs
<1>16. ASSUME NEW p \in Procs, ~oops, ClearNetdev(p, "clear", "out") PROVE  NetdevInv'
  BY <1>16 DEF ClearNetdev, Goto, NetdevInv, NetdevIs
<1>17. ASSUME NEW p \in Procs, ~oops, CloseBegin(p) PROVE  NetdevInv'
  BY <1>17 DEF CloseBegin, Goto, NetdevInv, NetdevIs
<1>18. ASSUME NEW p \in Procs, ~oops, Unregister(p, "close_unregister", "close_free", "close_done")
       PROVE  NetdevInv'
  BY <1>18 DEF Unregister, Goto, NetdevInv, NetdevIs
<1>19. ASSUME NEW p \in Procs, ~oops, FreeNetdev(p, "close_free", "close_clear")
       PROVE  NetdevInv'
  BY <1>19 DEF FreeNetdev, Goto, NetdevInv, NetdevIs
<1>20. ASSUME NEW p \in Procs, ~oops, ClearNetdev(p, "close_clear", "close_done")
       PROVE  NetdevInv'
  BY <1>20 DEF ClearNetdev, Goto, NetdevInv, NetdevIs
<1>21. ASSUME NEW p \in Procs, ~oops, CloseDone(p) PROVE  NetdevInv'
  BY <1>21 DEF CloseDone, Goto, NetdevInv, NetdevIs
<1>22. ASSUME NEW p \in Procs, ~oops, Transfer(p) PROVE  NetdevInv'
  BY <1>22 DEF Transfer, NetdevInv, NetdevIs
<1>23. ASSUME NEW p \in Procs, ~oops, Cancel(p) PROVE  NetdevInv'
  BY <1>23 DEF Cancel, NetdevInv, NetdevIs
<1>24. ASSUME NEW d \in Dev, ~oops, IfUp(d) PROVE  NetdevInv'
  BY <1>24 DEF IfUp, NetdevInv, NetdevIs
<1>25. ASSUME NEW d \in Dev, ~oops, IfDown(d) PROVE  NetdevInv'
  BY <1>25 DEF IfDown, NetdevInv, NetdevIs
<1>26. CASE UNCHANGED vars
  BY <1>26 DEF vars, NetdevInv, NetdevIs
<1> QED
  BY <1>1, <1>2, <1>3, <1>4, <1>5, <1>6, <1>7, <1>8, <1>9, <1>10, <1>11, <1>12, <1>13,
     <1>14, <1>15, <1>16, <1>17, <1>18, <1>19, <1>20, <1>21, <1>22, <1>23, <1>24,
     <1>25, <1>26 DEF Next, Module, Open, Close, Rollback

-----------------------------------------------------------------------------
\* Module_start, its rollback and module_stop stay in order, and so does the
\* queue, whoever opens the device and whatever fails after vnet is there.
THEOREM InductiveInvariant ==
  NoEarlyFailure => (Spec => [](TypeOK /\ ModuleInv /\ QueueInv))
<1> SUFFICES ASSUME NoEarlyFailure
             PROVE  Spec => [](TypeOK /\ ModuleInv /\ QueueInv)
  OBVIOUS
<1>1. (TypeOK /\ ModuleInv /\ QueueInv) /\ [Next]_vars
          => (TypeOK /\ ModuleInv /\ QueueInv)'
  BY TypeStep, ModuleStep, QueueStep DEF ModuleInv
<1> QED
  BY <1>1, InitInvs, PTL DEF Spec

\* The fields of vnet and the objects of the kernel have their types.
THEOREM TypeCorrect == NoEarlyFailure => (Spec => []TypeOK)
BY InductiveInvariant, PTL

\* Vnet is there for every process that is in an open, a call or a close: the
\* owner field of io_fops is enough.
THEOREM VnetSafe == NoEarlyFailure => (Spec => []VnetOutlivesFiles)
<1>1. TypeOK /\ ModuleInv => VnetOutlivesFiles
  BY DEF ModuleInv, TypeOK, VnetOutlivesFiles, AllOut, Inside, Opening
<1> QED
  BY <1>1, InductiveInvariant, PTL

\* However many opens race, and whatever they find, the transmit queue is
\* enabled exactly while an interface is up.
THEOREM QueueSafe == NoEarlyFailure => (Spec => []QueueFollowsInterface)
<1>1. QueueInv => QueueFollowsInterface
  BY DEF QueueInv
<1> QED
  BY <1>1, InductiveInvariant, PTL

-----------------------------------------------------------------------------
\* In a state of the invariants no step of the driver breaks a rule of the
\* kernel.
LEMMA NoOopsStep ==
  ASSUME Serial, TypeOK, ModuleInv, NetdevInv, ~oops, [Next]_vars
  PROVE  ~oops'
<1> USE LifecycleAssumption, ObjectsFacts DEF io_dev, net_dev, netdevs, Inside,
       Opening, Holding, Closing, Busy, TypeOK, AllOut, ModuleInv, Serial
<1>1. CASE Module
  BY <1>1 DEF Module, VnetInit, VnetInitFails, IoDevAdd, IoDevAddFails, Unload,
     IoDevRemove, VnetClose, NetdevInv, NetdevIs
<1>2. ASSUME NEW p \in Procs, Open(p) \/ Close(p) PROVE ~oops'
  <2>1. CASE OpenBegin(p) \/ OpenCheck(p) \/ AllocNetdev(p) \/ SetAdded(p) \/ OpenDone(p)
    BY <2>1 DEF OpenBegin, OpenCheck, AllocNetdev, SetAdded, OpenDone, NetdevInv
  <2>2. CASE RegisterNetdev(p)
    BY <2>2 DEF RegisterNetdev, NetdevInv, NetdevIs
  <2>3. CASE Rollback(p)
    BY <2>3 DEF Rollback, Unregister, FreeNetdev, ClearNetdev, NetdevInv, NetdevIs
  <2>4. CASE Close(p)
    BY <2>4 DEF Close, CloseBegin, Unregister, FreeNetdev, ClearNetdev, CloseDone,
       NetdevInv, NetdevIs
  <2> QED
    BY <1>2, <2>1, <2>2, <2>3, <2>4 DEF Open
<1>3. ASSUME NEW p \in Procs, Transfer(p) \/ Cancel(p) PROVE ~oops'
  BY <1>3 DEF Transfer, Cancel, NetdevInv, NetdevIs
<1>4. ASSUME NEW d \in Dev, IfUp(d) \/ IfDown(d) PROVE ~oops'
  BY <1>4 DEF IfUp, IfDown
<1>5. CASE UNCHANGED vars
  BY <1>5 DEF vars
<1> QED
  BY <1>1, <1>2, <1>3, <1>4, <1>5 DEF Next

\* With one open at a time the network device is always where the position of
\* its holder says, and no rule of the kernel is broken.
THEOREM SerialInvariant ==
  NoEarlyFailure /\ Serial =>
      (Spec => [](TypeOK /\ ModuleInv /\ NetdevInv /\ ~oops))
<1> SUFFICES ASSUME NoEarlyFailure, Serial
             PROVE  Spec => [](TypeOK /\ ModuleInv /\ NetdevInv /\ ~oops)
  OBVIOUS
<1>1. (TypeOK /\ ModuleInv /\ NetdevInv /\ ~oops) /\ [Next]_vars
          => (TypeOK /\ ModuleInv /\ NetdevInv /\ ~oops)'
  BY TypeStep, ModuleStep, NetdevStep, NoOopsStep DEF ModuleInv
<1>2. Init => ~oops
  BY DEF Init
<1> QED
  BY <1>1, <1>2, InitInvs, PTL DEF Spec

\* Whichever call of module_start or of an open fails, vnet is not used when it
\* is missing, nothing is destroyed that was not created or is gone, and every
\* packet goes to a net_device that exists.
THEOREM NoRuleBroken == NoEarlyFailure /\ Serial => (Spec => []NoOops)
BY SerialInvariant, PTL DEF NoOops

\* After the rollback of module_start and after module_stop nothing is left.
THEOREM CleanExit == NoEarlyFailure /\ Serial => (Spec => []NothingLeft)
<1>1. TypeOK /\ ModuleInv /\ NetdevInv => NothingLeft
  BY DEF TypeOK, ModuleInv, NetdevInv, NetdevIs, NothingLeft, AllOut, Busy, Inside,
     Opening
<1> QED
  BY <1>1, SerialInvariant, PTL

\* Between calls opened and added say what is.
THEOREM FieldsTrue == NoEarlyFailure /\ Serial => (Spec => []FieldsTellTheTruth)
<1>1. NetdevInv => FieldsTellTheTruth
  <2> SUFFICES ASSUME NetdevInv, \A p \in Procs : pc[p] \in {"out", "open"}
               PROVE  /\ opened <=> \E p \in Procs : pc[p] = "open"
                      /\ added <=> opened
                      /\ registered = IF added THEN {device} ELSE {}
    BY DEF FieldsTellTheTruth
  <2> USE DEF NetdevInv, NetdevIs, Busy, Holding, Closing, Inside, Opening
  <2>1. opened <=> \E p \in Procs : pc[p] = "open"
    OBVIOUS
  <2>2. CASE opened
    BY <2>1, <2>2
  <2>3. CASE ~opened
    BY <2>1, <2>3
  <2> QED
    BY <2>1, <2>2, <2>3
<1> QED
  BY <1>1, SerialInvariant, PTL

\* No net_device is allocated that vnet does not name.
THEOREM NoLeak == NoEarlyFailure /\ Serial => (Spec => []NoOrphan)
<1>1. TypeOK /\ NetdevInv => NoOrphan
  <2> SUFFICES ASSUME TypeOK, NetdevInv PROVE allocated \subseteq {device}
    BY DEF NoOrphan
  <2> USE DEF TypeOK, NetdevInv, NetdevIs, Busy, Holding, Closing, Inside, Opening
  <2>1. CASE \A p \in Procs : pc[p] \notin Busy
    BY <2>1
  <2>2. ASSUME NEW p \in Procs, pc[p] \in Busy PROVE allocated \subseteq {device}
    BY <2>2
  <2> QED
    BY <2>1, <2>2
<1> QED
  BY <1>1, SerialInvariant, PTL

=============================================================================
