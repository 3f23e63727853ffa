-------------------------- MODULE KvnetClientProofs --------------------------
(***************************************************************************)
(* For any number of signals and of runs of the program, on any driver     *)
(* that keeps DevicePromise: no descriptor is used after its close,        *)
(* KVNET_READ_CANCELLED is reported only to who asked for it or lost its   *)
(* TAP interface, a loop that was told to stop begins at most one more     *)
(* read, and poll sleeps only for a reason.                                *)
(***************************************************************************)
EXTENDS KvnetClient, TLAPS

(***************************************************************************)
(* The strengthening ties the three positions together.  Positions: which  *)
(* phases of main the loop and its handler can be in, that fdesc names an  *)
(* open file in between, and on which device a read is.  Stopping: no      *)
(* handler gets past its test before the loop was released, and main       *)
(* cannot leave pthread_join while it may still run.  Asked: neither flag  *)
(* of a cancel is set while it runs.                                       *)
(***************************************************************************)
Positions ==
    /\ mpc \in {"start", "opened", "create"} => lpc = "none"
    /\ mpc \in {"keys", "join"} => lpc # "none"
    /\ mpc \in {"close", "forget", "leave"} => lpc = "none" \/ LoopDone
    /\ mpc \in {"opened", "create", "keys", "join", "close"} => fdesc /\ Valid
    /\ mpc \notin {"join", "exited"} => cpc["quit"] = "out"
    /\ mpc # "exited" /\ (lpc = "none" \/ LoopDone) => cpc["loop"] = "out"
    /\ mpc # "exited" /\ lpc = "read" => ~use_tap_dev

Stopping ==
    /\ mpc \in {"start", "opened"} => ~can_run_loop /\ cpc["main"] \in {"out", "test"}
    /\ \A c \in Cancellers : cpc[c] \in {"cancel", "wake"} => ~can_run_loop
    /\ mpc = "join" /\ cpc["quit"] \notin {"test", "clear"} => ~can_run_loop
    /\ mpc \in {"close", "forget", "leave"} /\ lpc # "none" =>
           ~can_run_loop /\ \A c \in Cancellers : cpc[c] \in {"out", "test"}

Asked ==
    can_run_loop \/ mpc = "opened" => ~canceled /\ (use_tap_dev \/ ~io_canceled)

Reads ==
    /\ late > 0 => ~can_run_loop
    /\ lpc \in {"none", "info", "setup", "call"} => late = 0
    /\ OneMoreRead

\* The two halves of TypeOK, for steps that touch much of both.
Flags ==
    /\ {use_tap, can_run_loop, fdesc, canceled, use_tap_dev, open, io_canceled, readable,
        waiting, woken, missed} \subseteq BOOLEAN
    /\ woken => waiting

Places ==
    /\ at \in {"out", "poll", "register", "test", "wait", "fetch"}
    /\ tap \in {"closed", "empty", "packet", "gone"}
    /\ mpc \in {"start", "opened", "create", "keys", "join", "close", "forget", "leave",
                "exited"}
    /\ lpc \in {"none", "info", "setup", "test", "call", "poll", "timeout", "fetch", "read",
                "ended", "cancelled"}
    /\ cpc \in [Cancellers -> {"out", "test", "clear", "cancel", "wake"}]
    /\ runs \in 1..MaxRuns /\ signals \in 0..MaxSignals /\ late \in 0..2

IInv == TypeOK /\ Positions /\ Stopping /\ Asked /\ Reads

\* The initial state has the invariant.
LEMMA InitIInv == Init => IInv
<1> SUFFICES ASSUME Init PROVE IInv
  OBVIOUS
<1> USE ClientAssumption DEF Init, Device!Init, Cancellers
<1>1. TypeOK
  <2>1. Flags
    BY DEF Flags
  <2>2. Places
    BY DEF Places
  <2> QED
    BY <2>1, <2>2 DEF TypeOK, Flags, Places
<1>2. Positions
  BY DEF Positions, LoopDone
<1>3. Stopping
  BY DEF Stopping
<1>4. Asked
  BY DEF Asked
<1>5. Reads
  BY DEF Reads, OneMoreRead
<1> QED
  BY <1>1, <1>2, <1>3, <1>4, <1>5 DEF IInv

-----------------------------------------------------------------------------
\* Every step keeps the types.
LEMMA TypeStep ==
  ASSUME IInv, [Next]_vars
  PROVE  TypeOK'
<1> USE ClientAssumption DEF IInv, program, lib, device, history
<1>1. ASSUME MainOpen PROVE TypeOK'
  <2>1. {use_tap', can_run_loop', fdesc', canceled', use_tap_dev', missed'} \subseteq BOOLEAN
    BY <1>1 DEF MainOpen, Opens, TypeOK
  <2>2. /\ {open', io_canceled', readable', waiting', woken'} \subseteq BOOLEAN
        /\ woken' => waiting'
    <3>1. CASE UNCHANGED device
      BY <3>1 DEF TypeOK
    <3>2. CASE Device!Open
      BY <3>2 DEF Device!Open, TypeOK
    <3> QED
      BY <1>1, <3>1, <3>2 DEF MainOpen
  <2>3. Places'
    <3>1. tap' \in {"closed", "empty", "packet", "gone"}
      BY <1>1 DEF MainOpen, TypeOK
    <3>2. at' = at
      BY <1>1 DEF MainOpen, Device!Open
    <3> QED
      BY <1>1, <3>1, <3>2 DEF MainOpen, Opens, TypeOK, Places
  <2> QED
    BY <2>1, <2>2, <2>3 DEF TypeOK, Flags, Places
<1>2. ASSUME MainOpenFails PROVE TypeOK'
  BY <1>2 DEF MainOpenFails, MainRuns, TypeOK
<1>3. ASSUME MainRunLoop PROVE TypeOK'
  BY <1>3 DEF MainRunLoop, MainRuns, TypeOK
<1>4. ASSUME MainCreate PROVE TypeOK'
  BY <1>4 DEF MainCreate, MainRuns, TypeOK
<1>5. ASSUME MainJoin PROVE TypeOK'
  BY <1>5 DEF MainJoin, MainRuns, TypeOK
<1>6. ASSUME MainClose PROVE TypeOK'
  <2>1. CASE open
    BY <1>6, <2>1 DEF MainClose, MainRuns, Released, Device!Close, TypeOK
  <2>2. CASE ~open
    BY <1>6, <2>2 DEF MainClose, MainRuns, Released, TypeOK
  <2> QED
    BY <1>6, <2>1, <2>2 DEF TypeOK
<1>7. ASSUME MainForget PROVE TypeOK'
  BY <1>7 DEF MainForget, MainRuns, TypeOK
<1>8. ASSUME MainExit PROVE TypeOK'
  BY <1>8 DEF MainExit, MainRuns, TypeOK
<1>9. ASSUME MainQuit PROVE TypeOK'
  BY <1>9 DEF MainQuit, MainRuns, TypeOK
<1>10. ASSUME LoopInfo PROVE TypeOK'
  BY <1>10 DEF LoopInfo, LoopRuns, LGoto, TypeOK
<1>11. ASSUME LoopSetup PROVE TypeOK'
  BY <1>11 DEF LoopSetup, LoopRuns, LGoto, TypeOK
<1>12. ASSUME LoopTest PROVE TypeOK'
  BY <1>12 DEF LoopTest, LoopRuns, LGoto, TypeOK
<1>13. ASSUME LoopCall PROVE TypeOK'
  BY <1>13 DEF LoopCall, LoopRuns, LGoto, Device!PollBegin, TypeOK
<1>14. ASSUME TapPoll PROVE TypeOK'
  BY <1>14 DEF TapPoll, TapReadable, TapGone, TapTimeout, TapCanceled, TapAgain,
     TapFails, TapStep, LoopRuns, LGoto, TypeOK
<1>15. ASSUME TapFetch PROVE TypeOK'
  BY <1>15 DEF TapFetch, LoopRuns, LGoto, TypeOK
<1>16. ASSUME KvnetPoll PROVE TypeOK'
  <2>1. CASE Device!PollGoesOn
    BY <1>16, <2>1 DEF KvnetPoll, LoopRuns, LGoto, Device!PollGoesOn, TypeOK
  <2>2. CASE Device!PollRegister
    BY <1>16, <2>2 DEF KvnetPoll, LoopRuns, LGoto, Device!PollRegister, TypeOK
  <2>3. CASE Device!PollEmpty
    BY <1>16, <2>3 DEF KvnetPoll, LoopRuns, LGoto, Device!PollEmpty, TypeOK
  <2>4. CASE Device!PollWoken
    BY <1>16, <2>4 DEF KvnetPoll, LoopRuns, LGoto, Device!PollWoken, TypeOK
  <2>5. CASE Device!PollReadable
    BY <1>16, <2>5 DEF KvnetPoll, LoopRuns, LGoto, Device!PollReadable, Device!PollReturn,
       TypeOK
  <2> QED
    BY <1>16, <2>1, <2>2, <2>3, <2>4, <2>5 DEF KvnetPoll
<1>17. ASSUME KvnetCanceled PROVE TypeOK'
  BY <1>17 DEF KvnetCanceled, LoopRuns, LGoto, Device!PollCanceled, Device!PollReturn,
     TypeOK
<1>18. ASSUME KvnetFails PROVE TypeOK'
  BY <1>18 DEF KvnetFails, LoopRuns, LGoto, Device!PollFails, Device!PollReturn, TypeOK
<1>19. ASSUME KvnetFetch PROVE TypeOK'
  BY <1>19 DEF KvnetFetch, LoopRuns, LGoto, Device!ReadReturn, TypeOK
<1>20. ASSUME NEW c \in Cancellers, CancelTest(c) PROVE TypeOK'
  BY <1>20 DEF CancelTest, Runs, Goto, TypeOK
<1>21. ASSUME NEW c \in Cancellers, CancelClear(c) PROVE TypeOK'
  BY <1>21 DEF CancelClear, Runs, Goto, TypeOK
<1>22. ASSUME NEW c \in Cancellers, CancelTap(c) PROVE TypeOK'
  BY <1>22 DEF CancelTap, Runs, Goto, TypeOK
<1>23. ASSUME NEW c \in Cancellers, CancelRefused(c) PROVE TypeOK'
  BY <1>23 DEF CancelRefused, Runs, Goto, TypeOK
<1>24. ASSUME NEW c \in Cancellers, CancelIoctl(c) PROVE TypeOK'
  BY <1>24 DEF CancelIoctl, Runs, Goto, Device!Cancel, TypeOK
<1>25. ASSUME NEW c \in Cancellers, CancelWake(c) PROVE TypeOK'
  BY <1>25 DEF CancelWake, Runs, Goto, Device!Notify, TypeOK
<1>26. ASSUME SignalMain PROVE TypeOK'
  <2>1. Flags'
    BY <1>26 DEF SignalMain, Goto, TypeOK, Flags
  <2>2. signals' \in 0..MaxSignals
    BY <1>26 DEF SignalMain, TypeOK
  <2>3. cpc' \in [Cancellers -> {"out", "test", "clear", "cancel", "wake"}]
    BY <1>26 DEF SignalMain, Goto, Cancellers, TypeOK
  <2>4. Places'
    BY <1>26, <2>2, <2>3 DEF SignalMain, Goto, TypeOK, Places
  <2> QED
    BY <2>1, <2>4 DEF TypeOK, Flags, Places
<1>27. ASSUME SignalLoop PROVE TypeOK'
  <2>1. Flags'
    <3>1. CASE UNCHANGED device
      BY <1>27, <3>1 DEF SignalLoop, TypeOK, Flags
    <3>2. CASE Device!PollInterrupted
      BY <1>27, <3>2 DEF SignalLoop, Device!PollInterrupted, Device!PollReturn, TypeOK,
         Flags
    <3> QED
      BY <1>27, <3>1, <3>2 DEF SignalLoop
  <2>2. signals' \in 0..MaxSignals
    BY <1>27 DEF SignalLoop, TypeOK
  <2>3. cpc' \in [Cancellers -> {"out", "test", "clear", "cancel", "wake"}]
    BY <1>27 DEF SignalLoop, Goto, Cancellers, TypeOK
  <2>4. Places'
    BY <1>27, <2>2, <2>3 DEF SignalLoop, Goto, Device!PollInterrupted, Device!PollReturn,
       TypeOK, Places
  <2> QED
    BY <2>1, <2>4 DEF TypeOK, Flags, Places
<1>28. ASSUME Driver PROVE TypeOK'
  <2>1. CASE Device!Offer
    BY <1>28, <2>1 DEF Driver, Device!Offer, TypeOK
  <2>2. CASE Device!Drain
    BY <1>28, <2>2 DEF Driver, Device!Drain, TypeOK
  <2>3. CASE Device!Notify
    BY <1>28, <2>3 DEF Driver, Device!Notify, TypeOK
  <2> QED
    BY <1>28, <2>1, <2>2, <2>3 DEF Driver
<1>29. ASSUME TapArrive PROVE TypeOK'
  BY <1>29 DEF TapArrive, TypeOK
<1>30. ASSUME TapDelete PROVE TypeOK'
  BY <1>30 DEF TapDelete, TypeOK
<1>31. ASSUME Kill PROVE TypeOK'
  <2>1. CASE open
    BY <1>31, <2>1 DEF Kill, Released, Device!Close, TypeOK
  <2>2. CASE ~open
    BY <1>31, <2>2 DEF Kill, Released, TypeOK
  <2> QED
    BY <1>31, <2>1, <2>2 DEF TypeOK
<1>32. ASSUME Restart PROVE TypeOK'
  <2>1. Flags'
    BY <1>32 DEF Restart, TypeOK, Flags
  <2>2. Places'
    BY <1>32 DEF Restart, TypeOK, Places
  <2> QED
    BY <2>1, <2>2 DEF TypeOK, Flags, Places
<1>33. CASE UNCHANGED vars
  BY <1>33 DEF vars, TypeOK
<1> QED
  BY <1>1, <1>2, <1>3, <1>4, <1>5, <1>6, <1>7, <1>8, <1>9, <1>10, <1>11, <1>12, <1>13,
     <1>14, <1>15, <1>16, <1>17, <1>18, <1>19, <1>20, <1>21, <1>22, <1>23, <1>24,
     <1>25, <1>26, <1>27, <1>28, <1>29, <1>30, <1>31, <1>32, <1>33 DEF Next, Main,
     Loop, CancelLoop

\* Every step keeps the threads in positions that fit each other.
LEMMA PositionsStep ==
  ASSUME IInv, [Next]_vars
  PROVE  Positions'
<1> USE ClientAssumption DEF IInv, program, lib, device, history, Cancellers, TypeOK,
   LoopDone, Valid
<1>1. ASSUME MainOpen PROVE Positions'
  BY <1>1 DEF MainOpen, Opens, MainRuns, Device!Open, Positions
<1>2. ASSUME MainOpenFails PROVE Positions'
  BY <1>2 DEF MainOpenFails, MainRuns, Positions
<1>3. ASSUME MainRunLoop PROVE Positions'
  BY <1>3 DEF MainRunLoop, MainRuns, Positions
<1>4. ASSUME MainCreate PROVE Positions'
  BY <1>4 DEF MainCreate, MainRuns, Positions
<1>5. ASSUME MainJoin PROVE Positions'
  BY <1>5 DEF MainJoin, MainRuns, Positions
<1>6. ASSUME MainClose PROVE Positions'
  BY <1>6 DEF MainClose, MainRuns, Released, Device!Close, Positions
<1>7. ASSUME MainForget PROVE Positions'
  BY <1>7 DEF MainForget, MainRuns, Positions
<1>8. ASSUME MainExit PROVE Positions'
  BY <1>8 DEF MainExit, MainRuns, Positions
<1>9. ASSUME MainQuit PROVE Positions'
  BY <1>9 DEF MainQuit, MainRuns, Positions
<1>10. ASSUME LoopInfo PROVE Positions'
  BY <1>10 DEF LoopInfo, LoopRuns, LGoto, Positions
<1>11. ASSUME LoopSetup PROVE Positions'
  BY <1>11 DEF LoopSetup, LoopRuns, LGoto, Positions
<1>12. ASSUME LoopTest PROVE Positions'
  BY <1>12 DEF LoopTest, LoopRuns, LGoto, Positions
<1>13. ASSUME LoopCall PROVE Positions'
  BY <1>13 DEF LoopCall, LoopRuns, LGoto, Device!PollBegin, Positions
<1>14. ASSUME TapPoll PROVE Positions'
  BY <1>14 DEF TapPoll, TapReadable, TapGone, TapTimeout, TapCanceled, TapAgain,
     TapFails, TapStep, LoopRuns, LGoto, Positions
<1>15. ASSUME TapFetch PROVE Positions'
  BY <1>15 DEF TapFetch, LoopRuns, LGoto, Positions
<1>16. ASSUME KvnetPoll PROVE Positions'
  <2>1. CASE Device!PollGoesOn
    BY <1>16, <2>1 DEF KvnetPoll, LoopRuns, LGoto, Device!PollGoesOn, Positions
  <2>2. CASE Device!PollRegister
    BY <1>16, <2>2 DEF KvnetPoll, LoopRuns, LGoto, Device!PollRegister, Positions
  <2>3. CASE Device!PollEmpty
    BY <1>16, <2>3 DEF KvnetPoll, LoopRuns, LGoto, Device!PollEmpty, Positions
  <2>4. CASE Device!PollWoken
    BY <1>16, <2>4 DEF KvnetPoll, LoopRuns, LGoto, Device!PollWoken, Positions
  <2>5. CASE Device!PollReadable
    BY <1>16, <2>5 DEF KvnetPoll, LoopRuns, LGoto, Device!PollReadable, Device!PollReturn,
       Positions
  <2> QED
    BY <1>16, <2>1, <2>2, <2>3, <2>4, <2>5 DEF KvnetPoll
<1>17. ASSUME KvnetCanceled PROVE Positions'
  BY <1>17 DEF KvnetCanceled, LoopRuns, LGoto, Device!PollCanceled, Device!PollReturn,
     Positions
<1>18. ASSUME KvnetFails PROVE Positions'
  BY <1>18 DEF KvnetFails, LoopRuns, LGoto, Device!PollFails, Device!PollReturn,
     Positions
<1>19. ASSUME KvnetFetch PROVE Positions'
  BY <1>19 DEF KvnetFetch, LoopRuns, LGoto, Device!ReadReturn, Positions
<1>20. ASSUME NEW c \in Cancellers, CancelTest(c) PROVE Positions'
  BY <1>20 DEF CancelTest, Runs, Goto, Positions
<1>21. ASSUME NEW c \in Cancellers, CancelClear(c) PROVE Positions'
  BY <1>21 DEF CancelClear, Runs, Goto, Positions
<1>22. ASSUME NEW c \in Cancellers, CancelTap(c) PROVE Positions'
  BY <1>22 DEF CancelTap, Runs, Goto, Positions
<1>23. ASSUME NEW c \in Cancellers, CancelRefused(c) PROVE Positions'
  BY <1>23 DEF CancelRefused, Runs, Goto, Positions
<1>24. ASSUME NEW c \in Cancellers, CancelIoctl(c) PROVE Positions'
  BY <1>24 DEF CancelIoctl, Runs, Goto, Device!Cancel, Positions
<1>25. ASSUME NEW c \in Cancellers, CancelWake(c) PROVE Positions'
  BY <1>25 DEF CancelWake, Runs, Goto, Device!Notify, Positions
<1>26. ASSUME SignalMain PROVE Positions'
  BY <1>26 DEF SignalMain, Goto, Positions
<1>27. ASSUME SignalLoop PROVE Positions'
  BY <1>27 DEF SignalLoop, Goto, Device!PollInterrupted, Device!PollReturn, Positions
<1>28. ASSUME Driver PROVE Positions'
  BY <1>28 DEF Driver, Device!Offer, Device!Drain, Device!Notify, Positions
<1>29. ASSUME TapArrive PROVE Positions'
  BY <1>29 DEF TapArrive, Positions
<1>30. ASSUME TapDelete PROVE Positions'
  BY <1>30 DEF TapDelete, Positions
<1>31. ASSUME Kill PROVE Positions'
  BY <1>31 DEF Kill, Released, Device!Close, Positions
<1>32. ASSUME Restart PROVE Positions'
  BY <1>32 DEF Restart, Positions
<1>33. CASE UNCHANGED vars
  BY <1>33 DEF vars, Positions
<1> QED
  BY <1>1, <1>2, <1>3, <1>4, <1>5, <1>6, <1>7, <1>8, <1>9, <1>10, <1>11, <1>12, <1>13,
     <1>14, <1>15, <1>16, <1>17, <1>18, <1>19, <1>20, <1>21, <1>22, <1>23, <1>24,
     <1>25, <1>26, <1>27, <1>28, <1>29, <1>30, <1>31, <1>32, <1>33 DEF Next, Main,
     Loop, CancelLoop

\* Every step keeps what a stopped loop means for the handlers.
LEMMA StoppingStep ==
  ASSUME IInv, [Next]_vars
  PROVE  Stopping'
<1> USE ClientAssumption DEF IInv, program, lib, device, history, Cancellers, TypeOK,
   LoopDone, Positions
<1>1. ASSUME MainOpen PROVE Stopping'
  BY <1>1 DEF MainOpen, Opens, MainRuns, Device!Open, Stopping
<1>2. ASSUME MainOpenFails PROVE Stopping'
  BY <1>2 DEF MainOpenFails, MainRuns, Stopping
<1>3. ASSUME MainRunLoop PROVE Stopping'
  BY <1>3 DEF MainRunLoop, MainRuns, Stopping
<1>4. ASSUME MainCreate PROVE Stopping'
  BY <1>4 DEF MainCreate, MainRuns, Stopping
<1>5. ASSUME MainJoin PROVE Stopping'
  BY <1>5 DEF MainJoin, MainRuns, Stopping
<1>6. ASSUME MainClose PROVE Stopping'
  BY <1>6 DEF MainClose, MainRuns, Released, Device!Close, Stopping
<1>7. ASSUME MainForget PROVE Stopping'
  BY <1>7 DEF MainForget, MainRuns, Stopping
<1>8. ASSUME MainExit PROVE Stopping'
  BY <1>8 DEF MainExit, MainRuns, Stopping
<1>9. ASSUME MainQuit PROVE Stopping'
  BY <1>9 DEF MainQuit, MainRuns, Stopping
<1>10. ASSUME LoopInfo PROVE Stopping'
  BY <1>10 DEF LoopInfo, LoopRuns, LGoto, Stopping
<1>11. ASSUME LoopSetup PROVE Stopping'
  BY <1>11 DEF LoopSetup, LoopRuns, LGoto, Stopping
<1>12. ASSUME LoopTest PROVE Stopping'
  BY <1>12 DEF LoopTest, LoopRuns, LGoto, Stopping
<1>13. ASSUME LoopCall PROVE Stopping'
  BY <1>13 DEF LoopCall, LoopRuns, LGoto, Device!PollBegin, Stopping
<1>14. ASSUME TapPoll PROVE Stopping'
  BY <1>14 DEF TapPoll, TapReadable, TapGone, TapTimeout, TapCanceled, TapAgain,
     TapFails, TapStep, LoopRuns, LGoto, Stopping
<1>15. ASSUME TapFetch PROVE Stopping'
  BY <1>15 DEF TapFetch, LoopRuns, LGoto, Stopping
<1>16. ASSUME KvnetPoll PROVE Stopping'
  BY <1>16 DEF KvnetPoll, LoopRuns, LGoto, Device!PollGoesOn, Device!PollRegister,
     Device!PollEmpty, Device!PollWoken, Device!PollReadable, Device!PollReturn,
     Stopping
<1>17. ASSUME KvnetCanceled PROVE Stopping'
  BY <1>17 DEF KvnetCanceled, LoopRuns, LGoto, Device!PollCanceled, Device!PollReturn,
     Stopping
<1>18. ASSUME KvnetFails PROVE Stopping'
  BY <1>18 DEF KvnetFails, LoopRuns, LGoto, Device!PollFails, Device!PollReturn,
     Stopping
<1>19. ASSUME KvnetFetch PROVE Stopping'
  BY <1>19 DEF KvnetFetch, LoopRuns, LGoto, Device!ReadReturn, Stopping
<1>20. ASSUME NEW c \in Cancellers, CancelTest(c) PROVE Stopping'
  BY <1>20 DEF CancelTest, Runs, Goto, Stopping
<1>21. ASSUME NEW c \in Cancellers, CancelClear(c) PROVE Stopping'
  BY <1>21 DEF CancelClear, Runs, Goto, Stopping
<1>22. ASSUME NEW c \in Cancellers, CancelTap(c) PROVE Stopping'
  BY <1>22 DEF CancelTap, Runs, Goto, Stopping
<1>23. ASSUME NEW c \in Cancellers, CancelRefused(c) PROVE Stopping'
  BY <1>23 DEF CancelRefused, Runs, Goto, Stopping
<1>24. ASSUME NEW c \in Cancellers, CancelIoctl(c) PROVE Stopping'
  BY <1>24 DEF CancelIoctl, Runs, Goto, Device!Cancel, Stopping
<1>25. ASSUME NEW c \in Cancellers, CancelWake(c) PROVE Stopping'
  BY <1>25 DEF CancelWake, Runs, Goto, Device!Notify, Stopping
<1>26. ASSUME SignalMain PROVE Stopping'
  BY <1>26 DEF SignalMain, Goto, Stopping
<1>27. ASSUME SignalLoop PROVE Stopping'
  BY <1>27 DEF SignalLoop, Goto, Device!PollInterrupted, Device!PollReturn, Stopping
<1>28. ASSUME Driver PROVE Stopping'
  BY <1>28 DEF Driver, Device!Offer, Device!Drain, Device!Notify, Stopping
<1>29. ASSUME TapArrive PROVE Stopping'
  BY <1>29 DEF TapArrive, Stopping
<1>30. ASSUME TapDelete PROVE Stopping'
  BY <1>30 DEF TapDelete, Stopping
<1>31. ASSUME Kill PROVE Stopping'
  BY <1>31 DEF Kill, Released, Device!Close, Stopping
<1>32. ASSUME Restart PROVE Stopping'
  BY <1>32 DEF Restart, Stopping
<1>33. CASE UNCHANGED vars
  BY <1>33 DEF vars, Stopping
<1> QED
  BY <1>1, <1>2, <1>3, <1>4, <1>5, <1>6, <1>7, <1>8, <1>9, <1>10, <1>11, <1>12, <1>13,
     <1>14, <1>15, <1>16, <1>17, <1>18, <1>19, <1>20, <1>21, <1>22, <1>23, <1>24,
     <1>25, <1>26, <1>27, <1>28, <1>29, <1>30, <1>31, <1>32, <1>33 DEF Next, Main,
     Loop, CancelLoop

\* No step leaves a cancel behind in a loop that may run.
LEMMA AskedStep ==
  ASSUME IInv, [Next]_vars
  PROVE  Asked'
<1> USE ClientAssumption DEF IInv, program, lib, device, history, Cancellers, TypeOK,
   Positions, Stopping
<1>1. ASSUME MainOpen PROVE Asked'
  BY <1>1 DEF MainOpen, Opens, MainRuns, Device!Open, Asked
<1>2. ASSUME MainOpenFails PROVE Asked'
  BY <1>2 DEF MainOpenFails, MainRuns, Asked
<1>3. ASSUME MainRunLoop PROVE Asked'
  BY <1>3 DEF MainRunLoop, MainRuns, Asked
<1>4. ASSUME MainCreate PROVE Asked'
  BY <1>4 DEF MainCreate, MainRuns, Asked
<1>5. ASSUME MainJoin PROVE Asked'
  BY <1>5 DEF MainJoin, MainRuns, Asked
<1>6. ASSUME MainClose PROVE Asked'
  BY <1>6 DEF MainClose, MainRuns, Released, Device!Close, Asked
<1>7. ASSUME MainForget PROVE Asked'
  BY <1>7 DEF MainForget, MainRuns, Asked
<1>8. ASSUME MainExit PROVE Asked'
  BY <1>8 DEF MainExit, MainRuns, Asked
<1>9. ASSUME MainQuit PROVE Asked'
  BY <1>9 DEF MainQuit, MainRuns, Asked
<1>10. ASSUME LoopInfo PROVE Asked'
  BY <1>10 DEF LoopInfo, LoopRuns, LGoto, Asked
<1>11. ASSUME LoopSetup PROVE Asked'
  BY <1>11 DEF LoopSetup, LoopRuns, LGoto, Asked
<1>12. ASSUME LoopTest PROVE Asked'
  BY <1>12 DEF LoopTest, LoopRuns, LGoto, Asked
<1>13. ASSUME LoopCall PROVE Asked'
  BY <1>13 DEF LoopCall, LoopRuns, LGoto, Device!PollBegin, Asked
<1>14. ASSUME TapPoll PROVE Asked'
  BY <1>14 DEF TapPoll, TapReadable, TapGone, TapTimeout, TapCanceled, TapAgain,
     TapFails, TapStep, LoopRuns, LGoto, Asked
<1>15. ASSUME TapFetch PROVE Asked'
  BY <1>15 DEF TapFetch, LoopRuns, LGoto, Asked
<1>16. ASSUME KvnetPoll PROVE Asked'
  BY <1>16 DEF KvnetPoll, LoopRuns, LGoto, Device!PollGoesOn, Device!PollRegister,
     Device!PollEmpty, Device!PollWoken, Device!PollReadable, Device!PollReturn, Asked
<1>17. ASSUME KvnetCanceled PROVE Asked'
  BY <1>17 DEF KvnetCanceled, LoopRuns, LGoto, Device!PollCanceled, Device!PollReturn,
     Asked
<1>18. ASSUME KvnetFails PROVE Asked'
  BY <1>18 DEF KvnetFails, LoopRuns, LGoto, Device!PollFails, Device!PollReturn, Asked
<1>19. ASSUME KvnetFetch PROVE Asked'
  BY <1>19 DEF KvnetFetch, LoopRuns, LGoto, Device!ReadReturn, Asked
<1>20. ASSUME NEW c \in Cancellers, CancelTest(c) PROVE Asked'
  BY <1>20 DEF CancelTest, Runs, Goto, Asked
<1>21. ASSUME NEW c \in Cancellers, CancelClear(c) PROVE Asked'
  BY <1>21 DEF CancelClear, Runs, Goto, Asked
<1>22. ASSUME NEW c \in Cancellers, CancelTap(c) PROVE Asked'
  BY <1>22 DEF CancelTap, Runs, Goto, Asked
<1>23. ASSUME NEW c \in Cancellers, CancelRefused(c) PROVE Asked'
  BY <1>23 DEF CancelRefused, Runs, Goto, Asked
<1>24. ASSUME NEW c \in Cancellers, CancelIoctl(c) PROVE Asked'
  BY <1>24 DEF CancelIoctl, Runs, Goto, Device!Cancel, Asked
<1>25. ASSUME NEW c \in Cancellers, CancelWake(c) PROVE Asked'
  BY <1>25 DEF CancelWake, Runs, Goto, Device!Notify, Asked
<1>26. ASSUME SignalMain PROVE Asked'
  BY <1>26 DEF SignalMain, Goto, Asked
<1>27. ASSUME SignalLoop PROVE Asked'
  BY <1>27 DEF SignalLoop, Goto, Device!PollInterrupted, Device!PollReturn, Asked
<1>28. ASSUME Driver PROVE Asked'
  BY <1>28 DEF Driver, Device!Offer, Device!Drain, Device!Notify, Asked
<1>29. ASSUME TapArrive PROVE Asked'
  BY <1>29 DEF TapArrive, Asked
<1>30. ASSUME TapDelete PROVE Asked'
  BY <1>30 DEF TapDelete, Asked
<1>31. ASSUME Kill PROVE Asked'
  BY <1>31 DEF Kill, Released, Device!Close, Asked
<1>32. ASSUME Restart PROVE Asked'
  BY <1>32 DEF Restart, Asked
<1>33. CASE UNCHANGED vars
  BY <1>33 DEF vars, Asked
<1> QED
  BY <1>1, <1>2, <1>3, <1>4, <1>5, <1>6, <1>7, <1>8, <1>9, <1>10, <1>11, <1>12, <1>13,
     <1>14, <1>15, <1>16, <1>17, <1>18, <1>19, <1>20, <1>21, <1>22, <1>23, <1>24,
     <1>25, <1>26, <1>27, <1>28, <1>29, <1>30, <1>31, <1>32, <1>33 DEF Next, Main,
     Loop, CancelLoop

\* No step makes a stopped loop begin a second read.
LEMMA ReadsStep ==
  ASSUME IInv, [Next]_vars
  PROVE  Reads'
<1> USE ClientAssumption DEF IInv, program, lib, device, history, TypeOK, Positions,
   OneMoreRead
<1>1. ASSUME MainOpen PROVE Reads'
  BY <1>1 DEF MainOpen, Opens, MainRuns, Device!Open, Reads
<1>2. ASSUME MainOpenFails PROVE Reads'
  BY <1>2 DEF MainOpenFails, MainRuns, Reads
<1>3. ASSUME MainRunLoop PROVE Reads'
  BY <1>3 DEF MainRunLoop, MainRuns, Reads
<1>4. ASSUME MainCreate PROVE Reads'
  BY <1>4 DEF MainCreate, MainRuns, Reads
<1>5. ASSUME MainJoin PROVE Reads'
  BY <1>5 DEF MainJoin, MainRuns, Reads
<1>6. ASSUME MainClose PROVE Reads'
  BY <1>6 DEF MainClose, MainRuns, Released, Device!Close, Reads
<1>7. ASSUME MainForget PROVE Reads'
  BY <1>7 DEF MainForget, MainRuns, Reads
<1>8. ASSUME MainExit PROVE Reads'
  BY <1>8 DEF MainExit, MainRuns, Reads
<1>9. ASSUME MainQuit PROVE Reads'
  BY <1>9 DEF MainQuit, MainRuns, Reads
<1>10. ASSUME LoopInfo PROVE Reads'
  BY <1>10 DEF LoopInfo, LoopRuns, LGoto, Reads
<1>11. ASSUME LoopSetup PROVE Reads'
  BY <1>11 DEF LoopSetup, LoopRuns, LGoto, Reads
<1>12. ASSUME LoopTest PROVE Reads'
  BY <1>12 DEF LoopTest, LoopRuns, LGoto, Reads
<1>13. ASSUME LoopCall PROVE Reads'
  BY <1>13 DEF LoopCall, LoopRuns, LGoto, Device!PollBegin, Reads
<1>14. ASSUME TapPoll PROVE Reads'
  BY <1>14 DEF TapPoll, TapReadable, TapGone, TapTimeout, TapCanceled, TapAgain,
     TapFails, TapStep, LoopRuns, LGoto, Reads
<1>15. ASSUME TapFetch PROVE Reads'
  BY <1>15 DEF TapFetch, LoopRuns, LGoto, Reads
<1>16. ASSUME KvnetPoll PROVE Reads'
  BY <1>16 DEF KvnetPoll, LoopRuns, LGoto, Device!PollGoesOn, Device!PollRegister,
     Device!PollEmpty, Device!PollWoken, Device!PollReadable, Device!PollReturn, Reads
<1>17. ASSUME KvnetCanceled PROVE Reads'
  BY <1>17 DEF KvnetCanceled, LoopRuns, LGoto, Device!PollCanceled, Device!PollReturn,
     Reads
<1>18. ASSUME KvnetFails PROVE Reads'
  BY <1>18 DEF KvnetFails, LoopRuns, LGoto, Device!PollFails, Device!PollReturn, Reads
<1>19. ASSUME KvnetFetch PROVE Reads'
  BY <1>19 DEF KvnetFetch, LoopRuns, LGoto, Device!ReadReturn, Reads
<1>20. ASSUME NEW c \in Cancellers, CancelTest(c) PROVE Reads'
  BY <1>20 DEF CancelTest, Runs, Goto, Reads
<1>21. ASSUME NEW c \in Cancellers, CancelClear(c) PROVE Reads'
  BY <1>21 DEF CancelClear, Runs, Goto, Reads
<1>22. ASSUME NEW c \in Cancellers, CancelTap(c) PROVE Reads'
  BY <1>22 DEF CancelTap, Runs, Goto, Reads
<1>23. ASSUME NEW c \in Cancellers, CancelRefused(c) PROVE Reads'
  BY <1>23 DEF CancelRefused, Runs, Goto, Reads
<1>24. ASSUME NEW c \in Cancellers, CancelIoctl(c) PROVE Reads'
  BY <1>24 DEF CancelIoctl, Runs, Goto, Device!Cancel, Reads
<1>25. ASSUME NEW c \in Cancellers, CancelWake(c) PROVE Reads'
  BY <1>25 DEF CancelWake, Runs, Goto, Device!Notify, Reads
<1>26. ASSUME SignalMain PROVE Reads'
  BY <1>26 DEF SignalMain, Goto, Reads
<1>27. ASSUME SignalLoop PROVE Reads'
  BY <1>27 DEF SignalLoop, Goto, Device!PollInterrupted, Device!PollReturn, Reads
<1>28. ASSUME Driver PROVE Reads'
  BY <1>28 DEF Driver, Device!Offer, Device!Drain, Device!Notify, Reads
<1>29. ASSUME TapArrive PROVE Reads'
  BY <1>29 DEF TapArrive, Reads
<1>30. ASSUME TapDelete PROVE Reads'
  BY <1>30 DEF TapDelete, Reads
<1>31. ASSUME Kill PROVE Reads'
  BY <1>31 DEF Kill, Released, Device!Close, Reads
<1>32. ASSUME Restart PROVE Reads'
  BY <1>32 DEF Restart, Reads
<1>33. CASE UNCHANGED vars
  BY <1>33 DEF vars, Reads
<1> QED
  BY <1>1, <1>2, <1>3, <1>4, <1>5, <1>6, <1>7, <1>8, <1>9, <1>10, <1>11, <1>12, <1>13,
     <1>14, <1>15, <1>16, <1>17, <1>18, <1>19, <1>20, <1>21, <1>22, <1>23, <1>24,
     <1>25, <1>26, <1>27, <1>28, <1>29, <1>30, <1>31, <1>32, <1>33 DEF Next, Main,
     Loop, CancelLoop

-----------------------------------------------------------------------------
\* The strengthening holds in every reachable state, so that nothing the
\* threads, the handlers, the kernel or a kill can do in any order breaks it.
THEOREM InductiveInvariant == Spec => []IInv
<1>1. IInv /\ [Next]_vars => IInv'
  BY TypeStep, PositionsStep, StoppingStep, AskedStep, ReadsStep DEF IInv
<1> QED
  BY InitIInv, <1>1, PTL DEF Spec

\* The program's, the library's and the device's variables keep their types.
THEOREM TypeCorrect == Spec => []TypeOK
BY InductiveInvariant, PTL DEF IInv

\* kvnet_close runs only when no read, ioctl or handler can still use fdesc, but
\* for a program without a packet loop.
THEOREM DescriptorsLive == Spec => []NoUseAfterClose
<1>1. IInv => NoUseAfterClose
  BY DEF IInv, TypeOK, Positions, Stopping, NoUseAfterClose, LoopDone
<1> QED
  BY <1>1, InductiveInvariant, PTL

\* A read ends with KVNET_READ_CANCELLED only after cancel_loop cleared
\* can_run_loop in the same run of the program, or on a TAP device whose
\* interface was deleted.
THEOREM NoStrayCancel == Spec => CancelledMeansAsked
<1>1. IInv /\ [Next]_vars
          => [lpc' = "cancelled" => lpc = "cancelled" \/ ~can_run_loop \/ tap = "gone"]_vars
  <2> SUFFICES ASSUME IInv, Next, lpc' = "cancelled", lpc # "cancelled"
               PROVE  ~can_run_loop \/ tap = "gone"
    OBVIOUS
  <2> USE DEF IInv, Asked
  <2>1. CASE TapPoll
    BY <2>1 DEF TapPoll, TapReadable, TapGone, TapTimeout, TapCanceled, TapAgain, TapFails,
       TapStep, LGoto
  <2>2. CASE KvnetCanceled
    BY <2>2 DEF KvnetCanceled, LoopRuns, Positions, Device!PollCanceled
  <2>3. CASE Loop /\ ~TapPoll /\ ~KvnetCanceled
    BY <2>3 DEF Loop, LoopInfo, LoopSetup, LoopTest, LoopCall, TapFetch, KvnetPoll,
       KvnetFails, KvnetFetch, LGoto
  <2>4. CASE Main \/ MainQuit \/ Kill \/ Restart
    BY <2>4 DEF Main, MainOpen, Opens, MainOpenFails, MainRunLoop, MainCreate, MainJoin,
       MainClose, MainForget, MainExit, MainQuit, Kill, Restart
  <2>5. CASE \E c \in Cancellers : CancelLoop(c)
    BY <2>5 DEF CancelLoop, CancelTest, CancelClear, CancelTap, CancelRefused, CancelIoctl,
       CancelWake
  <2>6. CASE SignalMain \/ SignalLoop \/ Driver \/ TapArrive \/ TapDelete
    BY <2>6 DEF SignalMain, SignalLoop, Driver, TapArrive, TapDelete
  <2> QED
    BY <2>1, <2>2, <2>3, <2>4, <2>5, <2>6 DEF Next
<1> QED
  BY <1>1, InductiveInvariant, PTL DEF Spec, CancelledMeansAsked

\* After cancel_loop cleared can_run_loop the packet loop calls kvnet_read at
\* most once.
THEOREM AtMostOneMoreRead == Spec => []OneMoreRead
BY InductiveInvariant, PTL DEF IInv, Reads

-----------------------------------------------------------------------------
(***************************************************************************)
(* The reader and the wait queue.  Waits: the reader is in poll or read of *)
(* an open kvnet device while its thread is in kvnet_read, and on the wait *)
(* queue from poll_wait until poll returns.  Sleeps: what SleepJustified   *)
(* says, from the test of io_dev.canceled on.                              *)
(***************************************************************************)
Waits ==
    /\ at # "out" => mpc # "exited" /\ lpc = "read" /\ open
    /\ waiting => at \notin {"out", "fetch"}
    /\ at \in {"test", "wait"} => waiting

Sleeps ==
    ~woken =>
        /\ at = "wait" => ~readable
        /\ at \in {"register", "test", "wait"} /\ io_canceled =>
               missed \/ \E c \in Cancellers : cpc[c] = "wake"

WaitInv == Waits /\ Sleeps

\* Every step keeps the reader on the wait queue until poll returns.
LEMMA WaitsStep ==
  ASSUME IInv, Waits, [Next]_vars
  PROVE  Waits'
<1> USE ClientAssumption DEF IInv, program, lib, device, history, TypeOK, LoopDone,
   Positions
<1>1. ASSUME MainOpen PROVE Waits'
  BY <1>1 DEF MainOpen, Opens, MainRuns, Device!Open, Waits
<1>2. ASSUME MainOpenFails PROVE Waits'
  BY <1>2 DEF MainOpenFails, MainRuns, Waits
<1>3. ASSUME MainRunLoop PROVE Waits'
  BY <1>3 DEF MainRunLoop, MainRuns, Waits
<1>4. ASSUME MainCreate PROVE Waits'
  BY <1>4 DEF MainCreate, MainRuns, Waits
<1>5. ASSUME MainJoin PROVE Waits'
  BY <1>5 DEF MainJoin, MainRuns, Waits
<1>6. ASSUME MainClose PROVE Waits'
  BY <1>6 DEF MainClose, MainRuns, Released, Device!Close, Waits
<1>7. ASSUME MainForget PROVE Waits'
  BY <1>7 DEF MainForget, MainRuns, Waits
<1>8. ASSUME MainExit PROVE Waits'
  BY <1>8 DEF MainExit, MainRuns, Waits
<1>9. ASSUME MainQuit PROVE Waits'
  BY <1>9 DEF MainQuit, MainRuns, Waits
<1>10. ASSUME LoopInfo PROVE Waits'
  BY <1>10 DEF LoopInfo, LoopRuns, LGoto, Waits
<1>11. ASSUME LoopSetup PROVE Waits'
  BY <1>11 DEF LoopSetup, LoopRuns, LGoto, Waits
<1>12. ASSUME LoopTest PROVE Waits'
  BY <1>12 DEF LoopTest, LoopRuns, LGoto, Waits
<1>13. ASSUME LoopCall PROVE Waits'
  BY <1>13 DEF LoopCall, LoopRuns, LGoto, Device!PollBegin, Waits
<1>14. ASSUME TapPoll PROVE Waits'
  BY <1>14 DEF TapPoll, TapReadable, TapGone, TapTimeout, TapCanceled, TapAgain,
     TapFails, TapStep, LoopRuns, LGoto, Waits
<1>15. ASSUME TapFetch PROVE Waits'
  BY <1>15 DEF TapFetch, LoopRuns, LGoto, Waits
<1>16. ASSUME KvnetPoll PROVE Waits'
  <2>1. CASE Device!PollGoesOn
    BY <1>16, <2>1 DEF KvnetPoll, LoopRuns, LGoto, Device!PollGoesOn, Waits
  <2>2. CASE Device!PollRegister
    BY <1>16, <2>2 DEF KvnetPoll, LoopRuns, LGoto, Device!PollRegister, Waits
  <2>3. CASE Device!PollEmpty
    BY <1>16, <2>3 DEF KvnetPoll, LoopRuns, LGoto, Device!PollEmpty, Waits
  <2>4. CASE Device!PollWoken
    BY <1>16, <2>4 DEF KvnetPoll, LoopRuns, LGoto, Device!PollWoken, Waits
  <2>5. CASE Device!PollReadable
    BY <1>16, <2>5 DEF KvnetPoll, LoopRuns, LGoto, Device!PollReadable, Device!PollReturn,
       Waits
  <2> QED
    BY <1>16, <2>1, <2>2, <2>3, <2>4, <2>5 DEF KvnetPoll
<1>17. ASSUME KvnetCanceled PROVE Waits'
  BY <1>17 DEF KvnetCanceled, LoopRuns, LGoto, Device!PollCanceled, Device!PollReturn,
     Waits
<1>18. ASSUME KvnetFails PROVE Waits'
  BY <1>18 DEF KvnetFails, LoopRuns, LGoto, Device!PollFails, Device!PollReturn, Waits
<1>19. ASSUME KvnetFetch PROVE Waits'
  <2>1. at' = "out" /\ open' = open /\ waiting' = waiting /\ ~waiting
    BY <1>19 DEF KvnetFetch, Device!ReadReturn, Waits
  <2> QED
    BY <2>1 DEF Waits
<1>20. ASSUME NEW c \in Cancellers, CancelTest(c) PROVE Waits'
  BY <1>20 DEF CancelTest, Runs, Goto, Waits
<1>21. ASSUME NEW c \in Cancellers, CancelClear(c) PROVE Waits'
  BY <1>21 DEF CancelClear, Runs, Goto, Waits
<1>22. ASSUME NEW c \in Cancellers, CancelTap(c) PROVE Waits'
  BY <1>22 DEF CancelTap, Runs, Goto, Waits
<1>23. ASSUME NEW c \in Cancellers, CancelRefused(c) PROVE Waits'
  BY <1>23 DEF CancelRefused, Runs, Goto, Waits
<1>24. ASSUME NEW c \in Cancellers, CancelIoctl(c) PROVE Waits'
  BY <1>24 DEF CancelIoctl, Runs, Goto, Device!Cancel, Waits
<1>25. ASSUME NEW c \in Cancellers, CancelWake(c) PROVE Waits'
  BY <1>25 DEF CancelWake, Runs, Goto, Device!Notify, Waits
<1>26. ASSUME SignalMain PROVE Waits'
  BY <1>26 DEF SignalMain, Goto, Waits
<1>27. ASSUME SignalLoop PROVE Waits'
  BY <1>27 DEF SignalLoop, Goto, Device!PollInterrupted, Device!PollReturn, Waits
<1>28. ASSUME Driver PROVE Waits'
  BY <1>28 DEF Driver, Device!Offer, Device!Drain, Device!Notify, Waits
<1>29. ASSUME TapArrive PROVE Waits'
  BY <1>29 DEF TapArrive, Waits
<1>30. ASSUME TapDelete PROVE Waits'
  BY <1>30 DEF TapDelete, Waits
<1>31. ASSUME Kill PROVE Waits'
  BY <1>31 DEF Kill, Released, Device!Close, Waits
<1>32. ASSUME Restart PROVE Waits'
  BY <1>32 DEF Restart, Waits
<1>33. CASE UNCHANGED vars
  BY <1>33 DEF vars, Waits
<1> QED
  BY <1>1, <1>2, <1>3, <1>4, <1>5, <1>6, <1>7, <1>8, <1>9, <1>10, <1>11, <1>12, <1>13,
     <1>14, <1>15, <1>16, <1>17, <1>18, <1>19, <1>20, <1>21, <1>22, <1>23, <1>24,
     <1>25, <1>26, <1>27, <1>28, <1>29, <1>30, <1>31, <1>32, <1>33 DEF Next, Main,
     Loop, CancelLoop

\* No step lets it sleep through a packet, or through a cancel that finds it
\* on the wait queue.
LEMMA SleepsStep ==
  ASSUME IInv, WaitInv, [Next]_vars
  PROVE  Sleeps'
<1> USE ClientAssumption DEF IInv, program, lib, device, history, Cancellers, TypeOK,
   LoopDone, Waits, WaitInv, Positions
<1>1. ASSUME MainOpen PROVE Sleeps'
  BY <1>1 DEF MainOpen, Opens, MainRuns, Device!Open, Sleeps
<1>2. ASSUME MainOpenFails PROVE Sleeps'
  BY <1>2 DEF MainOpenFails, MainRuns, Sleeps
<1>3. ASSUME MainRunLoop PROVE Sleeps'
  BY <1>3 DEF MainRunLoop, MainRuns, Sleeps
<1>4. ASSUME MainCreate PROVE Sleeps'
  BY <1>4 DEF MainCreate, MainRuns, Sleeps
<1>5. ASSUME MainJoin PROVE Sleeps'
  BY <1>5 DEF MainJoin, MainRuns, Sleeps
<1>6. ASSUME MainClose PROVE Sleeps'
  BY <1>6 DEF MainClose, MainRuns, Released, Device!Close, Sleeps
<1>7. ASSUME MainForget PROVE Sleeps'
  BY <1>7 DEF MainForget, MainRuns, Sleeps
<1>8. ASSUME MainExit PROVE Sleeps'
  BY <1>8 DEF MainExit, MainRuns, Sleeps
<1>9. ASSUME MainQuit PROVE Sleeps'
  BY <1>9 DEF MainQuit, MainRuns, Sleeps
<1>10. ASSUME LoopInfo PROVE Sleeps'
  BY <1>10 DEF LoopInfo, LoopRuns, LGoto, Sleeps
<1>11. ASSUME LoopSetup PROVE Sleeps'
  BY <1>11 DEF LoopSetup, LoopRuns, LGoto, Sleeps
<1>12. ASSUME LoopTest PROVE Sleeps'
  BY <1>12 DEF LoopTest, LoopRuns, LGoto, Sleeps
<1>13. ASSUME LoopCall PROVE Sleeps'
  BY <1>13 DEF LoopCall, LoopRuns, LGoto, Device!PollBegin, Sleeps
<1>14. ASSUME TapPoll PROVE Sleeps'
  BY <1>14 DEF TapPoll, TapReadable, TapGone, TapTimeout, TapCanceled, TapAgain,
     TapFails, TapStep, LoopRuns, LGoto, Sleeps
<1>15. ASSUME TapFetch PROVE Sleeps'
  BY <1>15 DEF TapFetch, LoopRuns, LGoto, Sleeps
<1>16. ASSUME KvnetPoll PROVE Sleeps'
  <2>1. CASE Device!PollGoesOn
    BY <1>16, <2>1 DEF KvnetPoll, LoopRuns, LGoto, Device!PollGoesOn, Sleeps
  <2>2. CASE Device!PollRegister
    BY <1>16, <2>2 DEF KvnetPoll, LoopRuns, LGoto, Device!PollRegister, Sleeps
  <2>3. CASE Device!PollEmpty
    BY <1>16, <2>3 DEF KvnetPoll, LoopRuns, LGoto, Device!PollEmpty, Sleeps
  <2>4. CASE Device!PollWoken
    BY <1>16, <2>4 DEF KvnetPoll, LoopRuns, LGoto, Device!PollWoken, Sleeps
  <2>5. CASE Device!PollReadable
    BY <1>16, <2>5 DEF KvnetPoll, LoopRuns, LGoto, Device!PollReadable, Device!PollReturn,
       Sleeps
  <2> QED
    BY <1>16, <2>1, <2>2, <2>3, <2>4, <2>5 DEF KvnetPoll
<1>17. ASSUME KvnetCanceled PROVE Sleeps'
  BY <1>17 DEF KvnetCanceled, LoopRuns, LGoto, Device!PollCanceled, Device!PollReturn,
     Sleeps
<1>18. ASSUME KvnetFails PROVE Sleeps'
  BY <1>18 DEF KvnetFails, LoopRuns, LGoto, Device!PollFails, Device!PollReturn, Sleeps
<1>19. ASSUME KvnetFetch PROVE Sleeps'
  BY <1>19 DEF KvnetFetch, LoopRuns, LGoto, Device!ReadReturn, Sleeps
<1>20. ASSUME NEW c \in Cancellers, CancelTest(c) PROVE Sleeps'
  BY <1>20 DEF CancelTest, Runs, Goto, Sleeps
<1>21. ASSUME NEW c \in Cancellers, CancelClear(c) PROVE Sleeps'
  BY <1>21 DEF CancelClear, Runs, Goto, Sleeps
<1>22. ASSUME NEW c \in Cancellers, CancelTap(c) PROVE Sleeps'
  BY <1>22 DEF CancelTap, Runs, Goto, Sleeps
<1>23. ASSUME NEW c \in Cancellers, CancelRefused(c) PROVE Sleeps'
  BY <1>23 DEF CancelRefused, Runs, Goto, Sleeps
<1>24. ASSUME NEW c \in Cancellers, CancelIoctl(c) PROVE Sleeps'
  BY <1>24 DEF CancelIoctl, Runs, Goto, Device!Cancel, Sleeps
<1>25. ASSUME NEW c \in Cancellers, CancelWake(c) PROVE Sleeps'
  BY <1>25 DEF CancelWake, Runs, Goto, Device!Notify, Sleeps
<1>26. ASSUME SignalMain PROVE Sleeps'
  BY <1>26 DEF SignalMain, Goto, Sleeps
<1>27. ASSUME SignalLoop PROVE Sleeps'
  BY <1>27 DEF SignalLoop, Goto, Device!PollInterrupted, Device!PollReturn, Sleeps
<1>28. ASSUME Driver PROVE Sleeps'
  BY <1>28 DEF Driver, Device!Offer, Device!Drain, Device!Notify, Sleeps
<1>29. ASSUME TapArrive PROVE Sleeps'
  BY <1>29 DEF TapArrive, Sleeps
<1>30. ASSUME TapDelete PROVE Sleeps'
  BY <1>30 DEF TapDelete, Sleeps
<1>31. ASSUME Kill PROVE Sleeps'
  BY <1>31 DEF Kill, Released, Device!Close, Sleeps
<1>32. ASSUME Restart PROVE Sleeps'
  BY <1>32 DEF Restart, Sleeps
<1>33. CASE UNCHANGED vars
  BY <1>33 DEF vars, Sleeps
<1> QED
  BY <1>1, <1>2, <1>3, <1>4, <1>5, <1>6, <1>7, <1>8, <1>9, <1>10, <1>11, <1>12, <1>13,
     <1>14, <1>15, <1>16, <1>17, <1>18, <1>19, <1>20, <1>21, <1>22, <1>23, <1>24,
     <1>25, <1>26, <1>27, <1>28, <1>29, <1>30, <1>31, <1>32, <1>33 DEF Next, Main,
     Loop, CancelLoop

-----------------------------------------------------------------------------
\* The reader and the wait queue fit each other in every reachable state.
THEOREM WaitInvariant == Spec => []WaitInv
<1>1. Init => WaitInv
  BY DEF Init, Device!Init, WaitInv, Waits, Sleeps
<1>2. IInv /\ WaitInv /\ [Next]_vars => WaitInv'
  BY WaitsStep, SleepsStep DEF WaitInv
<1> QED
  BY <1>1, <1>2, InductiveInvariant, PTL DEF Spec

\* io_dev_poll never leaves the program asleep with a packet in the queue or,
\* unless its wakeup came between the test of io_dev.canceled and poll_wait,
\* with a cancel that nobody will tell it about.
THEOREM SleepsForAReason == Spec => []SleepJustified
<1>1. WaitInv => SleepJustified
  BY DEF WaitInv, Waits, Sleeps, SleepJustified
<1> QED
  BY <1>1, WaitInvariant, PTL
=============================================================================
