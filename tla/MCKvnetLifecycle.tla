-------------------------- MODULE MCKvnetLifecycle --------------------------
(* Small instances of KvnetLifecycle for TLC.                              *)
EXTENDS KvnetLifecycle, TLC

\* Processes are interchangeable, and so are the net_devices.
Symmetry == Permutations(Procs) \cup Permutations(Dev)
=============================================================================
