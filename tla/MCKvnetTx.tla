----------------------------- MODULE MCKvnetTx -----------------------------
(* Small instances of KvnetTx for TLC.                                     *)
EXTENDS KvnetTx, TLC

\* The contexts of one kind are interchangeable.
Symmetry == Permutations(Senders) \cup Permutations(Readers)
=============================================================================
