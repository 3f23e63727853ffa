---------------------------- MODULE MCKvnetQueue ----------------------------
(* Small instance of KvnetQueue for TLC.                                   *)
EXTENDS KvnetQueue, TLC

\* The sk_buffs and the contexts of one kind are interchangeable.
Symmetry == Permutations(Skb) \cup Permutations(Senders) \cup Permutations(Readers)
=============================================================================
