------------------------------ MODULE MCKvnetRx ------------------------------
(* Small instance of KvnetRx for TLC.                                      *)
EXTENDS KvnetRx, TLC

\* The threads of the program are interchangeable.
Symmetry == Permutations(Writers)
=============================================================================
