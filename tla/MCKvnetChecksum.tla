--------------------------- MODULE MCKvnetChecksum ---------------------------
(* Small instance of KvnetChecksum for TLC.                                *)
EXTENDS KvnetChecksum
=============================================================================
