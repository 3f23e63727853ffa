---------------------------- MODULE MCKvnetClient ----------------------------
(* Small instance of KvnetClient for TLC.                                  *)
EXTENDS KvnetClient
=============================================================================
