-------------------------- MODULE MCUserOpsIndexer --------------------------
(* Small instances of UserOpsIndexer for TLC.  One transaction meets itself: *)
(* its inclusions, the copies of its job in three streams and two handlers.  *)
EXTENDS UserOpsIndexer
=============================================================================
