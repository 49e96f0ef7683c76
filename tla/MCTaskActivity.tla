--------------------------- MODULE MCTaskActivity ---------------------------
(* Instances of TaskActivity for TLC.                                      *)
EXTENDS TaskActivity

MCFaults == {"database", "cache", "network", "crash"}
=============================================================================
