----------------------------- MODULE MCLlmBatch -----------------------------
(* Instances of LlmBatch for TLC.                                          *)
EXTENDS LlmBatch

MCKinds == {"chat", "empty", "malformed"}
MCFaults == {"load", "model", "crash"}
=============================================================================
