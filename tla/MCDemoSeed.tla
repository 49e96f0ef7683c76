----------------------------- MODULE MCDemoSeed -----------------------------
(* Instances of DemoSeed for TLC.                                          *)
EXTENDS DemoSeed

\* An address that is drawn twice, and another.
MCDrawn == <<"alice.payne", "bob.auth", "alice.payne">>

MCFaults == {"database", "network", "interrupt"}
=============================================================================
