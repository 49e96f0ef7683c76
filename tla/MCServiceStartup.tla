-------------------------- MODULE MCServiceStartup --------------------------
(* Instances of ServiceStartup for TLC.                                    *)
EXTENDS ServiceStartup, TLC

CONSTANTS auth1, activity1, activity2, task1, agent1

\* Every service, and the activity service twice.
AllServices ==
    (auth1 :> "auth") @@ (activity1 :> "activity") @@ (activity2 :> "activity")
        @@ (task1 :> "task") @@ (agent1 :> "agent")

\* The two services that lock.
TwoServices == (auth1 :> "auth") @@ (activity1 :> "activity")
=============================================================================
