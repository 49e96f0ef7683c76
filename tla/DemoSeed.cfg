\* Two runs, at once or one after the other, through a port-forward; every fault.
SPECIFICATION FairSpec
CONSTANTS
    Runs = {r1, r2}
    Drawn <- MCDrawn
    Total = 2
    Resolves = FALSE
    None = None
    Faults <- MCFaults
INVARIANTS
    TypeOK
    RunsNeverDeadlock
    PhasesAreAtomic
    EndedRunCleansUp
PROPERTY RunEnds
\* Runs are finitely many.
CHECK_DEADLOCK FALSE
