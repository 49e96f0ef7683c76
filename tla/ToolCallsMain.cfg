\* The service as main builds it; nothing fails.
SPECIFICATION Spec
CONSTANTS
    Attempts = {a1, a2, a3}
    Tools = {t1}
    Keys = {k1}
    NoKey = NoKey
    NoRow = NoRow
    Stack <- MainStack
    Faults <- MCNoFaults
SYMMETRY MCSymmetry
INVARIANT RetriedCallRecordedOnce
CHECK_DEADLOCK FALSE
