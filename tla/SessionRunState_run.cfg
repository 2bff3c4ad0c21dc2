\* Two callers, two cancellers, a fiber may be suspended anywhere.  It all stops
\* when both works were interrupted before their first step: nobody is answered.
SPECIFICATION FairSpec
CHECK_DEADLOCK FALSE
CONSTANTS
    a = a
    b = b
    j = j
    k = k
    Callers = {a, b}
    Cancellers = {j, k}
    NoOne = NoOne
    Preemptive = TRUE
INVARIANTS
    RunningWorkIsCurrent
    WaiterIsOwed
    QuietSessionIsIdle
PROPERTIES
    CancelReturns
    CancelledCallersReturn
