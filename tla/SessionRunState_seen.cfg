\* Fibers are suspended only where they wait.  It all stops when the only cancel
\* waits for a run that was interrupted before its first step.
SPECIFICATION Spec
CHECK_DEADLOCK FALSE
CONSTANTS
    a = a
    b = b
    c = c
    d = d
    k = k
    Callers = {a, b, c, d}
    Cancellers = {k}
    NoOne = NoOne
    Preemptive = FALSE
SYMMETRY Symmetry
INVARIANT RunningWorkIsSeen
