\* A parent that asks for an agent and a child run; two launches, two events.
SPECIFICATION Spec
CONSTANTS
    a = a
    p = p
    c = c
    x = x
    y = y
    Runs = {p, c}
    Keys = {x, y}
    Body <- TreeBody
    Asks <- TreeAsks
    Callers = {a}
    NoRun = NoRun
    MaxLaunches = 2
    MaxEvents = 2
INVARIANTS
    LiveRunIsReachable
    TerminalIsRecorded
    NothingIsRedone
PROPERTIES
    LateActorsAreStopped
    
CHECK_DEADLOCK FALSE
