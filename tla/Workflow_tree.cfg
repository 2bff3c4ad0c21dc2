\* A child run launched after the child runs were reclaimed.
SPECIFICATION Spec
CONSTANTS
    a = a
    p = p
    c = c
    x = x
    y = y
    Runs = {p, c}
    Keys = {x, y}
    Body <- TreeBody
    Asks <- TreeAsks
    Callers = {a}
    NoRun = NoRun
    MaxLaunches = 2
    MaxEvents = 1
INVARIANTS
    TreeIsTornDown
CHECK_DEADLOCK FALSE
