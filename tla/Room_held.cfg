\* Two agents, one message and one other event.
SPECIFICATION FairSpec
CONSTANTS
    Agents = {a, b}
    Human = human
    Threads = {t, u}
    MaxTurns = 1
    MaxAttempts = 2
    MaxSends = 1
    MaxEvents = 2
PROPERTIES
    HeldIsRevisited
CHECK_DEADLOCK FALSE
