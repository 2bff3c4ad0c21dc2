\* Two agents and three events, of which at most two are messages of the founder:
\* messages, failures, posts, interrupts, restarts.
SPECIFICATION BusySpec
CONSTANTS
    Agents = {a, b}
    Human = human
    Threads = {t}
    MaxTurns = 2
    MaxAttempts = 2
    MaxSends = 2
    MaxEvents = 3
INVARIANTS
    PendingIsAttended
    AnsweredOnce
    TurnsAreBudgeted
PROPERTIES
    DeliveriesEnd
CHECK_DEADLOCK FALSE
