\* A background actor and one that it spawns: blocking by the tool, or in the
\* background and naming it.  One cancellation at a time and a restart.
SPECIFICATION FairSpec
CONSTANTS
    p = p
    c = c
    u = u
    Main = Main
    Actors = {p, c}
    Parent <- Family
    Background = {p}
    Frozen = {c}
    GateEligible = {c}
    Callers = {u}
    MaxPreReact = 1
    MaxPostReact = 1
    MaxGateReact = 1
    Hooked = {c}
    Messaged = {c}
    MaxCrashes = 1
INVARIANTS
    UnfinishedIsAttended
    CancelHolds
    NotesAgree
PROPERTIES
    WorkEnds
    CancelsReturn
    CallsReturn
CHECK_DEADLOCK FALSE
