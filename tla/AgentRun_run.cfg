\* One run, of either runtime; two callers, two crashes, one rejected write.
SPECIFICATION FairSpec
CONSTANTS
    r1 = r1
    r2 = r2
    c1 = c1
    c2 = c2
    Runs = {r1, r2}
    CliRuns = {r1}
    Callers = {c1, c2}
    Executors = {c2}
    NoRun = NoRun
    MaxRuns = 1
    MaxSessions = 1
    MaxCrashes = 2
    MaxWriteFailures = 1
INVARIANTS
    StopWasRequested
    OutcomeHasEvidence
    BusyRunIsAttended
PROPERTIES
    OutcomeYieldsOnlyToStop
    RecoveryKeepsStop
    CrashedRunSettles
    MarkedRunStops
