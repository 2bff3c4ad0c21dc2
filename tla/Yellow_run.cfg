\* One delegation of one project: two leases, three events.
SPECIFICATION LiveSpec
CONSTANTS
    Runs = {p}
    MaxLeases = 2
    MaxEvents = 3
INVARIANTS
    ExecutedWasApplied
    RecoveryNeverThrows
PROPERTIES
    NotAppliedAfterRollback
    DispatchesComplete
CHECK_DEADLOCK FALSE
