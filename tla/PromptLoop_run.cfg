\* A goal, tasks, a prompt, a note and an agent message, and a cancel or a crash.
SPECIFICATION FairSpec
CONSTANTS
    a = a
    g = g
    n = n
    p = p
    Prompts = {p}
    Notes = {n}
    Mail = {a}
    Goals = {g}
    NoGoal = NoGoal
    Fresh = FALSE
    MaxDrain = 1
    MaxTaskReact = 1
    MaxGoalReact = 1
    MaxToolSteps = 1
    MaxMessages = 20
    MaxInterruptions = 1
INVARIANTS
    NotesAreKept
    RepeatsNeedInterruption
    NudgesAreBounded
PROPERTIES
    RunsEnd
    
CHECK_DEADLOCK FALSE
