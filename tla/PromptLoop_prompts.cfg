\* A second prompt while the run of the first goes on.
SPECIFICATION Spec
CONSTANTS
    p = p
    q = q
    Prompts = {p, q}
    Notes = {}
    Mail = {}
    Goals = {}
    NoGoal = NoGoal
    Fresh = FALSE
    MaxDrain = 1
    MaxTaskReact = 1
    MaxGoalReact = 1
    MaxToolSteps = 0
    MaxMessages = 14
    MaxInterruptions = 0
INVARIANTS
    PromptsAreShown
CHECK_DEADLOCK FALSE
