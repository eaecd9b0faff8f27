\* Spec mode: the planner grows the list of increments, under every kind of budget:
\* two increments out of three.  Nobody revives the Run.
CONSTANTS
    NumUnits = 3
    Mode = "spec"
    MaxQueue = 0
    MaxUnits = 2
    MaxTokens = 6
    HasMaxRuntime = TRUE
    MaxCIRetries = 1
    MaxTurns = 7
    Verbs = {"resume", "skip", "stop", "prompt", "freeform"}
    CanRevive = FALSE
SPECIFICATION Spec
INVARIANTS PlanMatchesUnits BudgetCapsUnits
CHECK_DEADLOCK FALSE
