\* A sweep of three units with duplicates in its queue, every verb, revived at will.
CONSTANTS
    NumUnits = 3
    Mode = "sweep"
    MaxQueue = 3
    MaxUnits = 0
    MaxTokens = 0
    HasMaxRuntime = FALSE
    MaxCIRetries = 1
    MaxTurns = 2
    Verbs = {"pause", "resume", "retry", "skip", "prompt", "status", "stop", "abandon", "freeform"}
    CanRevive = TRUE
SPECIFICATION Spec
INVARIANTS UnitsDisjoint MRsAccounted
PROPERTIES ImplementsUnitLife ImplementsLifecycle SwallowedOnlyWhileParked PausedHoldsStill OnlyPausesEndInNothing
CHECK_DEADLOCK FALSE
