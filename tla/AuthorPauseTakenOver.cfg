\* Violation: an expired token takes the author's pause over, and ends it when refreshed.
CONSTANTS
    NumUnits = 1
    Mode = "sweep"
    MaxQueue = 1
    MaxUnits = 0
    MaxTokens = 0
    HasMaxRuntime = FALSE
    MaxCIRetries = 0
    MaxTurns = 2
    Verbs = {"pause", "resume"}
    CanRevive = FALSE
    MaxExpiries = 1
    MaxRestarts = 0
    MaxLost = 0
SPECIFICATION AskedSpec
INVARIANT AuthorsPauseHolds
CHECK_DEADLOCK FALSE
