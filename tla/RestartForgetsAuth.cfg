\* Violation: after a restart nobody lifts the auth pause.
CONSTANTS
    NumUnits = 2
    Mode = "sweep"
    MaxQueue = 2
    MaxUnits = 0
    MaxTokens = 0
    HasMaxRuntime = FALSE
    MaxCIRetries = 1
    MaxTurns = 2
    Verbs = {}
    CanRevive = FALSE
    MaxExpiries = 1
    MaxRestarts = 1
    MaxLost = 0
SPECIFICATION PolledSpec
PROPERTY AuthPauseAlwaysLifts
CHECK_DEADLOCK FALSE
