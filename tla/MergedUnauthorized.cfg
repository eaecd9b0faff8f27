\* Violation: an MR merged while the token is expired is waited for, for ever.
CONSTANTS
    NumUnits = 2
    Mode = "sweep"
    MaxQueue = 2
    MaxUnits = 0
    MaxTokens = 0
    HasMaxRuntime = FALSE
    MaxCIRetries = 1
    MaxTurns = 2
    Verbs = {}
    CanRevive = FALSE
    MaxExpiries = 1
    MaxRestarts = 0
    MaxLost = 0
SPECIFICATION PolledSpec
PROPERTY SweepAlwaysEnds
CHECK_DEADLOCK FALSE
