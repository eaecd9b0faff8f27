\* A sweep of two units fed by the poller, to its end: its author pauses and resumes it,
\* the token expires, the daemon is restarted, and a dispatch is lost.
CONSTANTS
    NumUnits = 2
    Mode = "sweep"
    MaxQueue = 2
    MaxUnits = 0
    MaxTokens = 0
    HasMaxRuntime = FALSE
    MaxCIRetries = 0
    MaxTurns = 2
    Verbs = {"pause", "resume"}
    CanRevive = FALSE
    MaxExpiries = 1
    MaxRestarts = 1
    MaxLost = 1
SPECIFICATION AskedSpec
INVARIANTS OneUnitAtATime HoldsWhileTokenDoes
PROPERTIES OnlyLossForgetsAuth ImplementsSweep NoUnitLost DecisionIsRecorded AuthPauseLifts SweepEnds
CHECK_DEADLOCK FALSE
