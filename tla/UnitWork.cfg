\* A unit through three turns, with two stops of the daemon, a lost answer and lock contention.
CONSTANTS
    Attempts = 3
    MaxTurns = 3
    MaxStops = 2
    MaxLost = 1
SPECIFICATION Spec
INVARIANTS WorkIsNotDropped AnswerIsPushed LocksNeverRefuse FailureLeavesNoMR
PROPERTIES WorkEnds ImplementsUnitLife
CHECK_DEADLOCK FALSE
