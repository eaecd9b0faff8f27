\* Violation: a resolved conflict is committed, and base is not merged.
CONSTANTS
    Attempts = 1
    MaxTurns = 1
    MaxStops = 0
    MaxLost = 0
SPECIFICATION Spec
INVARIANT AnswerHoldsBase
CHECK_DEADLOCK FALSE
