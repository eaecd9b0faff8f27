\* A Run, two callbacks at a time, the CLI, the sweepers and restarts.
CONSTANTS
    Runs = {x}
    Callers = {poller, control}
    PauseAfterErrs = 2
    MaxVersion = 4
    MaxMeddling = 2
SPECIFICATION Spec
INVARIANTS EventOnItsWay StepOwnsRecord
PROPERTIES ImplementsLifecycle StepsEnd
CHECK_DEADLOCK FALSE
