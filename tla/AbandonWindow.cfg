\* Two ticks are a window with an inside; three notes open it twice.
CONSTANTS
    Window = 2
    MaxNotes = 3
    MaxFaults = 1
SPECIFICATION Spec
INVARIANT OneTapNeverCancels
INVARIANT WindowIsTimed
PROPERTY QuestionKeepsWindow
PROPERTY CleanWindowIsWhole
PROPERTY WindowCloses
CHECK_DEADLOCK FALSE
