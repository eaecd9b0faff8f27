\* A GitHub PR with two of its comment streams, commands from both sides, faults,
\* answers to review threads that the provider refuses.
CONSTANTS
    Streams = {"issue", "review"}
    MainStream = "issue"
    FirstID <- MCFirstID
    Inline = {"review"}
    ThreadsAnswer = FALSE
    NewestFirst = FALSE
    PageSize = 3
    RingCap = 2
    Verbs = {"resume", "prompt"}
    PostsFail = FALSE
    MaxNotes = 2
    MaxReplies = 3
    MaxMeddling = 1
SPECIFICATION Spec
INVARIANTS NoNoteLost BotIsNotAnswered PromptReachesRunner
PROPERTIES HandledOnce EveryNoteArrives
CHECK_DEADLOCK FALSE
