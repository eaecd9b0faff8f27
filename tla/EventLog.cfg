\* Two receivers of two topics, events of two Runs, deletions and restarts.
CONSTANTS
    discovering = discovering
    working = working
    x = x
    y = y
    discover = discover
    late = late
    Topics = {discovering, working}
    Runs = {x, y}
    Receivers = {discover, late}
    TopicOf <- MCTopicOf
    FromLatest = {late}
    MaxEvents = 4
SPECIFICATION Spec
INVARIANT NoLostWakeup
PROPERTIES ImplementsQueues QueuesDrain
CHECK_DEADLOCK FALSE
