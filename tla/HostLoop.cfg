CONSTANTS
    Receiver = r
    Senders = {s1}
    Tasks = {r, s1}
    NoTask = none
    MaxTasks = 1
    MaxTime = 1
    Capacity = 1
    Events = {"panic", "shutdown", "unavailable"}
SPECIFICATION FairSpec
INVARIANTS NoLostWakeup NoTimerMissed ShutdownReleases
PROPERTY WokenPolled
CHECK_DEADLOCK FALSE
