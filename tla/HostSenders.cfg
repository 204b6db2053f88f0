CONSTANTS
    Receiver = r
    Senders = {s1, s2}
    Tasks = {r, s1, s2}
    NoTask = none
    MaxTasks = 1
    MaxTime = 1
    Capacity = 1
    Events = {}
SPECIFICATION Spec
INVARIANT NoLostWakeup
CHECK_DEADLOCK FALSE
