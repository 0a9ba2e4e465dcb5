CONSTANTS
    Services = {"a"}
    MaxEvents = 2
    MaxTime = 1
    Pressure = 1
    Renotify = 1
    MaxDoubts = 0
    Faults = {"race"}
SPECIFICATION NotifySpec
INVARIANT NothingSkipped
