SPECIFICATION SchedSpec
CONSTANTS
    alarm = alarm
    chime = chime
    NoId = NoId
    Ids = {alarm, chime}
    Items <- Beats
    Epoch = 3
    MaxTime = 3
    MaxRuns = 0
    MaxFaults = 1
CHECK_DEADLOCK FALSE
INVARIANTS
    NoTaskIsLost
