SPECIFICATION SchedSpec
CONSTANTS
    alarm = alarm
    chime = chime
    NoId = NoId
    Ids = {alarm}
    Items <- Kinds
    Epoch = 3
    MaxTime = 5
    MaxRuns = 1
    MaxFaults = 0
CHECK_DEADLOCK FALSE
PROPERTIES
    ResumeResumes
