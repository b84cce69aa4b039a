SPECIFICATION Spec
CONSTANTS
    a = a
    b = b
    c = c
    name = name
    stopper = stopper
    None = None
    Jobs = {a, c}
    Keys <- SameName
    Replacing = {}
    Sync = {a, c}
    Stoppers = {}
    MaxJobs = 1
    MaxConcurrent = 1
INVARIANTS
    SyncWaitsItsTime
CHECK_DEADLOCK FALSE
