SPECIFICATION MCSpec
CONSTANTS
    a = a
    b = b
    c = c
    name = name
    stopper = stopper
    None = None
    Jobs = {a, b, c}
    Keys <- SameName
    Replacing = {b}
    Sync = {a}
    Stoppers = {stopper}
    MaxJobs = 2
    MaxConcurrent = 2
INVARIANTS
    RunningIsExact
    OneHolderPerKey
    RunningOwnsSlot
    ResultIsKept
    SlotsComeBack
PROPERTIES
    CallsReturn
CHECK_DEADLOCK FALSE
