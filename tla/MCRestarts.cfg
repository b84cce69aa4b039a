SPECIFICATION Spec
CONSTANTS
    alarm = alarm
    chime = chime
    lua = lua
    console = console
    greet = greet
    bot1 = bot1
    bot2 = bot2
    NoId = NoId
    Ids = {alarm}
    Items <- Kinds
    Epoch = 3
    MaxTime = 6
    MaxRuns = 1
    MaxFaults = 1
    Editors = {lua, console}
    Rules = {greet, alarm}
    Versions = {bot1}
    Absent = Absent
    Missing = Missing
    Torn = Torn
    NoEditor = NoEditor
    Bots = {bot1, bot2}
    MaxId = 2
    Files = {2}
    SeenSize = 1
    QueueSize = 1
    MaxSavers = 2
    MaxResets = 1
CHECK_DEADLOCK FALSE
INVARIANTS
    OnceFiresOnce
    StoredIsLoaded
    
    ForgottenWasHandled
    PublishedOnce
    QueueOutlivesItsTask
PROPERTIES
    PausedStaysQuiet
