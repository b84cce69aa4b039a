SPECIFICATION Spec
CONSTANTS
    e1 = e1
    e2 = e2
    e3 = e3
    e4 = e4
    e5 = e5
    im = im
    cap = cap
    Router = Router
    Script = Script
    None = None
    Tasks = {im, cap, Router, Script}
    Events = {e1}
    IdOf <- OwnId
    PublisherOf <- ByTask
    RuleSets <- SelfReloading
    Filters <- AllOrOne
    QueueLen = 1
    Slots = 1
    MaxReloads = 1
    Texts = {}
    DefaultAgent = FALSE
    FromRouter = {}
INVARIANTS
    RuleInUseIsLive
CHECK_DEADLOCK FALSE
