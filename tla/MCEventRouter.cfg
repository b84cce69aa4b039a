SPECIFICATION MCSpec
CONSTANTS
    e1 = e1
    e2 = e2
    e3 = e3
    e4 = e4
    e5 = e5
    im = im
    cap = cap
    Router = Router
    Script = Script
    None = None
    Tasks = {im, cap, Router, Script}
    Events = {e1, e2, e3, e4, e5}
    IdOf <- Ids
    PublisherOf <- ByTask
    RuleSets <- AllRules
    Filters <- AllOrOne
    QueueLen = 1
    Slots = 2
    MaxReloads = 1
    Texts = {e1, e3}
    DefaultAgent = TRUE
    FromRouter = {e4}
INVARIANTS
    TrackedOrEvicted
    RevocationHolds
PROPERTIES
    ImplementsBus
    EventsSettle
    PublishReturns
CHECK_DEADLOCK FALSE
