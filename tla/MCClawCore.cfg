SPECIFICATION Spec
CONSTANTS
    r1 = r1
    r2 = r2
    r3 = r3
    s1 = s1
    s2 = s2
    Requests = {r1, r2, r3}
    Interrupts = {r2, r3}
    SkipsResponse = {r3}
    Sessions = {s1, s2}
    SessionOf <- TwoSessions
    None = None
    Wake = Wake
    QueueLen = 1
    ResponseQueueLen = 1
    InsertLen = 1
    MaxIter = 2
    MaxCancels = 1
INVARIANTS
    OnePlace
    TypeOK
    AbortHasWork
    InflightMatchesWorker
    AnsweredTurnsAreClosed
    ObserversSeeAnswers
PROPERTIES
    CancelSticks
    ImplementsPromise
CHECK_DEADLOCK FALSE
