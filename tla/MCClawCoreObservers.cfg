SPECIFICATION Spec
CONSTANTS
    r1 = r1
    r2 = r2
    r3 = r3
    s1 = s1
    s2 = s2
    Requests = {r1, r2}
    Interrupts = {r2}
    SkipsResponse = {}
    Sessions = {s1}
    SessionOf <- OneSession
    None = None
    Wake = Wake
    QueueLen = 1
    ResponseQueueLen = 1
    InsertLen = 1
    MaxIter = 1
    MaxCancels = 0
INVARIANTS
    ObserversSeeEveryRequest
CHECK_DEADLOCK FALSE
