SPECIFICATION SharedSpec
CONSTANTS
    r1 = r1
    r2 = r2
    r3 = r3
    c1 = c1
    c2 = c2
    Any = Any
    None = None
    Requests = {r1, r2, r3}
    Receivers = {c1, c2}
    Bounded = {c1, c2}
    QueueLen = 2
    files = files
    light = light
    NoGroup = NoGroup
    Groups = {files, light}
    Slots = {1, 2}
    Managers = {c1}
    Callers = {task1, task2}
    task1 = task1
    task2 = task2
    conn1 = conn1
    conn2 = conn2
    conn3 = conn3
    conn4 = conn4
    host1 = host1
    host2 = host2
    Apps = {task1, task2}
    Clients = {conn1, conn2, conn3, conn4}
    Hosts = {host1, host2}
    MaxPool = 2
    NoClient = NoClient
    NoHost = NoHost
    lua1 = lua1
    lua2 = lua2
    lua3 = lua3
    mailbox = mailbox
    cell1 = cell1
    cell2 = cell2
    Jobs = {lua1, lua2, lua3}
    Names = {mailbox, light}
    Cells = {cell1, cell2}
    Room = 1
    NoCell = NoCell
    NoJob = NoJob
    Scripts = {lua1, lua2, lua3}
    MaxRetry = 2
    MaxEvents = 3
INVARIANTS
    NotOverlooked
    OldestFirst
    UnloadWaits
    StartedIsUp
    ClientHasOneOwner
    UsedIsRegistered
    OwnerHoldsTheMutex
    EmoteComesBack
    SettlesReachable
PROPERTIES
    ReceivesReturn
    NeverStartedTwice
