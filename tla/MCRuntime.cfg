\* Four calls on two lanes and a queue of two; five jobs on a queue of three with one runner;
\* three requests with one permit; the providers of two extensions and a host.
SPECIFICATION Parts
CHECK_DEADLOCK FALSE
CONSTANTS
    b1 = b1
    b2 = b2
    b3 = b3
    u1 = u1
    k = k
    Calls = {b1, b2, b3, u1}
    Keys = {k}
    NoKey = NoKey
    NoCall = NoCall
    IdOf <- MCIds
    KeyOf <- MCKeys
    PriorityOf <- MCPriorities
    BytesOf <- MCBytes
    Signalled = {u1}
    AgeLimited = TRUE
    MaxQueuedTasks = 2
    MaxQueuedBytes = 5
    MaxActiveTasks = 2
    Jobs = {f1, f2, f3, n1, n2}
    Fresh = {f1, f2, f3}
    CoalesceKey <- MCCoalesce
    NoCoalesceKey = NoKey
    MaxConcurrency = 1
    MaxQueueLength = 3
    FreshBurstLimit = 1
    f1 = f1
    f2 = f2
    f3 = f3
    n1 = n1
    n2 = n2
    r1 = r1
    r2 = r2
    r3 = r3
    Requests = {r1, r2, r3}
    TokensOf <- MCTokens
    Cancellable = {r2}
    Concurrent = 1
    PerSecond = 2
    PerMinute = 3
    Second = 1
    Minute = 3
    Threshold = 2
    OpenTicks = 1
    MaxAttempts = 2
    Inputs = 2
    Documents = 3
    Host <- MCHost
    SessionLimit = 1
    FaultLimit = 1
    None = NoCall
INVARIANTS CallsAreServed LimitsHold QueueIsFair RequestsHold ProvidersHold
PROPERTY RuntimeSettles
