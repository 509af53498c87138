CONSTANTS
    Users = {u1, u2, u3}
    MaxSize = 2
    Buffer = 2
    MaxLeaks = 1
    Readers = {r1, r2, r3}
    Entries = {e1, e2}
    Walkers = {w1, w2}
    RawPaths <- MCRawPaths
    Trees <- MCTrees
    MaxHops = 2
    MaxFaults = 1
    Watching = {n1, n2, n3}
    MaxEvents = 3
    Pollers = {p1, p2}
    OffLoopPollers = {p2}
    Blockers = {j1, j2}
    PoolSize = 1
    Depth = 3
    Sources = {s1, s2}
    QueueUsers = {q1, q2, q3, q4}
    Capacity = 2
    MaxLength = 3
    Callers = {k1, k2}
    Nobody = Nobody
SPECIFICATION Spec
INVARIANTS DescriptorOwned SequentialOffset OneRequestPerDirectory TreeCallsConverge EndOfStream NoForgottenPoll WorkEndsOnce CancellationReachesScope Accounted NoStuckWaiter DriverOwned OwnResult
CHECK_DEADLOCK FALSE
