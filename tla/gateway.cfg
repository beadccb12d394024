\* Two requests and the goroutines they leave share two connections, while the
\* one key is revoked and replaced, anything hangs or fails, and the process is
\* told to stop.  No symmetry: there is liveness.
SPECIFICATION FairSpec
CONSTANTS
    q1 = q1
    q2 = q2
    i1 = i1
    s1 = s1
    s2 = s2
    NoRow = NoRow
    NoSecret = NoSecret
    Request = {q1, q2}
    Id = {i1}
    Secret = {s1, s2}
    Issued = {s1}
    PoolSize = 2
    HeaderTimeout = 1
    ReqTimeout = 2
    MarkTimeout = 1
    Grace = 1
    Limited = TRUE
    Faults = {"postgres", "client", "crash"}
    MaxChanges = 1
INVARIANTS
    TypeOK
    ServedOnlyIfGood
    RefusedOnlyIfBad
    MarkedSoonAfter
    CutOnlyAfterGrace
    GoneInTime
PROPERTIES
    ImplementsGate
    EveryHandlerEnds
    SignalEnds
