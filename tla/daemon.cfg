\* Runs of up to two intervals: three may be live, over a pool of three, so that
\* the runs that wait can hold every connection while the one with the lock needs
\* a second.  No symmetry: there is liveness.
SPECIFICATION FairSpec
CONSTANTS
    w1 = w1
    w2 = w2
    w3 = w3
    w4 = w4
    None = None
    Setup = Setup
    Run = {w1, w2, w3, w4}
    PoolSize = 3
    Interval = 2
    Timeout = 4
INVARIANTS
    TypeOK
    OverlapIsBounded
    HolderIsServed
PROPERTIES
    EveryRunEnds
    ShutdownCompletes
