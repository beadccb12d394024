\* A signal while a run is in flight.
SPECIFICATION Spec
CONSTANTS
    w1 = w1
    w2 = w2
    w3 = w3
    w4 = w4
    None = None
    Setup = Setup
    Run = {w1, w2}
    PoolSize = 3
    Interval = 2
    Timeout = 3
PROPERTY StopWaitsForRuns
