\* Two calls at a time over two windows of three ticks and a limit of two; the
\* replicas' clocks differ, calls fail and are repeated, Redis loses its counters.
SPECIFICATION Spec
CONSTANTS
    c1 = c1
    c2 = c2
    c3 = c3
    Call = {c1, c2}
    Limit = 2
    Window = 3
    MaxSkew = 1
    Faults = {"error", "retry", "flush"}
    MaxTime = 5
    MaxScripts = 5
SYMMETRY CallSymmetry
INVARIANTS
    TypeOK
    LimitPerWindow
    NoEarlyDenial
    NoImmortalCounter
