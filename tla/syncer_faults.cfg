\* Every kind of fault, and stamps that repeat or come late: what still holds.
SPECIFICATION Spec
CONSTANTS
    r1 = r1
    r2 = r2
    None = None
    Run = {r1, r2}
    Nik = {1, 2}
    BatchSize = 1
    StrictSource = FALSE
    MaxWrites = 3
    Faults = {"sql", "kill", "commit", "stray", "lockloss", "late"}
    MaxFaults = 2
SYMMETRY RunSymmetry
INVARIANTS
    MirrorCoversWatermark
    NoRunningLeak
    SuccessIsRecorded
PROPERTIES
    NoRowGoesBack
    WatermarkMonotone
    WatermarkNeedsSuccess
