\* Two overlapping runs, three employees, a batch of two rows: a fetch that
\* finds three rows is cut, and a write can fall between any two statements.
\* No symmetry: there is liveness.
SPECIFICATION FairSpec
CONSTANTS
    r1 = r1
    r2 = r2
    None = None
    Run = {r1, r2}
    Nik = {1, 2, 3}
    BatchSize = 2
    StrictSource = TRUE
    MaxWrites = 4
    Faults = {"sql", "kill", "commit"}
    MaxFaults = 1
INVARIANTS
    TypeOK
    OneRunAtATime
PROPERTIES
    ImplementsMirror
    Converges
