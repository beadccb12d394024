\* Two rows of one second and a batch of one: the second is never fetched.
SPECIFICATION FairSpec
CONSTANTS
    r1 = r1
    None = None
    Run = {r1}
    Nik = {1, 2}
    BatchSize = 1
    StrictSource = FALSE
    MaxWrites = 2
    Faults = {}
    MaxFaults = 0
PROPERTY Converges
