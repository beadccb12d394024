\* Walks through up to three rows in pages of one and of two, with limits beyond
\* both ends, and writes anywhere.  No symmetry: there is liveness.
SPECIFICATION FairSpec
CONSTANTS
    it = it
    hr = hr
    Absent = Absent
    Nik = {1, 2, 3}
    Dept = {it, hr}
    Row <- HereRows
    DefaultLimit = 1
    MaxLimit = 2
    Limits = {0, 2, 3}
    Statuses = {"unset"}
    MaxFaults = 1
INVARIANTS
    TypeOK
    WalkSeesAll
    ListedIsFound
    PageFitsTotal
PROPERTY WalkEnds
