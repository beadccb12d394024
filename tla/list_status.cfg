\* A request with status_aktif.
SPECIFICATION Spec
CONSTANTS
    it = it
    hr = hr
    Absent = Absent
    Nik = {1, 2}
    Dept = {it}
    Row <- AllRows
    DefaultLimit = 1
    MaxLimit = 2
    Limits = {0}
    Statuses = {"unset", "true", "false"}
    MaxFaults = 1
INVARIANT AnsweredUnlessBroken
