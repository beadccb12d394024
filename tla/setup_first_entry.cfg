\* The operator's entry stands before the wizard's.
SPECIFICATION Spec
CONSTANTS
    k1 = k1
    k2 = k2
    k3 = k3
    s1 = s1
    s2 = s2
    s3 = s3
    NoKey = NoKey
    NoSecret = NoSecret
    Key = {k1, k2}
    Secret = {s1, s2}
    Given = {NoKey}
    Operator = {"front"}
    MaxRuns = 2
CHECK_DEADLOCK FALSE
PROPERTY OperatorRowKept
