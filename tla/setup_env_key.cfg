\* GATEWAY_MASTER_KEY may be set to any key when the wizard is started.
SPECIFICATION Spec
CONSTANTS
    k1 = k1
    k2 = k2
    k3 = k3
    s1 = s1
    s2 = s2
    s3 = s3
    NoKey = NoKey
    NoSecret = NoSecret
    Key = {k1, k2}
    Secret = {s1, s2}
    Given = {NoKey, k1, k2}
    Operator = {}
    MaxRuns = 2
CHECK_DEADLOCK FALSE
PROPERTY DotenvKeyStays
