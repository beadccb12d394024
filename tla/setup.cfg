\* Four runs of the wizard, each broken off anywhere, svc-sync started at any
\* moment, and an operator who appends an entry, revokes keys and spoils
\* config.yaml; the master key is left to the wizard.
SPECIFICATION Spec
CONSTANTS
    k1 = k1
    k2 = k2
    k3 = k3
    s1 = s1
    s2 = s2
    s3 = s3
    NoKey = NoKey
    NoSecret = NoSecret
    Key = {k1, k2, k3}
    Secret = {s1, s2, s3}
    Given = {NoKey}
    Operator = {"back", "damage", "revoke"}
    MaxRuns = 4
CHECK_DEADLOCK FALSE
SYMMETRY KeySymmetry
INVARIANTS
    TypeOK
    SealedKeyIsOnDisk
    DeployedKeyFits
    KeyIsFiledOnce
PROPERTIES
    OperatorKeysSurvive
    OperatorRowKept
    RevokedStaysRevoked
