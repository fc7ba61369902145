SPECIFICATION ControlSpec
CONSTANTS
    o1 = o1
    o2 = o2
    k1 = k1
    k2 = k2
    r1 = r1
    r2 = r2
    v1 = v1
    v2 = v2
    NoOne = NoOne
    Ops = {o1}
    Keys = {k1}
    Runs = {r1, r2}
    RecoveryOwners = {v1}
    Verifiers = {r1, r2, v1}
    Requests <- OneRequest
    IntentOf <- KeyIsIntent
    LeaseSeconds = 1
    VerificationLeaseSeconds = 1
    MaxVerificationAttempts = 1
    MaxVerificationAge = 1
    RecoveryGraceSeconds = 0
    RecoveryBatchSize = 1
    MaxFaults = 0
    MaxStops = 1
SYMMETRY RunSymmetry
INVARIANTS
    CancelledNeverRan
    StoppedRunIsQuiet
PROPERTIES
    ImplementsLifecycle
