SPECIFICATION FairSpec
CONSTANTS
    apply = apply
    get = get
    stray = stray
    r1 = r1
    NoRun = NoRun
    Calls = {apply, get, stray}
    Runs = {r1}
    RunOf <- OneRun
    RetrySafe = {get}
    HasFallback = {apply, get}
    MaxAttempts = 2
    TombstoneTTL = 1
    MaxCancels = 1
INVARIANTS
    TypeOK
    NoOrphan
    CancelledRunIsQuiet
    StartsBounded
    RegistryExact
PROPERTIES
    CallsReturn
    CancelReturns
