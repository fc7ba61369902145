CONSTANTS
    apply = apply
    upgrade = upgrade
    get = get
    load = load
    Calls = {apply, upgrade, get}
    Controlled = {apply, upgrade}
    MetaCalls = {load}
    Runs <- MCRuns
    Scenarios <- MCScenarios
SPECIFICATION Spec
CHECK_DEADLOCK FALSE
INVARIANTS
    GraphTypeOK
    VerifiedBeforeModel
    OnlyApproved
    CompletedIsSettled
    NeverStuck
    StopEndsRun
    ShownIsTrue
