SPECIFICATION ServicesSpec
CONSTANTS
    user1 = user1
    q1 = q1
    q2 = q2
    Window = 4
    Batch = 2
    MaxHistory = 5
    Parts = 2
    MaxCalls = 3
    MaxTurns = 2
    MaxRetries = 3
    Requests = {q1, q2}
    Stores = {notes}
    StoreRows <- MCStoreRows
    Users = {user1, user2}
    NoUser = nouser
    Contents = {fact, phrase}
    Secrets = {}
    Phrases = {phrase}
    MaxDocuments = 2
    MaxVersions = 3
    MaxRedactions = 1
    Emails = {ann, bob}
    Admins = {ann}
    Members = {bob}
    Clients = {q1, q2}
    MaxTokens = 3
    KindChoices <- MCKindChoices
    MaxRivals = 1
    NoOne = NoOne
    Ops = {q1, q2}
    Keys = {k1, k2}
    Runs = {r1, r2}
    Verifiers = {v1, v2}
    LeaseSeconds = 1
    VerificationLeaseSeconds = 1
    MaxVerificationAttempts = 2
    MaxVerificationAge = 2
    RecoveryGraceSeconds = 0
INVARIANTS
    RequestWellFormed
    AssembledFromOwnFragments
    HistoryTellsContent
    RotationKeepsSession
    PassedIsTrue
    TypeOK
    RowsConsistent
    ExecutedOnce
PROPERTIES
    CurrentTurnInView
    VerdictIsFinal
    OutcomeIsFinal
    LeaseNotStolen
    LockedEditsReplaceWhatTheySaw
SYMMETRY RequestSymmetry
CHECK_DEADLOCK FALSE
