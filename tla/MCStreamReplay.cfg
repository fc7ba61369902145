SPECIFICATION FairSpec
CONSTANTS
    workflow = workflow
    title = title
    r1 = r1
    Publishers = {workflow, title}
    Script <- WorkflowTitleRecovery
    Readers = {r1}
    BufferLimit = 2
    MaxDisconnects = 2
    MaxExpiries = 1
INVARIANTS
    TypeOK
    InOrderIsNotLost
    NoDuplicates
PROPERTIES
    StreamEnds
CHECK_DEADLOCK FALSE
