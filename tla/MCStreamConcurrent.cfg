SPECIFICATION Spec
CONSTANTS
    workflow = workflow
    title = title
    r1 = r1
    Publishers = {workflow, title}
    Script <- WorkflowAndTitle
    Readers = {r1}
    BufferLimit = 2
    MaxDisconnects = 1
    MaxExpiries = 0
INVARIANTS
    NoSilentLoss
CHECK_DEADLOCK FALSE
