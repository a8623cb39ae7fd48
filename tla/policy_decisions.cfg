SPECIFICATION Spec

CONSTANTS
    Handlers = {h1, h2}
    Requests <- MCRequests
    MaxApprovals = 1
    Window = 1
    OperatorStops <- MCStops
    MaxDecisions = 3
    SwitchUnreachable = FALSE

SYMMETRY MCSymmetry

INVARIANTS
    TypeOK
    OvershootBounded
    StopOverrides
    AgentsApproveRoutine
