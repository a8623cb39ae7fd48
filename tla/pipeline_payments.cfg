SPECIFICATION Spec

CONSTANTS
    Agents <- MCOneAgent
    AgentOf <- MCAllAgents
    Threads = {"i1"}
    Tools = {"create-ledger-entry"}
    Ledgering = "create-ledger-entry"
    Nobody = Nobody
    StaleAfter = 1
    OperatorTrips <- MCNoTrips
    Runs = {r1, r2}
    Cash = 1100000
    Totals = {500050, 500051}
    RiskScores = {FALSE}
    Resubmission = TRUE
    Crashes = TRUE
    FailingCalls = {"pause", "status", "authorize"}
    Watched = FALSE
    PromptAgents = FALSE
    PlaneRestarts = TRUE

INVARIANTS
    TypeOK
    PaidOnce
    SettledIsPaid
    LargePaymentsReviewed

SYMMETRY MCSymmetry
