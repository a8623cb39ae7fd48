SPECIFICATION Spec

CONSTANTS
    Agents <- MCOneAgent
    AgentOf <- MCAllAgents
    Threads = {i1, i2}
    Tools = {"create-ledger-entry"}
    Ledgering = "create-ledger-entry"
    Nobody = Nobody
    StaleAfter = 1
    OperatorTrips <- MCNoTrips
    Runs = {r1, r2}
    Cash = 600000
    Totals = {500051}
    RiskScores = {FALSE}
    Resubmission = FALSE
    Crashes = TRUE
    FailingCalls = {}
    Watched = FALSE
    PromptAgents = FALSE
    PlaneRestarts = FALSE

PROPERTY
    PaysIntoBook

SYMMETRY MCBookSymmetry
