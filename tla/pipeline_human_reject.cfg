SPECIFICATION Spec

CONSTANTS
    Agents <- MCAgentPair
    AgentOf <- MCTwoAgents
    Threads = {"i1"}
    Tools = {"create-ledger-entry"}
    Ledgering = "create-ledger-entry"
    Nobody = Nobody
    StaleAfter = 1
    OperatorTrips <- MCNoTrips
    Runs = {r1}
    Cash = 600000
    Totals = {100}
    RiskScores = {TRUE, FALSE}
    Resubmission = FALSE
    Crashes = FALSE
    FailingCalls = {}
    Watched = TRUE
    PromptAgents = TRUE
    PlaneRestarts = FALSE

PROPERTY
    FinishedNotHalted
