SPECIFICATION Spec

CONSTANTS
    Agents <- MCFourAgents
    AgentOf <- MCAgentOf
    Threads = {"i1"}
    Tools = {"create-ledger-entry"}
    Ledgering = "create-ledger-entry"
    Nobody = Nobody
    StaleAfter = 1
    OperatorTrips <- MCRiskTrip
    Runs = {r1}
    Cash = 600000
    Totals = {100}
    RiskScores = {TRUE, FALSE}
    Resubmission = FALSE
    Crashes = TRUE
    FailingCalls = {}
    Watched = FALSE
    PromptAgents = TRUE
    PlaneRestarts = FALSE

INVARIANT
    HighRiskReviewed
