SPECIFICATION FairSpec

CONSTANTS
    Agents <- MCAgentPair
    AgentOf <- MCTwoAgents
    Threads = {"i1"}
    Tools = {"create-ledger-entry"}
    Ledgering = "create-ledger-entry"
    Nobody = Nobody
    StaleAfter = 1
    OperatorTrips <- MCSettlementTrips
    Runs = {r1}
    Cash = 600000
    Totals = {100}
    RiskScores = {TRUE, FALSE}
    Resubmission = FALSE
    Crashes = TRUE
    FailingCalls = {"heartbeat"}
    Watched = TRUE
    PromptAgents = TRUE
    PlaneRestarts = FALSE

INVARIANTS
    HoldHonoursStop
    WatchedWhileWorking

PROPERTY
    StalledRunHalted
