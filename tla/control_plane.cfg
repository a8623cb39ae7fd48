SPECIFICATION FairSpec

CONSTANTS
    extraction = extraction
    payment = payment
    acme = acme
    canary = canary
    i1 = i1
    Agents = {extraction, payment}
    Threads = {i1}
    Tools = {}
    Vendors = {acme, canary}
    Canary = canary
    StaleAfter = 1
    DenialWindow = 2
    DenialThreshold = 2
    MaxDecisions = 2
    Faults = {"restart", "query"}
    MaxFaults = 1
    Verdicts <- MCVerdicts
    OperatorTrips <- MCOperatorTrips

INVARIANTS
    TypeOK
    HaltsOnlySilentThreads

PROPERTIES
    SilentThreadHalted
    DenialsPauseAgent
    CanaryStopsEverything
