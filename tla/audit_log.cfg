SPECIFICATION FairSpec
CONSTANTS
    Appenders = {a1, a2}
    Watchdog = watchdog
    MaxCalls = 2
    MaxDamage = 1
    MaxFaults = 1
INVARIANTS
    TypeOK
    SequentialVerifies
    KnownIsOnRecord
PROPERTIES
    ImplementsTrail
    WatchdogCatchesUp
CHECK_DEADLOCK FALSE
