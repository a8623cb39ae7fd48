SPECIFICATION Spec
CONSTANTS
    Appenders = {a1, a2}
    Watchdog = watchdog
    MaxCalls = 2
    MaxDamage = 1
    MaxFaults = 1
INVARIANTS
    NoFalseAlarm
CHECK_DEADLOCK FALSE
