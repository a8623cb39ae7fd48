SPECIFICATION Spec
CONSTANTS
    Payers = {p1, p2}
    Payments <- MCPayments
    Awards <- MCAwards
    Spelling <- MCSpelling
    MaxLoads = 2
INVARIANTS
    TypeOK
    RecordedWasPaid
    NeverOvercounted
CHECK_DEADLOCK FALSE
