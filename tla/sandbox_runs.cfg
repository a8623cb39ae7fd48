SPECIFICATION FairSpec

CONSTANTS
    Uploads = {u1, u2}
    MaxFaults = 1

INVARIANTS
    TypeOK
    FedWhatWasRead
    NotAbandoned

PROPERTIES
    ScratchRemoved
    SandboxStops

CHECK_DEADLOCK FALSE
