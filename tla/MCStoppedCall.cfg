\* A turn that is stopped while a tool runs.
SPECIFICATION Spec
CONSTANTS
    exec = exec
    alice = alice
    bob = bob
    Nobody = Nobody
    Unknown = Unknown
    Requests <- AllRequests
    Users = {alice, bob}
    Owner <- AliceOwns
    MaxCalls = 2
    MaxBatch = 2
    MaxIterations = 2
    Tools = {exec}
    MaxUpsets = 1
INVARIANT StopRecorded
CHECK_DEADLOCK FALSE
