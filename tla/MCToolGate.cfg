\* Two calls in up to two iterations, the second at the limit, and one edit of the
\* permissions file or one audit write that fails, anywhere.
SPECIFICATION FairSpec
CONSTANTS
    exec = exec
    alice = alice
    bob = bob
    Nobody = Nobody
    Unknown = Unknown
    Requests <- AllRequests
    Users = {alice, bob}
    Owner <- AliceOwns
    MaxCalls = 2
    MaxBatch = 2
    MaxIterations = 2
    Tools = {exec}
    MaxUpsets = 1
INVARIANTS RunsOnlyCleared RunsOnce TrailLegal EveryCallAnswered
PROPERTY LoopEnds
CHECK_DEADLOCK FALSE
