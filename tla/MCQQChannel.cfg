\* Three messages of one user, replies of up to two chunks, one memory allowed.
SPECIFICATION FairSpec
CONSTANTS
    u1 = u1
    u2 = u2
    m1 = m1
    m2 = m2
    m3 = m3
    None = None
    Users = {u1, u2}
    Msgs = {m1, m2, m3}
    UserOf <- MCUserOf
    KindsOf <- MCKindsOf
    Askers = {m1}
    MaxChunks = 2
    MemoryLimit = 1
INVARIANTS AnswerWhole OwnerApproved LimitOvershoot
PROPERTIES EveryMessageEnds
CHECK_DEADLOCK FALSE
