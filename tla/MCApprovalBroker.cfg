\* Two requests, two users in the chat.
SPECIFICATION BrokerFairSpec
CONSTANTS
    q1 = q1
    q2 = q2
    alice = alice
    bob = bob
    Nobody = Nobody
    Requests = {q1, q2}
    Users = {alice, bob}
    Owner <- AliceOwns
INVARIANTS ApprovedByOwner WaiterReachable ReturnedIsConsumed AnsweredForCause
PROPERTY EveryRequestEnds
CHECK_DEADLOCK FALSE
