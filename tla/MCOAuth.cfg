\* Two users; the first has two authorizations, three callbacks and two calls; one crash.
\* The unit of time is the lifetime of a token, in which the skew is nothing.
SPECIFICATION Spec
CONSTANTS
    ann = ann
    bob = bob
    f1 = f1
    f2 = f2
    b1 = b1
    b2 = b2
    b3 = b3
    c1 = c1
    c2 = c2
    c3 = c3
    None = None
    Users = {ann, bob}
    Flows = {f1, f2}
    Callbacks = {b1, b2, b3}
    Callers = {c1, c2, c3}
    UserOf <- LastIsBobs
    StateOf <- TwoOfF1
    Ttl = 0
    Lifetime = 1
    Skew = 0
    MaxTime = 1
    MaxTokens = 3
    MaxCrashes = 1
SYMMETRY Alike
INVARIANTS TokenOfUser RefreshTokenLive StoredIsNewest LockHeldInside
CHECK_DEADLOCK FALSE
