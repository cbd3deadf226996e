CONSTANTS
    Opening = {o1}
    Refreshing = {r1}
    Revoking = {}
    Ending = {e1}
    Walking = {}
    NoSession = NoSession
    Lifetime = 2
    Grace = 1
    TokenLife = 1
    Limits = {3}
    MaxTime = 2
SPECIFICATION Spec
CHECK_DEADLOCK FALSE
INVARIANTS RevocationEnds
