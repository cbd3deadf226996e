CONSTANTS
    Opening = {o1}
    Refreshing = {r1, r2}
    Revoking = {v1}
    Ending = {e1}
    Walking = {w1}
    NoSession = NoSession
    Lifetime = 2
    Grace = 1
    TokenLife = 2
    Limits = {2, 3}
    MaxTime = 3
SPECIFICATION Spec
SYMMETRY Symmetry
CONSTRAINT FewAtOnce
CHECK_DEADLOCK FALSE
INVARIANTS
    TypeOK
    AbsoluteLimit
    NotStranded
    SpentStaysSpent
    Findable
    RevocationHolds
PROPERTIES ReplayAnswered
