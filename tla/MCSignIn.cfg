CONSTANTS
    None = None
    Flows = {f1}
    Codes = {k1}
    Entrants = {e1, e2}
    Recoverers = {e1}
    Redeemers = {r1, r2}
    Leavers = {l1}
    MaxEvents = 4
SYMMETRY Symmetry
SPECIFICATION Spec
INVARIANTS
    ReuseEnds
    SignOutHolds
    ClientsTold
    RecoveryRecorded
CHECK_DEADLOCK FALSE
