CONSTANTS
    None = None
    Org = Org
    Login = {l1, l2}
    Email = {e1, e2}
    Team = {t}
    MaxSeats = 2
    MaxEvents = 2
SYMMETRY Symmetry
SPECIFICATION Spec
INVARIANTS
    RemovalJustified
    SeatsKept
    HeldRecorded
PROPERTIES BreakerHolds
