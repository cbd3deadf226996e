CONSTANTS
    None = None
    Account = {a1, a2}
    Email = {e1}
    Pair = {g1, g2, g3, g4, g5}
    App = {x, y}
    Proc = {p1, p2}
    Overlap = FALSE
    MaxEvents = 4
SYMMETRY Symmetry
SPECIFICATION Spec
INVARIANTS
    LostOnRevocation
    ClaimsFinish
PROPERTIES RelinkKept
CHECK_DEADLOCK FALSE
