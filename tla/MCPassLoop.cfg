CONSTANTS
    Runner = {r1}
    Sources = {"port", "mounted"}
    NoOne = NoOne
    MaxSaved = 3
    MaxMishaps = 2
SPECIFICATION Spec
INVARIANTS TickSeesRecords WakeKept
PROPERTY Served
