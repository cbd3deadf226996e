CONSTANTS
    Client = {c1, c2}
    Engines = {"memory", "nats", "dynamodb"}
    Rev = {1, 2, 3, 4, 5, 6}
    NoRev = 0
    Life = 2
    CallTime = 1
SPECIFICATION Spec
SYMMETRY Symmetry
CHECK_DEADLOCK FALSE
PROPERTY Contract
