CONSTANTS
    Runner = {r1, r2}
    Rev = {v1, v2, v3, v4}
    NoRev = NoRev
    NoOne = NoOne
    Every = 2
    CallTime = 1
    Timely = TRUE
SPECIFICATION FairSpec
INVARIANTS Attribution OverlapBounded
PROPERTIES HolderOnly TargetNeverStuck
