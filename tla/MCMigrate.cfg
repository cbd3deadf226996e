SPECIFICATION MCSpec
CONSTANTS
  Workspaces = {w}
  Records = {o, g}
  Links = {o}
  Gates = {g}
  Tokens = {t}
  Sets = {s}
  Values = {v1, v2}
  Members = {m1, m2}
  Bad = Bad
  Skipped = Skipped
  In = In
  NoPlan = NoPlan
  TtlSlack = 2
  MaxLeft = 4
  GateLife = 4
  SourceLeft = {0, 3}
  OwnLeft = {1, 4}
SYMMETRY MCSymmetry
INVARIANTS OkMeansCopied ForeignKept
PROPERTIES MismatchExplained
