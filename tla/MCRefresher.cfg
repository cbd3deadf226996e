CONSTANTS
  Replicas = {r1, r2}
  N = 1
  RefreshInterval = 4
  ReadTime = 2
  MaxSlips = 2
  MaxHeld = 2
SPECIFICATION ScheduleSpec
SYMMETRY Symmetry
INVARIANTS FreshBound
PROPERTIES ReadsSpaced
