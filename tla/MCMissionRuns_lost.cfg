SPECIFICATION UndisturbedSpec
CHECK_DEADLOCK FALSE
CONSTANTS
  Occs = {o1}
  Workers = {w1}
  Schedulers = {s1}
  Surfaces = {h1}
  None = None
  Policy = "latest-only"
  AlwaysDeliver = FALSE
  WakeMax = 1
  Cap = 1
  MaxAmends = 0
PROPERTIES
  NotLost
