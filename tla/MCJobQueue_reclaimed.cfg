SPECIFICATION UnattendedSpec
CHECK_DEADLOCK FALSE
CONSTANTS
  Jobs = {j1}
  Workers = {w1, w2}
  None = None
  Caps = {2}
  Profile = 2
  MaxClaims = 2
  OneServe = TRUE
INVARIANT
  ReclaimedLeaseLeftAlone
