SPECIFICATION LiveSpec
CHECK_DEADLOCK FALSE
CONSTANTS
  Occs = {o1}
  Workers = {w1}
  Schedulers = {s1}
  Surfaces = {h1}
  None = None
  Policy = "latest-only"
  AlwaysDeliver = TRUE
  WakeMax = 2
  Cap = 2
  MaxAmends = 1
INVARIANTS
  TypeOK
  NoFindingDropped
  SpeaksOnce
  ChancesCounted
PROPERTIES
  ImplementsLife
  KeepsJobLifecycle
  HandedOver
  TrickleEnds
