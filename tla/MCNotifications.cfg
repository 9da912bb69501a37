SPECIFICATION LiveSpec
CHECK_DEADLOCK FALSE
CONSTANTS
  Rows = {r1}
  Callers = {c1}
  Ticks = {t1}
  Setters = {s1}
  None = None
  Gone = Gone
  Messages <- MCMessages
  FocusModes = {"normal", "do-not-disturb"}
  MaxDeaths = 1
INVARIANTS
  NotifyInv
  SentOnce
PROPERTIES
  FocusRespected
  ImplementsMessageLife
  Told
  FocusEnds
