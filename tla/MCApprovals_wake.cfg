SPECIFICATION SteadySpec
CONSTANTS
  Actions = {a1}
  Callers = {c1}
  None = None
  MaxGrants = 0
PROPERTIES
  TapResumesRun
