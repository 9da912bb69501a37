SPECIFICATION SteadySpec
CONSTANTS
  Actions = {a1}
  Callers = {c1, c2}
  None = None
  MaxGrants = 1
PROPERTIES
  ExecutionEnds
  ParkedThenWoken
