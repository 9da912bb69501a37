SPECIFICATION Spec
CONSTANTS
  Jobs = {j1}
  Workers = {w1, w2}
  None = None
  Caps = {2}
  Profile = 2
  MaxClaims = 2
  OneServe = TRUE
INVARIANTS
  TypeOK
  EffectInv
  PutBackDidNothing
  AttemptsInBudget
PROPERTIES
  ImplementsLifecycle
SYMMETRY BootSymmetry
