SPECIFICATION Spec
CONSTANTS
  Actions = {a1}
  Callers = {c1, c2, c3}
  None = None
  MaxGrants = 2
INVARIANTS
  GateInv
  EffectOnce
  LedgerHonest
  RevokedGrantsNothing
PROPERTIES
  ImplementsGate
SYMMETRY GateSymmetry
