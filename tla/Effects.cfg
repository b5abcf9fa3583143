SPECIFICATION Spec
CONSTANTS
  Replicas = {r1, r2}
  Intents = {i1, i2}
  Acknowledging = {r1, r2}
  Ways = {"pickup", "posted"}
  Proofs = {"none", "later"}
  MaxObserved = 2
  MaxOwn = 2
  MaxDisturbed = 2
  None = None
INVARIANTS
  EarnedOnce
PROPERTIES
  ResultsStand
SYMMETRY Symmetric
CHECK_DEADLOCK FALSE
