SPECIFICATION Spec
CONSTANTS
  Output = {o1}
  Contract = {k1}
  None = None
  MaxUpsets = 1
INVARIANTS
  DeletingCostsNothing
CHECK_DEADLOCK FALSE
