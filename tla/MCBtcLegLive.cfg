SPECIFICATION LiveSpec
CONSTANTS
  Output = {o1}
  Contract = {k1, k2}
  None = None
  MaxUpsets = 1
PROPERTIES
  FunderIsSettled
CHECK_DEADLOCK FALSE
