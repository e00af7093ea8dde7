\* The user presses cancel on a page, or on a list that was loaded before.
CONSTANTS
  Executions = {e1}
  Results = 1
  Slots = {1, 2}
  MaxWire = 1
  None = None
  Environments = {{"cancel"}, {"list"}}
SPECIFICATION Spec
PROPERTY DeletesOnlyAsked
CHECK_DEADLOCK FALSE
