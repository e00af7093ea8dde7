\* One execution of one test, and two in the fifth environment.
CONSTANTS
  Executions = {e1, e2}
  Results = 1
  Slots = {1, 2}
  MaxWire = 1
  None = None
  Environments = {
    {"slow"},
    {"list"},
    {"cancel"},
    {"drop", "relay", "refused", "early"},
    {"two"},
    {"error", "reject"}}
SPECIFICATION FairSpec
INVARIANT ShowsOwn
PROPERTIES BadgeSettles ResultsSettle
\* A browser that shows something else and executions that ended: nothing has to happen.
CHECK_DEADLOCK FALSE
