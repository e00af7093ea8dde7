\* The refresh token expires.
CONSTANTS
  Tabs = {a}
  Calls = {c1}
  MaxEvents = 3
  Environments = {{"expire"}}
SPECIFICATION Spec
INVARIANT NoSelfWait
\* A browser with its tabs at rest is the end.
CHECK_DEADLOCK FALSE
