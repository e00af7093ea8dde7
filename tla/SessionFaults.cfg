\* Two tabs, two calls in each. Each environment holds what some properties survive.
CONSTANTS
  Tabs = {a, b}
  Calls = {c1, c2}
  MaxEvents = 3
  Environments = {
    {"tabs", "expire"},
    {"expire", "lost", "reload", "overlap"},
    {"lost"},
    {}}
SPECIFICATION Spec
SYMMETRY Symmetry
INVARIANTS TypeOK ExchangedOnce StoredIsLive
PROPERTY SessionKept
\* A browser with its tabs at rest is the end.
CHECK_DEADLOCK FALSE
