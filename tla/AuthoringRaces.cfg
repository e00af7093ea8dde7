\* One test with one or two steps of three.
CONSTANTS
  Steps = {s1, s2, s3}
  Requests = {r1, r2, r3}
  Saver = Saver
  Adders = {a1, a2}
  MaxEdits = 3
  None = None
  Environments = {
    {"edit", "executed", "error"},
    {"heal", "overlap"},
    {"heal", "edit"},
    {"generate", "edit"},
    {"editor"},
    {"editor", "local", "hasty"}}
SYMMETRY Symmetry
SPECIFICATION Spec
INVARIANTS TypeOK EditsDoNotCollide RejectedNotApplied
PROPERTIES EveryStateKept SaveSticks
\* Every request was made and answered.
CHECK_DEADLOCK FALSE
