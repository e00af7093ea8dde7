\* Every page: with answers in any order where they are guarded, with refusals and with others
\* elsewhere; the dialog and the page of a test for a hasty user too.
CONSTANTS
  Rows = {a, b, c}
  Scopes = {p, q}
  Calls = {c1, c2}
  MaxActs = 5
  NoProject = NoProject
  None = None
  Environments = {
    {"recordings", "overlap", "fail", "others"},
    {"projects", "fail", "others"},
    {"suites", "fail", "others"},
    {"tests", "fail", "others"},
    {"members", "fail", "others"},
    {"secrets", "fail", "others"},
    {"git", "fail", "others"},
    {"flow", "overlap", "fail", "others"},
    {"test", "fail"},
    {"test", "overlap", "fail", "others"},
    {"convert", "fail", "others"},
    {"convert", "overlap", "fail"}}
SPECIFICATION Spec
SYMMETRY Symmetry
INVARIANTS PageSettles ConvertsWhereChosen RunsActive
\* The user stops at some point.
CHECK_DEADLOCK FALSE
