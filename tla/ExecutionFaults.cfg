\* One execution, and two in the last environment but one. Each environment holds what some
\* properties survive; the first is all but a lost lock, the last a lost lock alone.
CONSTANTS
  Executions = {e1, e2}
  Tests = {t1}
  Stepless = {}
  Workers = {w1, w2}
  None = None
  Environments = {
    {"connect", "publish", "notice", "poll", "database", "enqueue", "create", "start", "remove", "wait", "timeout", "executor", "rowUpdate", "crash"},
    {"connect", "publish", "notice", "poll", "database", "enqueue", "create", "wait", "timeout", "executor", "announce", "rowUpdate"},
    {"connect", "notice", "poll", "enqueue", "create", "start", "remove", "wait", "timeout", "executor", "announce", "rowUpdate"},
    {"connect", "publish", "notice", "poll", "enqueue", "create", "start", "remove", "wait", "timeout", "announce", "rowUpdate"},
    {"notice", "create", "start", "remove", "wait", "timeout", "executor", "announce", "rowUpdate"},
    {"connect", "notice", "poll", "enqueue", "remove"},
    {"two", "notice"},
    {"lock"}}
SPECIFICATION Spec
SYMMETRY Symmetry
INVARIANTS TypeOK NoGreenWithoutRun OneBatch NoOrphanContainer ResultsClosedAtRest NoFalseAbort
PROPERTIES CancelIsFinal VerdictKept FollowsLifecycle
\* An execution that ended, with nobody asking for anything, is the end.
CHECK_DEADLOCK FALSE
