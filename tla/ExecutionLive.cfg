\* Liveness: Docker removes what it is told to, then the queue, the database and the publisher answer.
CONSTANTS
  Executions = {e1}
  Tests = {t1, t2}
  Stepless = {}
  Workers = {w1}
  None = None
  Environments = {
    {"connect", "publish", "notice", "poll", "database", "create", "wait", "timeout", "executor", "announce", "rowUpdate", "hang"},
    {"notice", "create", "start", "remove", "wait", "timeout", "executor", "announce", "rowUpdate"}}
SPECIFICATION FairSpec
PROPERTIES CancelStopsContainer EveryExecutionEnds
\* An execution that ended, with nobody asking for anything, is the end.
CHECK_DEADLOCK FALSE
