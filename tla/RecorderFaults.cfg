\* One session, two calls of stop() and the timer. Each environment holds what some properties survive.
CONSTANTS
  Sessions = {s1}
  Callers = {c1, c2}
  Timer = Timer
  MaxSteps = 2
  MaxFlushes = 2
  Environments = {
    {"save", "reorder", "create", "start", "remove", "sweep", "crash", "shutdown"},
    {"save", "create", "start", "remove", "sweep", "crash", "shutdown"},
    {"save", "reorder", "create", "start", "crash", "shutdown"},
    {"create", "start", "remove", "sweep"}}
SPECIFICATION FairSpec
INVARIANTS NoOrphanBox StopKeepsSteps
PROPERTIES RecordingGrows SessionsEnd StepsArePersisted
\* A session that ended is the end.
CHECK_DEADLOCK FALSE
