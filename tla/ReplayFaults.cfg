\* A recording of three actions on two pages, converted once or twice.
CONSTANTS
  Pages = {"home", "shop"}
  Points = {1, 2}
  Chars = {"a"}
  Origins = {"app", "other"}
  Sites <- MCSites
  Base = "app"
  MaxActions = 3
  MaxHasty = 2
  MaxTests = 2
  Parallel = {1, 2}
  None = None
  Environments = {
    {"moved"},
    {"drop"},
    {"part"},
    {"quick", "broken"},
    {"hasty"},
    {"saved", "flaky", "setup", "edited"},
    {"lost"},
    {"saved", "announce"},
    {"saved", "close", "error"}}
SPECIFICATION Spec
INVARIANTS Replayable StepsAccounted ExitMeansJudged
\* The execution is over.
CHECK_DEADLOCK FALSE
