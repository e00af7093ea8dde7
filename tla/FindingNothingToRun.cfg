\* The one test of the execution has no enabled step; nothing fails.
CONSTANTS
  Executions = {e1}
  Tests = {t1}
  Stepless = {t1}
  Workers = {w1}
  None = None
  Environments = {
    {}}
SPECIFICATION Spec
SYMMETRY Symmetry
INVARIANT NoGreenWithoutSteps
\* An execution that ended, with nobody asking for anything, is the end.
CHECK_DEADLOCK FALSE
