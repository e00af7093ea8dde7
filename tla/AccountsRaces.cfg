\* Three requests; the names and the members are separate environments, and so is the
\* demonstration data: three runs of its script with crashes, with use of the AI in between, or
\* two at a time.
CONSTANTS
  Users = {u1, u2, ana, dani}
  Ana = ana
  Dani = dani
  Orgs = {o1, o2, o3, o4}
  Names = {n1, n2, demo}
  DemoName = demo
  Roles = {"ADMIN", "EDITOR"}
  Requests = {r1, r2, r3}
  Seeds = {s1, s2}
  MaxRuns = 3
  MaxAttempts = 2
  None = None
  Environments = {
    {"register", "create"},
    {"create", "update"},
    {"invite", "updateRole", "remove"},
    {"updateRole", "remove", "invite", "race"},
    {"seed", "crash"},
    {"seed", "ai"},
    {"seed", "overlap"}}
SPECIFICATION SeedSpec
SYMMETRY Symmetry
INVARIANTS TypeOK HasAdmin GivesUpOnlyIfTaken SeededIsWhole
PROPERTY RefusedOnlyLast FailsOnlyAfterCrash
\* The requests and the runs come to an end.
CHECK_DEADLOCK FALSE
