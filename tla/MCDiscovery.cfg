CONSTANTS
  lever = lever
  darwinbox = darwinbox
  acuityLever = acuityLever
  acuityDarwin = acuityDarwin
  u1 = u1
  u2 = u2
  Idents = {acuityDarwin}
  Platforms = {lever, darwinbox}
  Platform <- MCOne
  Aliased = {darwinbox}
  Covers <- MCCovers
  MaxQueries = 4
  Users = {u1, u2}
  MaxRuns = 2
  MaxEvents = 2
SPECIFICATION Spec
CHECK_DEADLOCK FALSE
INVARIANT RunningIsWorkedOn
INVARIANT NotFoundWasLookedFor
PROPERTY ApprovalIsPreserved
PROPERTY SettledRunsAreComplete
