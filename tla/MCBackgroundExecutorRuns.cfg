CONSTANTS
  olo = olo
  q1 = q1
  q2 = q2
  t1 = t1
  t2 = t2
  NoSource = NoSource
  NoCompany = NoCompany
  NoTask = NoTask
  Free = Free
  Reserved = Reserved
  Companies = {olo}
  Sources = {1, 2}
  Owner <- MCOwner
  Requests = {q1}
  Tasks = {t1, t2}
  MaxRuns = 2
  MaxWorkers = 1
  Attempts = 1
  MaxCrashes = 1
SPECIFICATION Spec
CHECK_DEADLOCK FALSE
SYMMETRY Symmetry
INVARIANT RunningHasTask
INVARIANT DuplicateMeansAbandoned
INVARIANT LiveTaskIsRegistered
