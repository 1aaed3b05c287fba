CONSTANTS
  acuity = acuity
  olo = olo
  NoSource = NoSource
  NoCompany = NoCompany
  Companies = {acuity, olo}
  Sources = {1, 2, 3}
  Owner <- MCOwner
  MaxRuns = 3
SPECIFICATION LifecycleSpec
CHECK_DEADLOCK FALSE
INVARIANT TypeOK
INVARIANT OneRunningPerSource
INVARIANT RunningIsOwned
INVARIANT CachedRunningIsReal
PROPERTY TerminalIsFinal
