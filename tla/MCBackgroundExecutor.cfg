CONSTANTS
  olo = olo
  q1 = q1
  q2 = q2
  t1 = t1
  t2 = t2
  NoSource = NoSource
  NoCompany = NoCompany
  NoTask = NoTask
  Free = Free
  Reserved = Reserved
  Companies = {olo}
  Sources = {1}
  Owner <- MCOwner
  Requests = {q1, q2}
  Tasks = {t1, t2}
  MaxRuns = 1
  MaxWorkers = 1
  Attempts = 2
  MaxCrashes = 0
SPECIFICATION FairSpec
CHECK_DEADLOCK FALSE
PROPERTY SlotIsReleased
INVARIANT ReservationHasOneOwner
PROPERTY IsSingleFlight
