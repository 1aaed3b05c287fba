CONSTANTS
  olo = olo
  e1 = e1
  jobs = jobs
  jobsSlash = jobsSlash
  lever = lever
  NoSource = NoSource
  NoCompany = NoCompany
  NoUrl = NoUrl
  Companies = {olo}
  Sources = {1, 2}
  Owner <- MCOwner
  Editors = {e1}
  Urls = {jobs, lever}
  Canonical <- MCCanonical
  MaxRuns = 1
SPECIFICATION Spec
CHECK_DEADLOCK FALSE
INVARIANT NothingIsOrphaned
INVARIANT NoDuplicateConfiguration
