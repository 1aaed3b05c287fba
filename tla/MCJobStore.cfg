CONSTANTS
  acuity = acuity
  olo = olo
  i1 = i1
  i2 = i2
  u1 = u1
  c1 = c1
  c2 = c2
  p1 = p1
  p2 = p2
  v1 = v1
  v2 = v2
  NoSource = NoSource
  NoId = NoId
  NoUrl = NoUrl
  NoHash = NoHash
  Sources = {acuity, olo}
  Ids = {i1, i2}
  Urls = {u1}
  Contents = {c1, c2}
  Pay = {p1}
  Viewers = {v1, v2}
  Threshold = 2
  MaxJobs = 3
  MaxBatch = 2
SPECIFICATION MCSpec
CHECK_DEADLOCK FALSE
SYMMETRY Symmetry
INVARIANT IdentityIsConsistent
INVARIANT LookupIsComplete
INVARIANT MissesAreConsecutive
INVARIANT ReviewedWasShown
PROPERTY SourcesAreIsolated
PROPERTY AcknowledgementSticks
