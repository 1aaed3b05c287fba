CONSTANTS
  acuity = acuity
  olo = olo
  i1 = i1
  i2 = i2
  u1 = u1
  c1 = c1
  c2 = c2
  p1 = p1
  p2 = p2
  v1 = v1
  v2 = v2
  NoSource = NoSource
  NoId = NoId
  NoUrl = NoUrl
  NoHash = NoHash
  Sources = {acuity}
  Ids = {i1}
  Urls = {u1}
  Contents = {c1}
  Pay = {p1, p2}
  Viewers = {}
  Threshold = 1
  MaxJobs = 2
  MaxBatch = 2
SPECIFICATION MCSpec
CHECK_DEADLOCK FALSE
INVARIANT OneRowPerUrl
PROPERTY RecordIsStored
