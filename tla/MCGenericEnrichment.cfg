CONSTANTS
  u1 = u1
  u2 = u2
  u3 = u3
  a3 = a3
  Urls = {u1, u2, u3}
  Addresses <- MCAddresses
  Storings <- MCStorings
  Pages <- MCPages
  MaxDetails = 1
  Faults = TRUE
SPECIFICATION FairEnrichment
CHECK_DEADLOCK FALSE
INVARIANT LimitIsSpentOnNeed
PROPERTY EnrichedStaysEnriched
PROPERTY RichSitesAreEnriched
