CONSTANTS
  Jobs <- MCJobs
  Title <- MCTitle
  Untitled = {4}
  Bare = {2}
  PageSize = 2
  MaxPages <- MCMaxPages
  MaxRequests = 5
  MaxDetails = 1
  ListingLimit = 4
  Start = 2
  Step = 1
  OverlapLimit = 1
  Adapters = {"lever", "darwinbox", "dreamjobs", "jazzhr", "zoho_recruit", "linkedin", "generic"}
  MaxChanges = 1
  MaxOdd = 1
  Hosts <- MCHosts
  Paths <- MCPaths
  Fold <- MCFold
  Decode <- MCDecode
  Unfit = {"a/b"}
  Marked = {"jobs", "careers"}
  PageLinks <- MCLinks
  MaxSources = 2
SPECIFICATION Spec
CHECK_DEADLOCK FALSE
INVARIANT TotalsAreReached
INVARIANT RecordsAreDescribed
INVARIANT FailureHasCause
INVARIANT RequestsAreBounded
INVARIANT RequestsAreReported
INVARIANT NoListingTwice
INVARIANT EvidenceIsOfItsHost
PROPERTY IsSnapshotFetch
