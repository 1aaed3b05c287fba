CONSTANTS
  home = home
  careers = careers
  portal = portal
  vendor = vendor
  intranet = intranet
  own = own
  jobsHost = jobsHost
  other = other
  Urls = {home, careers, portal, vendor, intranet}
  Seeds <- MCSeeds
  Unsafe = {intranet}
  Hosts = {own, jobsHost, other}
  Host <- MCHost
  Official = {own}
  Portals = {jobsHost}
  Ats = {vendor}
  Rank <- MCRank
  MaxRequests = 4
  MaxDepth = 2
  MaxRedirects = 1
  MaxLinks = 2
SPECIFICATION Spec
INVARIANT WithinBudget
INVARIANT HopsAreTrusted
INVARIANT NothingIsMissed
