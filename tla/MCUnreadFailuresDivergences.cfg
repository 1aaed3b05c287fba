CONSTANTS
  t1 = t1
  t2 = t2
  Tabs = {t1, t2}
  MaxScrapeRuns = 3
  MaxClock = 1
SPECIFICATION UnreadSpec
CHECK_DEADLOCK FALSE
INVARIANT NewFailuresAreCounted
PROPERTY ReadStaysRead
