CONSTANTS
  t1 = t1
  t2 = t2
  Tabs = {t1}
  MaxScrapeRuns = 3
  MaxClock = 1
SPECIFICATION UnreadSpec
CHECK_DEADLOCK FALSE
PROPERTY ReadStaysRead
