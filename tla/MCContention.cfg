SPECIFICATION FairSpec
CONSTANTS
  t1 = t1
  t2 = t2
  w1 = w1
  w2 = w2
  Tasks = {t1, t2}
  Workers = {w1, w2}
  Provider = "brightdata"
  RenderPages = FALSE
  AllowHuman = FALSE
  MaxBrowserPages = 0
  Configured = {"local", "brightdata", "firecrawl", "browserbase"}
  ServedRoutes <- MCNoProxy
  Budget <- MCBudget
  Cost <- MCCost
  Bills <- MCBills
  MaxAttempts = 1
INVARIANTS LedgerInv ChargesAreRight
PROPERTIES EveryCallSettles
CHECK_DEADLOCK FALSE
