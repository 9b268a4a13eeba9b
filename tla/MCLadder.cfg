SPECIFICATION Spec
CONSTANTS
  t1 = t1
  t2 = t2
  w1 = w1
  w2 = w2
  Tasks = {t1}
  Workers = {w1, w2}
  Provider = "auto"
  RenderPages = FALSE
  AllowHuman = TRUE
  MaxBrowserPages = 0
  Configured = {"local", "brightdata", "firecrawl", "browserbase"}
  ServedRoutes <- Routes
  Budget <- MCOneBudget
  Cost <- MCCost
  Bills <- MCBills
  MaxAttempts = 3
SYMMETRY Symmetry
INVARIANTS RouteInv
PROPERTIES SettledOnce
CHECK_DEADLOCK FALSE
