SPECIFICATION Spec
CONSTANTS
  t1 = t1
  t2 = t2
  w1 = w1
  w2 = w2
  Tasks = {t1}
  Workers = {w1, w2}
  Provider = "auto"
  RenderPages = TRUE
  AllowHuman = TRUE
  MaxBrowserPages = 3
  Configured = {"local", "brightdata", "firecrawl", "browserbase"}
  ServedRoutes <- Routes
  Budget <- MCBudget
  Cost <- MCCost
  Bills <- MCBills
  MaxAttempts = 2
SYMMETRY Symmetry
PROPERTIES BrowserComesFirst
CHECK_DEADLOCK FALSE
